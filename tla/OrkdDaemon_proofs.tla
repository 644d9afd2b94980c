-------------------------- MODULE OrkdDaemon_proofs --------------------------
(***************************************************************************)
(* Proofs about OrkdDaemon, for every number of clients, domains, weights, *)
(* queue entries and rows.                                                 *)
(***************************************************************************)
EXTENDS OrkdDaemon, FiniteSetTheorems, SequenceTheorems, TLAPS

-----------------------------------------------------------------------------
(* The operators the actions are built from keep their types.              *)

(* Freeing queue items renumbers the rest: still a finite set of items,    *)
(* each of them a queued one but for its rank.                             *)
LEMMA WkFree ==
    ASSUME TypeOK, NEW R \in SUBSET g_q
    PROVE  /\ wk_free(R) \subseteq Work
           /\ IsFiniteSet(wk_free(R))
           /\ \A v \in wk_free(R) : \E w \in g_q \ R :
                v = [w EXCEPT !.seq = v.seq]
<1> DEFINE f == [w \in g_q \ R |-> [w EXCEPT !.seq = @ - Ahead(R, w)]]
<1>1. ASSUME NEW w \in g_q PROVE Ahead(R, w) \in Nat
  <2>1. {v \in R : v.seq < w.seq} \in SUBSET g_q
    OBVIOUS
  <2>2. IsFiniteSet({v \in R : v.seq < w.seq})
    BY <2>1, FS_Subset DEF TypeOK
  <2> QED BY <2>2, FS_CardinalityType DEF Ahead
<1>2. IsFiniteSet(g_q \ R)
  BY FS_Difference DEF TypeOK
<1>3. f \in Surjection(g_q \ R, wk_free(R))
  BY DEF wk_free, Surjection
<1>4. IsFiniteSet(wk_free(R))
  BY <1>2, <1>3, FS_Surjection
<1>5. \A w \in g_q \ R : f[w] \in Work
  <2> SUFFICES ASSUME NEW w \in g_q \ R PROVE f[w] \in Work
    OBVIOUS
  <2>1. w \in Work
    BY DEF TypeOK
  <2>2. w.seq - Ahead(R, w) \in Int
    BY <1>1, <2>1 DEF Work, WorkRec
  <2> QED BY <2>1, <2>2 DEF Work, WorkRec
<1>6. \A v \in wk_free(R) : \E w \in g_q \ R : v = f[w]
  BY DEF wk_free
<1>7. \A w \in g_q \ R : f[w] = [w EXCEPT !.seq = f[w].seq]
  BY DEF TypeOK, Work, WorkRec
<1> QED BY <1>4, <1>5, <1>6, <1>7

(* Enqueueing keeps the queue a finite set of items.                       *)
LEMMA WkAlloc ==
    ASSUME TypeOK, NEW w \in Work
    PROVE  /\ wk_alloc(w) \subseteq Work
           /\ IsFiniteSet(wk_alloc(w))
<1>1. Cardinality(g_q) \in Nat
  BY FS_CardinalityType DEF TypeOK
<1>2. [w EXCEPT !.seq = Cardinality(g_q)] \in Work
  BY <1>1 DEF Work, WorkRec
<1> QED BY <1>2, FS_AddElement DEF wk_alloc, TypeOK

(* Every request a client can have outstanding has its fields in range.    *)
LEMMA RequestFields ==
    ASSUME NEW m \in Requests \cup {NoReq, Hello, Bye}
    PROVE  /\ m.op \in Tags
           /\ m.wid \in 0 .. MaxWid
           /\ m.rows \in Nat
           /\ m.dom \in Doms
           /\ m.op = "RUN" => m.wid \in Wids /\ m.prio \in Prios
<1>1. CASE m \in {NoReq, Hello, Bye}
  BY <1>1, LimitsAssumption, InputAssumption
     DEF NoReq, Hello, Bye, Msg, Doms, Wids, Pool, Tags, RequestKinds
<1>2. CASE \E op \in Ops \cap {"PING", "DOM_REQ", "SDP"} : m = Msg(op, 0, 0, 0, 0)
  BY <1>2, LimitsAssumption, InputAssumption
     DEF Msg, Doms, Wids, Pool, Tags, RequestKinds
<1>3. CASE \E op \in Ops \cap {"FREE", "CHAIN"}, w \in Wids : m = Msg(op, w, 0, 0, 0)
  BY <1>3, LimitsAssumption, InputAssumption
     DEF Msg, Doms, Wids, Pool, Tags, RequestKinds
<1>4. CASE \E op \in Ops \cap {"PACK"}, d \in Doms : m = Msg(op, 0, 0, 0, d)
  BY <1>4, LimitsAssumption, InputAssumption
     DEF Msg, Doms, Wids, Pool, Tags, RequestKinds
<1>5. CASE \E op \in Ops \cap {"DOM_REL"}, d \in Pool : m = Msg(op, 0, 0, 0, d)
  BY <1>5, LimitsAssumption, InputAssumption
     DEF Msg, Doms, Wids, Pool, Tags, RequestKinds
<1>6. CASE \E op \in Ops \cap {"RUN"}, w \in Wids, r \in Rows, pr \in Prios :
             m = Msg(op, w, r, pr, 0)
  BY <1>6, LimitsAssumption, InputAssumption
     DEF Msg, Doms, Wids, Pool, Tags, RequestKinds
<1>7. \/ m \in {NoReq, Hello, Bye}
      \/ \E op \in Ops \cap {"PING", "DOM_REQ", "SDP"} : m = Msg(op, 0, 0, 0, 0)
      \/ \E op \in Ops \cap {"FREE", "CHAIN"}, w \in Wids : m = Msg(op, w, 0, 0, 0)
      \/ \E op \in Ops \cap {"PACK"}, d \in Doms : m = Msg(op, 0, 0, 0, d)
      \/ \E op \in Ops \cap {"DOM_REL"}, d \in Pool : m = Msg(op, 0, 0, 0, d)
      \/ \E op \in Ops \cap {"RUN"}, w \in Wids, r \in Rows, pr \in Prios :
            m = Msg(op, w, r, pr, 0)
  BY SMT DEF Requests
<1> QED BY <1>1, <1>2, <1>3, <1>4, <1>5, <1>6, <1>7, Zenon

(* Replies have the type of replies.                                       *)
LEMMA ReplyTypes ==
    ASSUME NEW m \in Requests \cup {NoReq, Hello, Bye, RunTag}, NEW id \in Nat
    PROVE  Ok(m, id) \in ReplyRec /\ Err(m) \in ReplyRec
<1>1. m.op \in Tags
  BY RequestFields DEF RunTag, Msg, Tags, RequestKinds
<1> QED BY <1>1 DEF Ok, Err, ReplyRec

(* A reply is appended to the replies the client has not read, or lost.    *)
LEMMA ReplyKeepsType ==
    ASSUME TypeOK, NEW p \in Peers, NEW r \in ReplyRec, Reply(p, r)
    PROVE  rx' \in [Peers -> Seq(ReplyRec)]
BY DEF Reply, TypeOK

(* Compaction: one slot fewer, the last one moved to i.                    *)
LEMMA CompactType ==
    ASSUME NEW S, NEW s \in Seq(S), NEW i \in 1 .. Len(s)
    PROVE  /\ Compact(s, i) \in Seq(S)
           /\ Len(Compact(s, i)) = Len(s) - 1
           /\ \A j \in 1 .. (Len(s) - 1) :
                Compact(s, i)[j] = IF j = i THEN s[Len(s)] ELSE s[j]
<1>1. Len(s) - 1 \in Nat
  OBVIOUS
<1>2. Compact(s, i) \in [1 .. (Len(s) - 1) -> S]
  BY DEF Compact
<1> QED BY <1>1, <1>2 DEF Compact

(* Overwriting one element of a sequence.                                  *)
LEMMA SetSlot ==
    ASSUME NEW S, NEW s \in Seq(S), NEW i \in 1 .. Len(s), NEW e \in S
    PROVE  /\ [s EXCEPT ![i] = e] \in Seq(S)
           /\ Len([s EXCEPT ![i] = e]) = Len(s)
           /\ \A j \in 1 .. Len(s) :
                [s EXCEPT ![i] = e][j] = IF j = i THEN e ELSE s[j]
OBVIOUS

(* The daemon starts with an empty table, queue and pool.                  *)
LEMMA TypeInit == Init => TypeOK
BY LimitsAssumption, FS_EmptySet
   DEF Init, TypeOK, Doms, Pool, Requests, ReplyRec, ClientRec

(* The client side of a step keeps the types.                              *)
LEMMA TypeClient ==
    ASSUME TypeOK, NEW p \in Peers, Client(p)
    PROVE  TypeOK'
<1> USE DEF TypeOK, daemonVars, clientVars
<1>1. CASE Connect(p)
  BY <1>1 DEF Connect
<1>2. CASE SendRest(p)
  BY <1>2 DEF SendRest
<1>3. CASE Receive(p)
  BY <1>3 DEF Receive
<1>4. CASE Disconnect(p)
  BY <1>4 DEF Disconnect
<1>5. CASE Die(p)
  BY <1>5 DEF Die
<1>6. CASE SeeEof(p)
  BY <1>6 DEF SeeEof
<1>7. CASE Spawn(p)
  BY <1>7 DEF Spawn
<1>8. CASE \E m \in Requests : Send(p, m)
  BY <1>8 DEF Send
<1> QED BY <1>1, <1>2, <1>3, <1>4, <1>5, <1>6, <1>7, <1>8 DEF Client

(* A drop keeps the types.                                                 *)
LEMMA TypeDrop ==
    ASSUME TypeOK, NEW i \in 1 .. Len(cl), Drop(i)
    PROVE  TypeOK'
<1> DEFINE R == {w \in g_q : w.fd = cl[i].fd}
<1>1. g_q' \subseteq Work /\ IsFiniteSet(g_q')
  BY WkFree, R \in SUBSET g_q DEF Drop, WorkOf
<1>2. cl' \in Seq(ClientRec)
  BY CompactType DEF Drop, TypeOK
<1>3. refs' \in Nat
  BY DEF Drop, Unsubscribe, TypeOK
<1>4. /\ sock' \in [Fds -> Peers \cup {NoPeer}]
      /\ backlog' \in Seq(Peers)
      /\ peer' \in [Peers -> {"off", "greet", "live", "hup"}]
      /\ out' \in [Peers -> {"none", "hdr", "full"}]
  BY DEF Drop, TypeOK
<1>5. req' \in [Peers -> Requests \cup {NoReq, Hello, Bye}]
  BY DEF Drop, TypeOK
<1>8. rx' \in [Peers -> Seq(ReplyRec)]
  <2>1. <<>> \in Seq(ReplyRec)
    OBVIOUS
  <2> QED BY <2>1 DEF Drop, TypeOK
<1>6. pc' \in {"poll", "service", "exit", "down"} /\ rev' \subseteq Nat
  BY DEF Drop, TypeOK, StillToServe
<1>7. g_dom_inuse' \subseteq Pool /\ g_active_dom' \in Doms
  BY DEF Drop, TypeOK, Released
<1> QED BY <1>1, <1>2, <1>3, <1>4, <1>5, <1>6, <1>7, <1>8 DEF TypeOK

(* What every handler leaves typed: the request is taken from the socket,  *)
(* and the reply is a reply.                                               *)
LEMMA TypeTake ==
    ASSUME TypeOK, NEW i \in 1 .. Len(cl), NEW p, NEW m, Take(i, p, m)
    PROVE  /\ out' \in [Peers -> {"none", "hdr", "full"}]
           /\ rev' \subseteq Nat
           /\ cl[i] \in ClientRec
<1>1. out' \in [Peers -> {"none", "hdr", "full"}]
  BY DEF Take, TypeOK
<1>2. rev' \subseteq Nat
  BY DEF Take, TypeOK
<1>3. cl[i] \in ClientRec
  BY DEF TypeOK
<1> QED BY <1>1, <1>2, <1>3

(* Updates of one slot's record.                                           *)
LEMMA ClientUpdates ==
    ASSUME NEW c \in ClientRec
    PROVE  /\ [c EXCEPT !.hello = TRUE] \in ClientRec
           /\ \A W \in SUBSET Weight : [c EXCEPT !.wt = W] \in ClientRec
           /\ \A D \in SUBSET Pool : [c EXCEPT !.owned_dom = D] \in ClientRec
           /\ \A n \in 0 .. MaxWid, W \in SUBSET Weight :
                [c EXCEPT !.next_wid = n, !.wt = W] \in ClientRec
BY DEF ClientRec

(* Every handler, and the drop that a BYE, an EOF or a failed write ends   *)
(* in, keeps the types.                                                    *)
LEMMA TypeService ==
    ASSUME TypeOK, NEW i \in 1 .. Len(cl), Service(i),
           sock[cl[i].fd] \in Peers
    PROVE  TypeOK'
<1> DEFINE p == sock[cl[i].fd]
           m == req[p]
<1>0. /\ p \in Peers
      /\ m \in Requests \cup {NoReq, Hello, Bye}
  BY DEF TypeOK
<1> HIDE DEF p, m
<1>1. CASE DropEof(i) \/ HandleBye(i) \/ ChainToDeadPeer(i)
  BY <1>1, TypeDrop DEF DropEof, HandleBye, ChainToDeadPeer
<1>2. CASE HandleHello(i, p, m)
  <2>1. rx' \in [Peers -> Seq(ReplyRec)]
    BY <1>0, <1>2, ReplyTypes, ReplyKeepsType DEF HandleHello
  <2>2. cl' \in Seq(ClientRec) /\ refs' \in Nat
    <3>1. [cl[i] EXCEPT !.hello = TRUE] \in ClientRec
      BY <1>2, TypeTake, ClientUpdates DEF HandleHello
    <3>2. cl' = [cl EXCEPT ![i] = [cl[i] EXCEPT !.hello = TRUE]]
      BY <1>2 DEF HandleHello
    <3> QED BY <1>2, <3>1, <3>2, SetSlot DEF HandleHello, TypeOK
  <2> QED BY <1>2, <2>1, <2>2, TypeTake DEF HandleHello, TypeOK
<1>3. CASE HandleStateless(i, p, m)
  <2>1. rx' \in [Peers -> Seq(ReplyRec)]
    BY <1>0, <1>3, ReplyTypes, ReplyKeepsType DEF HandleStateless
  <2> QED BY <1>3, <2>1, TypeTake DEF HandleStateless, TypeOK
<1>4. CASE HandlePack(i, p, m)
  <2>1. rx' \in [Peers -> Seq(ReplyRec)] /\ cl' \in Seq(ClientRec)
    <3>1. CASE cl' = cl /\ Reply(p, Err(m))
      BY <1>0, <3>1, ReplyTypes, ReplyKeepsType DEF TypeOK
    <3>2. CASE /\ cl[i].next_wid < MaxWid
               /\ cl' = [cl EXCEPT
                      ![i].next_wid = @ + 1,
                      ![i].wt = @ \cup {[id |-> cl[i].next_wid + 1,
                                         dom |-> PackDomain(cl[i], m)]}]
               /\ Reply(p, Ok(m, cl[i].next_wid + 1))
      <4>0. cl[i] \in ClientRec
        BY DEF TypeOK
      <4>1. cl[i] \in ClientRec /\ cl[i].next_wid + 1 \in Wids
        BY <3>2, <4>0, LimitsAssumption DEF ClientRec, Wids
      <4>2. PackDomain(cl[i], m) \in Doms
        BY <1>0, <4>1, RequestFields DEF PackDomain, ClientRec
      <4>3. [id |-> cl[i].next_wid + 1, dom |-> PackDomain(cl[i], m)] \in Weight
        BY <4>1, <4>2 DEF Weight
      <4>4. cl' \in Seq(ClientRec)
        <5> DEFINE W == cl[i].wt \cup {[id |-> cl[i].next_wid + 1,
                                         dom |-> PackDomain(cl[i], m)]}
        <5>1. W \in SUBSET Weight /\ cl[i].next_wid + 1 \in 0 .. MaxWid
          BY <4>1, <4>3 DEF ClientRec, Wids
        <5>2. [cl[i] EXCEPT !.next_wid = cl[i].next_wid + 1, !.wt = W] \in ClientRec
          BY <4>1, <5>1, ClientUpdates
        <5>3. cl' = [cl EXCEPT ![i] =
                       [cl[i] EXCEPT !.next_wid = cl[i].next_wid + 1, !.wt = W]]
          BY <3>2 DEF TypeOK
        <5> QED BY <5>2, <5>3, SetSlot DEF TypeOK
      <4>5. rx' \in [Peers -> Seq(ReplyRec)]
        BY <1>0, <3>2, <4>1, ReplyTypes, ReplyKeepsType DEF Wids
      <4> QED BY <4>4, <4>5
    <3> QED BY <1>4, <3>1, <3>2 DEF HandlePack
  <2> QED BY <1>4, <2>1, TypeTake DEF HandlePack, TypeOK
<1>5. CASE HandleFree(i, p, m)
  <2>1. cl' \in Seq(ClientRec)
    <3>1. cl[i].wt \ {w \in cl[i].wt : w.id = m.wid} \in SUBSET Weight
      BY <1>5, TypeTake DEF HandleFree, ClientRec
    <3> DEFINE W == cl[i].wt \ {w \in cl[i].wt : w.id = m.wid}
    <3>2. [cl[i] EXCEPT !.wt = W] \in ClientRec
      BY <1>5, <3>1, TypeTake, ClientUpdates DEF HandleFree
    <3>3. cl' = [cl EXCEPT ![i] = [cl[i] EXCEPT !.wt = W]]
      BY <1>5 DEF HandleFree
    <3> QED BY <3>2, <3>3, SetSlot DEF TypeOK
  <2>2. m.wid \in Nat
    BY <1>0, RequestFields, LimitsAssumption
  <2>3. rx' \in [Peers -> Seq(ReplyRec)]
    BY <1>0, <1>5, <2>2, ReplyTypes, ReplyKeepsType DEF HandleFree
  <2> QED BY <1>5, <2>1, <2>3, TypeTake DEF HandleFree, TypeOK
<1>6. CASE HandleRun(i, p, m)
  <2>1. /\ rx' \in [Peers -> Seq(ReplyRec)]
        /\ g_q' \subseteq Work
        /\ IsFiniteSet(g_q')
    <3>1. CASE g_q' = g_q /\ Refuse(p, m)
      BY <1>0, <3>1, ReplyTypes, ReplyKeepsType DEF TypeOK, Refuse
    <3>2. ASSUME NEW w \in cl[i].wt,
                 g_q' = wk_alloc([fd |-> cl[i].fd, weight_id |-> m.wid,
                                  prio |-> m.prio, domain |-> w.dom,
                                  M |-> m.rows, m0 |-> 0, rc |-> 0, seq |-> 0]),
                 rx' = rx
          PROVE  /\ rx' \in [Peers -> Seq(ReplyRec)]
                 /\ g_q' \subseteq Work
                 /\ IsFiniteSet(g_q')
      <4>0. cl[i] \in ClientRec
        BY DEF TypeOK
      <4>1. cl[i] \in ClientRec /\ w \in Weight
        BY <4>0 DEF ClientRec
      <4>2. m.wid \in Wids /\ m.prio \in Prios /\ m.rows \in Nat
        BY <1>0, <1>6, RequestFields DEF HandleRun
      <4>3. [fd |-> cl[i].fd, weight_id |-> m.wid, prio |-> m.prio,
             domain |-> w.dom, M |-> m.rows, m0 |-> 0, rc |-> 0, seq |-> 0]
              \in Work
        BY <4>1, <4>2 DEF ClientRec, Weight, Work, WorkRec
      <4> QED BY <3>2, <4>3, WkAlloc DEF TypeOK
    <3> QED BY <1>6, <3>1, <3>2 DEF HandleRun
  <2> QED BY <1>6, <2>1, TypeTake DEF HandleRun, TypeOK
<1>7. CASE HandleChain(i, p, m)
  <2>1. rx' \in [Peers -> Seq(ReplyRec)]
    BY <1>0, <1>7, ReplyTypes, ReplyKeepsType DEF HandleChain
  <2> QED BY <1>7, <2>1, TypeTake DEF HandleChain, TypeOK
<1>8. CASE HandleDomReq(i, p, m)
  <2>1. PICK d \in Doms :
          /\ dom_alloc_explicit(d)
          /\ cl' = [cl EXCEPT ![i].owned_dom = @ \cup ({d} \ {0})]
          /\ g_dom_inuse' = g_dom_inuse \cup ({d} \ {0})
          /\ Reply(p, IF d > 0 THEN Ok(m, d) ELSE Err(m))
    BY <1>8 DEF HandleDomReq
  <2>2. {d} \ {0} \subseteq Pool /\ d \in Nat
    BY <2>1, LimitsAssumption DEF Doms, Pool
  <2>3. cl' \in Seq(ClientRec) /\ g_dom_inuse' \subseteq Pool
    <3>1. cl[i].owned_dom \cup ({d} \ {0}) \in SUBSET Pool
      BY <1>8, <2>2, TypeTake DEF HandleDomReq, ClientRec
    <3> DEFINE E == cl[i].owned_dom \cup ({d} \ {0})
    <3>2. [cl[i] EXCEPT !.owned_dom = E] \in ClientRec
      BY <1>8, <3>1, TypeTake, ClientUpdates DEF HandleDomReq
    <3>3. cl' = [cl EXCEPT ![i] = [cl[i] EXCEPT !.owned_dom = E]]
      BY <2>1
    <3> QED BY <2>1, <2>2, <3>2, <3>3, SetSlot DEF TypeOK
  <2>4. rx' \in [Peers -> Seq(ReplyRec)]
    BY <1>0, <2>1, <2>2, ReplyTypes, ReplyKeepsType
  <2> QED BY <1>8, <2>3, <2>4, TypeTake DEF HandleDomReq, TypeOK
<1>9. CASE HandleDomRel(i, p, m)
  <2>1. cl' \in Seq(ClientRec) /\ g_dom_inuse' \subseteq Pool
    <3>1. cl[i].owned_dom \ {m.dom} \in SUBSET Pool
      BY <1>9, TypeTake DEF HandleDomRel, ClientRec
    <3> DEFINE E == cl[i].owned_dom \ {m.dom}
    <3>2. [cl[i] EXCEPT !.owned_dom = E] \in ClientRec
      BY <1>9, <3>1, TypeTake, ClientUpdates DEF HandleDomRel
    <3>3. cl' = [cl EXCEPT ![i] = [cl[i] EXCEPT !.owned_dom = E]]
      BY <1>9 DEF HandleDomRel
    <3>4. g_dom_inuse' \subseteq Pool
      BY <1>9 DEF HandleDomRel, TypeOK
    <3> QED BY <3>2, <3>3, <3>4, SetSlot DEF TypeOK
  <2>2. m.dom \in Nat
    BY <1>0, RequestFields, LimitsAssumption DEF Doms
  <2>3. rx' \in [Peers -> Seq(ReplyRec)]
    BY <1>0, <1>9, <2>2, ReplyTypes, ReplyKeepsType DEF HandleDomRel
  <2> QED BY <1>9, <2>1, <2>3, TypeTake DEF HandleDomRel, TypeOK
<1> QED
  BY <1>1, <1>2, <1>3, <1>4, <1>5, <1>6, <1>7, <1>8, <1>9 DEF Service, p, m

(* The loop's own steps keep the types.                                    *)
LEMMA TypeLoop ==
    ASSUME TypeOK,
           \/ PollNoAccept \/ PollAccept \/ PollRefuse
           \/ Reap \/ Stop \/ Teardown
    PROVE  TypeOK'
<1>0. Polled \subseteq Nat
  BY DEF Polled, TypeOK
<1>1. CASE PollNoAccept
  BY <1>0, <1>1 DEF PollNoAccept, TypeOK, clientVars
<1>2. CASE PollAccept
  <2>1. PICK fd \in Fds, d \in Doms :
           /\ sock' = [sock EXCEPT ![fd] = Head(backlog)]
           /\ cl' = Append(cl, NewClient(fd, d))
           /\ g_dom_inuse' = g_dom_inuse \cup ({d} \ {0})
    BY <1>2 DEF PollAccept
  <2>2. NewClient(fd, d) \in ClientRec
    BY LimitsAssumption DEF NewClient, ClientRec
  <2>3. cl' \in Seq(ClientRec)
    BY <2>1, <2>2 DEF TypeOK
  <2>4. Head(backlog) \in Peers /\ Tail(backlog) \in Seq(Peers)
    BY <1>2 DEF PollAccept, TypeOK
  <2>5. {d} \ {0} \subseteq Pool
    BY LimitsAssumption DEF Doms, Pool
  <2> QED BY <1>0, <1>2, <2>1, <2>3, <2>4, <2>5 DEF PollAccept, TypeOK, clientVars
<1>3. CASE PollRefuse
  <2>1. Head(backlog) \in Peers /\ Tail(backlog) \in Seq(Peers)
    BY <1>3 DEF PollRefuse, TypeOK
  <2>2. req[Head(backlog)] \in Requests \cup {NoReq, Hello, Bye}
    BY <2>1 DEF TypeOK
  <2>3. CASE peer[Head(backlog)] = "hup"
    BY <1>0, <1>3, <2>1, <2>3 DEF PollRefuse, TypeOK
  <2>4. CASE peer[Head(backlog)] # "hup"
    <3>1. rx' \in [Peers -> Seq(ReplyRec)]
      BY <1>3, <2>1, <2>2, <2>4, ReplyTypes, ReplyKeepsType DEF PollRefuse
    <3> QED BY <1>0, <1>3, <2>1, <2>4, <3>1 DEF PollRefuse, TypeOK
  <2> QED BY <2>3, <2>4
<1>4. CASE Reap
  BY <1>4 DEF Reap, TypeOK, clientVars
<1>5. CASE Stop
  BY <1>5 DEF Stop, TypeOK, clientVars
<1>6. CASE Teardown
  <2>1. /\ <<>> \in Seq(Peers) /\ <<>> \in Seq(ClientRec) /\ <<>> \in Seq(ReplyRec)
        /\ 0 \in Doms
    BY LimitsAssumption DEF Doms
  <2>2. /\ sock' \in [Fds -> Peers \cup {NoPeer}]
        /\ backlog' \in Seq(Peers)
        /\ peer' \in [Peers -> {"off", "greet", "live", "hup"}]
        /\ out' \in [Peers -> {"none", "hdr", "full"}]
    BY <1>6, <2>1 DEF Teardown, TypeOK
  <2>3. /\ req' \in [Peers -> Requests \cup {NoReq, Hello, Bye}]
        /\ rx' \in [Peers -> Seq(ReplyRec)]
    BY <1>6, <2>1 DEF Teardown, TypeOK
  <2> QED BY <1>6, <2>1, <2>2, <2>3, FS_EmptySet DEF Teardown, TypeOK
<1> QED BY <1>1, <1>2, <1>3, <1>4, <1>5, <1>6

(* One quantum: at least as many rows are left as the slice takes.         *)
LEMMA SliceBound ==
    ASSUME TypeOK, NEW w \in g_q
    PROVE  /\ Slice(w) \in Nat
           /\ w.m0 + Slice(w) <= w.M
<1>1. w.M \in Nat /\ w.m0 \in Nat /\ w.m0 <= w.M
  BY DEF TypeOK, Work, WorkRec
<1> QED BY <1>1, LimitsAssumption DEF Slice, Remaining

(* One quantum of dispatch_one keeps the types: m0 does not pass M, and    *)
(* the reply goes to a real peer because the item's descriptor is open.    *)
LEMMA TypeDispatch ==
    ASSUME TypeOK, TableMatchesSockets, Dispatch
    PROVE  TypeOK'
<1>1. CASE g_q = {} /\ UNCHANGED <<g_q, rx, g_active_dom>>
  BY <1>1 DEF Dispatch, TypeOK
<1>2. ASSUME NEW w \in g_q, NEW rc \in {0, -1}, DispatchItem(w, rc)
      PROVE  TypeOK'
  <2> DEFINE r == IF w.rc = 0 /\ Resolved(w) THEN rc ELSE -1
  <2>1. w \in Work
    BY DEF TypeOK
  <2>2. g_active_dom' \in Doms
    BY <1>2, <2>1 DEF DispatchItem, TypeOK, Work, WorkRec
  <2>3. CASE g_q' = wk_free({w})
    <3>1. g_q' \subseteq Work /\ IsFiniteSet(g_q')
      BY <2>3, WkFree
    <3>2. rx' \in [Peers -> Seq(ReplyRec)]
      <4>1. CASE rx' = rx
        BY <4>1 DEF TypeOK
      <4>2. CASE Alive(w) /\ \E rr \in {Ok(RunTag, w.weight_id), Err(RunTag)} :
                               Reply(sock[w.fd], rr)
        <5>1. sock[w.fd] \in Peers
          BY <4>2 DEF Alive, TableMatchesSockets, Slots
        <5>2. w.weight_id \in Nat
          BY <2>1, LimitsAssumption DEF Work, WorkRec, Wids
        <5> QED BY <4>2, <5>1, <5>2, ReplyTypes, ReplyKeepsType
      <4>3. \/ g_q' # wk_free({w})
            \/ rx' = rx
            \/ Alive(w) /\ \E rr \in {Ok(RunTag, w.weight_id), Err(RunTag)} :
                             Reply(sock[w.fd], rr)
        BY <1>2 DEF DispatchItem
      <4> QED BY <2>3, <4>1, <4>2, <4>3
    <3> QED BY <2>2, <3>1, <3>2, <1>2 DEF TypeOK, Dispatch
  <2>4. CASE /\ g_q' = (g_q \ {w})
                        \cup {[w EXCEPT !.m0 = w.m0 + Slice(w), !.rc = r]}
             /\ rx' = rx
    <3>1. [w EXCEPT !.m0 = w.m0 + Slice(w), !.rc = r] \in Work
      <4>1. w.m0 + Slice(w) \in Nat /\ w.m0 + Slice(w) <= w.M
        BY <2>1, SliceBound DEF Work, WorkRec
      <4>2. r \in {0, -1}
        OBVIOUS
      <4> HIDE DEF r
      <4>3. [w EXCEPT !.m0 = w.m0 + Slice(w), !.rc = r] \in WorkRec
        BY <2>1, <4>1, <4>2 DEF Work, WorkRec
      <4> QED BY <2>1, <4>1, <4>3 DEF Work, WorkRec
    <3>2. g_q' \subseteq Work /\ IsFiniteSet(g_q')
      BY <2>4, <3>1, FS_AddElement, FS_Difference DEF TypeOK
    <3> QED BY <2>2, <2>4, <3>2, <1>2 DEF TypeOK, Dispatch
  <2>5. \/ g_q' = wk_free({w})
        \/ /\ g_q' = (g_q \ {w})
                       \cup {[w EXCEPT !.m0 = w.m0 + Slice(w), !.rc = r]}
           /\ rx' = rx
    BY <1>2 DEF DispatchItem
  <2> QED BY <2>3, <2>4, <2>5
<1> QED BY <1>1, <1>2 DEF Dispatch

-----------------------------------------------------------------------------
(* Client table, descriptors and backlog.                                  *)

(* Every slot holds a client record, on a descriptor.                      *)
LEMMA SlotType ==
    ASSUME TypeOK
    PROVE  \A j \in Slots : cl[j] \in ClientRec /\ cl[j].fd \in Fds
<1>1. \A j \in Slots : cl[j] \in ClientRec
  BY DEF TypeOK, Slots
<1> QED BY <1>1 DEF ClientRec

(* At the start nobody is connected.                                       *)
LEMMA ConnInit == Init => ConnectionsAgree
BY DEF Init, ConnectionsAgree, TableMatchesSockets, BacklogMatchesSockets, Slots

(* A step that moves no descriptor and turns off no connected peer.        *)
LEMMA ConnFrame ==
    ASSUME TypeOK, ConnectionsAgree,
           sock' = sock, backlog' = backlog,
           Len(cl') = Len(cl),
           \A j \in Slots : cl'[j].fd = cl[j].fd,
           \A q \in Peers : peer'[q] = "off" => peer[q] = "off" \/ ~Connected(q)
    PROVE  ConnectionsAgree'
<1>1. TableMatchesSockets'
  <2>1. Slots' = Slots
    BY DEF Slots
  <2>2. \A fd \in Fds : sock[fd] # NoPeer => peer'[sock[fd]] # "off"
    BY DEF TypeOK, ConnectionsAgree, TableMatchesSockets, Connected
  <2> QED BY <2>1, <2>2 DEF ConnectionsAgree, TableMatchesSockets
<1>2. BacklogMatchesSockets'
  <2>1. \A k \in 1 .. Len(backlog) : backlog[k] \in Peers
    BY DEF TypeOK
  <2>2. \A k \in 1 .. Len(backlog) : peer'[backlog[k]] # "off"
    BY <2>1 DEF ConnectionsAgree, BacklogMatchesSockets, Connected
  <2> QED BY <2>2 DEF ConnectionsAgree, BacklogMatchesSockets
<1> QED BY <1>1, <1>2 DEF ConnectionsAgree

(* connect() joins the backlog once.                                       *)
LEMMA ConnConnect ==
    ASSUME TypeOK, ConnectionsAgree, NEW p \in Peers, Connect(p)
    PROVE  ConnectionsAgree'
<1>1. /\ Len(backlog') = Len(backlog) + 1
      /\ \A k \in 1 .. Len(backlog) : backlog'[k] = backlog[k]
      /\ backlog'[Len(backlog) + 1] = p
      /\ Len(backlog) \in Nat
  BY DEF Connect, TypeOK
<1>2. \A k \in 1 .. Len(backlog) : backlog[k] \in Peers /\ backlog[k] # p
  BY DEF TypeOK, Connect, ConnectionsAgree, BacklogMatchesSockets
<1>3. \A fd \in Fds : sock[fd] # p
  BY InputAssumption DEF TypeOK, Connect, ConnectionsAgree, TableMatchesSockets
<1>4. /\ peer'[p] = "greet"
      /\ \A q \in Peers : q # p => peer'[q] = peer[q]
  BY DEF Connect, TypeOK
<1>5. sock' = sock /\ cl' = cl
  BY DEF Connect, daemonVars
<1>6. TableMatchesSockets'
  BY <1>4, <1>5 DEF ConnectionsAgree, TableMatchesSockets, Slots, TypeOK
<1>7. BacklogMatchesSockets'
  BY <1>1, <1>2, <1>3, <1>4, <1>5 DEF ConnectionsAgree, BacklogMatchesSockets
<1> QED BY <1>6, <1>7 DEF ConnectionsAgree

(* Only a connect moves a connection among the steps of a client.          *)
LEMMA ConnClient ==
    ASSUME TypeOK, ConnectionsAgree, NEW p \in Peers, Client(p)
    PROVE  ConnectionsAgree'
<1> USE DEF daemonVars, clientVars, TypeOK
<1>1. CASE SendRest(p)
  BY <1>1, ConnFrame DEF SendRest
<1>2. CASE Receive(p)
  BY <1>2, ConnFrame DEF Receive
<1>3. CASE Disconnect(p)
  BY <1>3, ConnFrame DEF Disconnect
<1>4. CASE Die(p)
  BY <1>4, ConnFrame DEF Die
<1>5. CASE SeeEof(p)
  BY <1>5, ConnFrame DEF SeeEof
<1>6. CASE Spawn(p)
  BY <1>6, ConnFrame DEF Spawn
<1>7. CASE \E m \in Requests : Send(p, m)
  BY <1>7, ConnFrame DEF Send
<1> QED BY <1>1, <1>2, <1>3, <1>4, <1>5, <1>6, <1>7, ConnConnect DEF Client

(* What the slots of a compacted table are.                                *)
LEMMA DropSlots ==
    ASSUME TypeOK, ConnectionsAgree, NEW i \in Slots, Drop(i)
    PROVE  /\ Slots' = 1 .. (Len(cl) - 1)
           /\ Len(cl) \in Nat
           /\ \A j \in Slots' : cl'[j] = IF j = i THEN cl[Len(cl)] ELSE cl[j]
           /\ \A j \in Slots : j # i =>
                 cl[j].fd # cl[i].fd /\ sock[cl[j].fd] # sock[cl[i].fd]
           /\ cl[i].fd \in Fds
           /\ sock[cl[i].fd] \in Peers
<1>1. /\ Len(cl') = Len(cl) - 1
      /\ \A j \in 1 .. (Len(cl) - 1) :
           cl'[j] = IF j = i THEN cl[Len(cl)] ELSE cl[j]
  BY CompactType DEF Drop, TypeOK, Slots
<1>2. \A j \in Slots : cl[j] \in ClientRec
  BY DEF TypeOK, Slots
<1>3. \A j \in Slots : cl[j].fd \in Fds /\ sock[cl[j].fd] \in Peers
  BY <1>2 DEF ClientRec, ConnectionsAgree, TableMatchesSockets
<1>4. \A j \in Slots : j # i =>
         cl[j].fd # cl[i].fd /\ sock[cl[j].fd] # sock[cl[i].fd]
  BY <1>3, InputAssumption DEF ConnectionsAgree, TableMatchesSockets
<1> QED BY <1>1, <1>3, <1>4 DEF Slots, TypeOK

(* A drop closes one descriptor and takes one slot out of the table; the   *)
(* slot that moves keeps its descriptor.                                   *)
LEMMA ConnDrop ==
    ASSUME TypeOK, ConnectionsAgree, NEW i \in Slots, Drop(i)
    PROVE  ConnectionsAgree'
<1> DEFINE f == cl[i].fd
           p == sock[f]
           n == Len(cl)
<1>1. /\ Slots' = 1 .. (n - 1) /\ n \in Nat
      /\ \A j \in Slots' : cl'[j] = IF j = i THEN cl[n] ELSE cl[j]
      /\ f \in Fds /\ p \in Peers
  BY DropSlots
<1>2. \A j \in Slots : j # i => cl[j].fd # f /\ sock[cl[j].fd] # p
  BY DropSlots
<1>3. \A j \in Slots : cl[j].fd \in Fds
  BY SlotType
<1>4. /\ \A e \in Fds : sock'[e] = IF e = f THEN NoPeer ELSE sock[e]
      /\ \A q \in Peers : peer'[q] = IF q = p THEN "off" ELSE peer[q]
      /\ backlog' = backlog
  BY <1>1 DEF Drop, TypeOK
<1> HIDE DEF f, p, n
<1>5. \A e \in Fds : e # f => sock[e] # p
  BY <1>1, InputAssumption DEF p, ConnectionsAgree, TableMatchesSockets
<1> DEFINE old(j) == IF j = i THEN n ELSE j
<1>6. \A j \in Slots' : old(j) \in Slots /\ old(j) # i /\ cl'[j] = cl[old(j)]
  BY <1>1 DEF Slots, n
<1>7. \A j, k \in Slots' : old(j) = old(k) => j = k
  BY <1>1
<1>8. \A k \in Slots : k # i => \E j \in Slots' : old(j) = k
  <2> SUFFICES ASSUME NEW k \in Slots, k # i PROVE \E j \in Slots' : old(j) = k
    OBVIOUS
  <2>1. CASE k = n
    BY <1>1, <2>1 DEF Slots, n
  <2>2. CASE k # n
    BY <1>1, <2>2 DEF Slots, n
  <2> QED BY <2>1, <2>2
<1> HIDE DEF old
<1>9. TableMatchesSockets'
  <2>1. \A j \in Slots' : cl'[j].fd \in Fds /\ sock'[cl'[j].fd] \in Peers
    BY <1>2, <1>3, <1>4, <1>6 DEF ConnectionsAgree, TableMatchesSockets
  <2>2. \A j, k \in Slots' : cl'[j].fd = cl'[k].fd => j = k
    BY <1>6, <1>7 DEF ConnectionsAgree, TableMatchesSockets
  <2>3. \A fd \in Fds : sock'[fd] # NoPeer => \E j \in Slots' : cl'[j].fd = fd
    <3> SUFFICES ASSUME NEW fd \in Fds, sock'[fd] # NoPeer
                 PROVE  \E j \in Slots' : cl'[j].fd = fd
      OBVIOUS
    <3>1. fd # f /\ sock[fd] # NoPeer
      BY <1>4
    <3>2. PICK k \in Slots : cl[k].fd = fd
      BY <3>1 DEF ConnectionsAgree, TableMatchesSockets
    <3>3. k # i
      BY <3>1, <3>2 DEF f
    <3> QED BY <1>6, <1>8, <3>2, <3>3
  <2>4. \A e, g \in Fds : sock'[e] = sock'[g] /\ sock'[e] # NoPeer => e = g
    BY <1>4 DEF ConnectionsAgree, TableMatchesSockets
  <2>5. \A fd \in Fds : sock'[fd] # NoPeer => peer'[sock'[fd]] # "off"
    <3> SUFFICES ASSUME NEW fd \in Fds, sock'[fd] # NoPeer
                 PROVE  peer'[sock'[fd]] # "off"
      OBVIOUS
    <3>1. fd # f /\ sock'[fd] = sock[fd] /\ sock[fd] # NoPeer
      BY <1>4
    <3>2. sock[fd] \in Peers /\ sock[fd] # p
      BY <1>5, <3>1 DEF TypeOK
    <3> QED BY <1>4, <3>1, <3>2 DEF ConnectionsAgree, TableMatchesSockets
  <2> QED BY <2>1, <2>2, <2>3, <2>4, <2>5 DEF TableMatchesSockets
<1>10. BacklogMatchesSockets'
  <2>1. \A k \in 1 .. Len(backlog) : backlog[k] \in Peers /\ backlog[k] # p
    BY <1>1 DEF TypeOK, ConnectionsAgree, BacklogMatchesSockets, p
  <2>2. \A k \in 1 .. Len(backlog), fd \in Fds : sock'[fd] # backlog[k]
    BY <1>4, <2>1, InputAssumption DEF ConnectionsAgree, BacklogMatchesSockets
  <2> QED BY <1>4, <2>1, <2>2 DEF ConnectionsAgree, BacklogMatchesSockets
<1> QED BY <1>9, <1>10 DEF ConnectionsAgree

(* A handler that does not drop changes no descriptor.                     *)
LEMMA TakeFrame ==
    ASSUME TypeOK, NEW i \in Slots, Service(i),
           ~(DropEof(i) \/ HandleBye(i) \/ ChainToDeadPeer(i))
    PROVE  /\ Take(i, sock[cl[i].fd], req[sock[cl[i].fd]])
           /\ sock' = sock /\ backlog' = backlog /\ peer' = peer /\ pc' = pc
           /\ Len(cl') = Len(cl)
           /\ \A j \in Slots : cl'[j].fd = cl[j].fd
           /\ \A j \in Slots : j # i => cl'[j] = cl[j]
<1> DEFINE p == sock[cl[i].fd]
           m == req[p]
<1> HIDE DEF p, m
<1>0. cl[i] \in ClientRec /\ cl \in Seq(ClientRec) /\ i \in 1 .. Len(cl)
  BY SlotType DEF TypeOK, Slots
<1>1. CASE HandleHello(i, p, m)
  <2> DEFINE c == [cl[i] EXCEPT !.hello = TRUE]
  <2>1. cl' = [cl EXCEPT ![i] = c] /\ c.fd = cl[i].fd
    BY <1>0, <1>1 DEF HandleHello, ClientRec
  <2> HIDE DEF c
  <2>2. /\ Len(cl') = Len(cl)
        /\ \A j \in Slots : cl'[j] = IF j = i THEN c ELSE cl[j]
    BY <1>0, <2>1 DEF Slots
  <2> QED BY <1>1, <2>1, <2>2 DEF HandleHello, p, m
<1>2. CASE HandleStateless(i, p, m)
  BY <1>2 DEF HandleStateless, p, m
<1>3. CASE HandlePack(i, p, m)
  <2> DEFINE W == cl[i].wt \cup {[id |-> cl[i].next_wid + 1,
                                   dom |-> PackDomain(cl[i], m)]}
             c == [cl[i] EXCEPT !.next_wid = cl[i].next_wid + 1, !.wt = W]
  <2>1. CASE cl' = cl
    BY <1>3, <2>1 DEF HandlePack, p, m
  <2>2. CASE cl' = [cl EXCEPT ![i] = c]
    BY <1>0, <1>3, <2>2 DEF HandlePack, ClientRec, Slots, p, m
  <2>3. cl' = cl \/ cl' = [cl EXCEPT ![i] = c]
    BY <1>0, <1>3 DEF HandlePack
  <2> QED BY <2>1, <2>2, <2>3
<1>4. CASE HandleFree(i, p, m)
  <2> DEFINE W == cl[i].wt \ {w \in cl[i].wt : w.id = m.wid}
  <2>1. cl' = [cl EXCEPT ![i] = [cl[i] EXCEPT !.wt = W]]
    BY <1>4 DEF HandleFree
  <2> QED BY <1>0, <1>4, <2>1 DEF HandleFree, ClientRec, Slots, p, m
<1>5. CASE HandleRun(i, p, m)
  BY <1>5 DEF HandleRun, p, m
<1>6. CASE HandleChain(i, p, m)
  BY <1>6 DEF HandleChain, p, m
<1>7. CASE HandleDomReq(i, p, m)
  <2>1. PICK d \in Doms : cl' = [cl EXCEPT ![i].owned_dom = @ \cup ({d} \ {0})]
    BY <1>7 DEF HandleDomReq
  <2> DEFINE c == [cl[i] EXCEPT !.owned_dom = cl[i].owned_dom \cup ({d} \ {0})]
  <2>2. cl' = [cl EXCEPT ![i] = c] /\ c.fd = cl[i].fd
    BY <1>0, <2>1 DEF ClientRec
  <2> HIDE DEF c
  <2>3. /\ Len(cl') = Len(cl)
        /\ \A j \in Slots : cl'[j] = IF j = i THEN c ELSE cl[j]
    BY <1>0, <2>2 DEF Slots
  <2> QED BY <1>7, <2>2, <2>3 DEF HandleDomReq, p, m
<1>8. CASE HandleDomRel(i, p, m)
  BY <1>0, <1>8 DEF HandleDomRel, ClientRec, Slots, p, m
<1> QED
  BY <1>1, <1>2, <1>3, <1>4, <1>5, <1>6, <1>7, <1>8 DEF Service, p, m

(* A handler drops its client or leaves the connections alone.             *)
LEMMA ConnService ==
    ASSUME TypeOK, ConnectionsAgree, NEW i \in Slots, Service(i)
    PROVE  ConnectionsAgree'
<1>1. CASE DropEof(i) \/ HandleBye(i) \/ ChainToDeadPeer(i)
  BY <1>1, ConnDrop DEF DropEof, HandleBye, ChainToDeadPeer
<1>2. CASE ~(DropEof(i) \/ HandleBye(i) \/ ChainToDeadPeer(i))
  BY <1>2, TakeFrame, ConnFrame
<1> QED BY <1>1, <1>2

(* accept() moves the head of the backlog to a free descriptor and a new   *)
(* slot.                                                                   *)
LEMMA ConnAccept ==
    ASSUME TypeOK, ConnectionsAgree, PollAccept
    PROVE  ConnectionsAgree'
<1>1. PICK fd \in Fds, d \in Doms :
         /\ sock[fd] = NoPeer
         /\ sock' = [sock EXCEPT ![fd] = Head(backlog)]
         /\ cl' = Append(cl, NewClient(fd, d))
  BY DEF PollAccept
<1> DEFINE p == Head(backlog)
           n == Len(cl)
<1>2. /\ p \in Peers /\ p = backlog[1] /\ Len(backlog) \in Nat /\ Len(backlog) > 0
      /\ Len(backlog') = Len(backlog) - 1
      /\ \A k \in 1 .. Len(backlog') : backlog'[k] = backlog[k + 1]
  BY DEF PollAccept, TypeOK
<1>3. /\ Slots' = 1 .. (n + 1) /\ n \in Nat
      /\ \A j \in Slots : cl'[j] = cl[j]
      /\ cl'[n + 1].fd = fd
  BY <1>1 DEF Slots, TypeOK, NewClient
<1>4. /\ \A e \in Fds : sock'[e] = IF e = fd THEN p ELSE sock[e]
      /\ peer' = peer
  BY <1>1 DEF TypeOK, PollAccept, clientVars
<1> HIDE DEF p, n
<1>5. \A j \in Slots' : j \in Slots \/ j = n + 1
  BY <1>3 DEF Slots, n
<1>6. \A j \in Slots : j \in Slots' /\ cl[j].fd # fd /\ cl[j].fd \in Fds
  BY <1>1, <1>3, SlotType, InputAssumption
     DEF Slots, n, ConnectionsAgree, TableMatchesSockets
<1>7. n + 1 \in Slots'
  BY <1>3
<1>8. \A e \in Fds : sock[e] # p
  BY <1>2 DEF ConnectionsAgree, BacklogMatchesSockets
<1>9. peer[p] # "off"
  BY <1>2 DEF ConnectionsAgree, BacklogMatchesSockets
<1>10. TableMatchesSockets'
  <2>1. \A j \in Slots' : sock'[cl'[j].fd] \in Peers
    BY <1>2, <1>3, <1>4, <1>5, <1>6 DEF ConnectionsAgree, TableMatchesSockets
  <2>2. \A j, k \in Slots' : cl'[j].fd = cl'[k].fd => j = k
    BY <1>3, <1>5, <1>6 DEF ConnectionsAgree, TableMatchesSockets
  <2>3. \A e \in Fds : sock'[e] # NoPeer => \E j \in Slots' : cl'[j].fd = e
    BY <1>3, <1>4, <1>6, <1>7 DEF ConnectionsAgree, TableMatchesSockets
  <2>4. \A e, f \in Fds : sock'[e] = sock'[f] /\ sock'[e] # NoPeer => e = f
    BY <1>4, <1>8 DEF ConnectionsAgree, TableMatchesSockets
  <2>5. \A e \in Fds : sock'[e] # NoPeer => peer'[sock'[e]] # "off"
    BY <1>4, <1>9 DEF ConnectionsAgree, TableMatchesSockets
  <2> QED BY <2>1, <2>2, <2>3, <2>4, <2>5 DEF TableMatchesSockets
<1>11. BacklogMatchesSockets'
  <2>1. \A k \in 1 .. Len(backlog') :
           k + 1 \in 1 .. Len(backlog) /\ backlog[k + 1] # p
    BY <1>2 DEF ConnectionsAgree, BacklogMatchesSockets
  <2> QED BY <1>2, <1>4, <2>1 DEF ConnectionsAgree, BacklogMatchesSockets
<1> QED BY <1>10, <1>11 DEF ConnectionsAgree

(* A refused connection leaves the backlog and gets no descriptor.         *)
LEMMA ConnRefuse ==
    ASSUME TypeOK, ConnectionsAgree, PollRefuse
    PROVE  ConnectionsAgree'
<1> DEFINE p == Head(backlog)
<1>1. /\ p \in Peers /\ p = backlog[1] /\ Len(backlog) \in Nat /\ Len(backlog) > 0
      /\ Len(backlog') = Len(backlog) - 1
      /\ \A k \in 1 .. Len(backlog') : backlog'[k] = backlog[k + 1]
  BY DEF PollRefuse, TypeOK
<1>2. /\ sock' = sock /\ cl' = cl
      /\ \A q \in Peers : q # p => peer'[q] = peer[q]
  BY DEF PollRefuse, TypeOK
<1> HIDE DEF p
<1>3. \A e \in Fds : sock[e] # p
  BY <1>1 DEF ConnectionsAgree, BacklogMatchesSockets
<1>4. TableMatchesSockets'
  <2>1. \A e \in Fds : sock[e] # NoPeer => peer'[sock[e]] = peer[sock[e]]
    BY <1>2, <1>3 DEF TypeOK
  <2> QED BY <1>2, <2>1 DEF ConnectionsAgree, TableMatchesSockets, Slots
<1>5. BacklogMatchesSockets'
  <2>1. \A k \in 1 .. Len(backlog') :
           k + 1 \in 1 .. Len(backlog) /\ backlog[k + 1] # p
    BY <1>1 DEF ConnectionsAgree, BacklogMatchesSockets
  <2>2. \A k \in 1 .. Len(backlog) : backlog[k] \in Peers
    BY DEF TypeOK
  <2>3. \A k \in 1 .. Len(backlog') :
           /\ peer'[backlog'[k]] # "off"
           /\ \A fd \in Fds : sock[fd] # backlog'[k]
    BY <1>1, <1>2, <2>1, <2>2 DEF ConnectionsAgree, BacklogMatchesSockets
  <2>4. \A k, l \in 1 .. Len(backlog') : backlog'[k] = backlog'[l] => k = l
    BY <1>1, <2>1 DEF ConnectionsAgree, BacklogMatchesSockets
  <2> QED BY <1>2, <2>3, <2>4 DEF BacklogMatchesSockets
<1> QED BY <1>4, <1>5 DEF ConnectionsAgree

(* The rest of the loop moves no connection; the end of the process closes *)
(* them all.                                                               *)
LEMMA ConnLoop ==
    ASSUME TypeOK, ConnectionsAgree,
           PollNoAccept \/ Dispatch \/ Reap \/ Stop \/ Teardown
    PROVE  ConnectionsAgree'
<1>1. CASE PollNoAccept \/ Dispatch \/ Reap \/ Stop
  BY <1>1, ConnFrame DEF PollNoAccept, Dispatch, Reap, Stop, clientVars
<1>2. CASE Teardown
  BY <1>2 DEF Teardown, ConnectionsAgree, TableMatchesSockets,
              BacklogMatchesSockets, Slots
<1> QED BY <1>1, <1>2

-----------------------------------------------------------------------------
(* The slots still to be serviced are readable.                            *)

(* A connected peer that poll() reported stays reported: only the daemon   *)
(* takes its bytes, and only a drop forgets its hang-up.                   *)
LEMMA ReadableStays ==
    ASSUME TypeOK, ConnectionsAgree, NEW p \in Peers, Client(p),
           NEW q \in Peers, \E fd \in Fds : sock[fd] = q, Readable(q)
    PROVE  Readable(q)'
<1>1. Connected(q) /\ peer[q] # "off"
  BY InputAssumption DEF Connected, ConnectionsAgree, TableMatchesSockets
<1>2. CASE p # q
  <2>1. out'[q] = out[q] /\ peer'[q] = peer[q]
    <3> USE <1>2 DEF TypeOK, daemonVars, clientVars
    <3>1. CASE Connect(p) \/ SendRest(p) \/ Disconnect(p) \/ Die(p)
      BY <3>1 DEF Connect, SendRest, Disconnect, Die
    <3>2. CASE Receive(p)
      BY <3>2 DEF Receive
    <3>3. CASE SeeEof(p) \/ Spawn(p) \/ \E m \in Requests : Send(p, m)
      BY <3>3 DEF SeeEof, Spawn, Send
    <3> QED BY <3>1, <3>2, <3>3 DEF Client
  <2> QED BY <2>1 DEF Readable
<1>3. CASE p = q
  <2> USE <1>1, <1>3 DEF TypeOK, Readable, daemonVars, clientVars
  <2>1. CASE Connect(p) \/ SendRest(p) \/ Disconnect(p) \/ Die(p)
    BY <2>1 DEF Connect, SendRest, Disconnect, Die
  <2>2. CASE Receive(p)
    BY <2>2 DEF Receive
  <2>3. CASE SeeEof(p) \/ Spawn(p) \/ \E m \in Requests : Send(p, m)
    BY <2>3 DEF SeeEof, Spawn, Send
  <2> QED BY <2>1, <2>2, <2>3 DEF Client
<1> QED BY <1>2, <1>3

(* No step of a client takes back what poll() has reported of it.          *)
LEMMA ReadClient ==
    ASSUME TypeOK, ConnectionsAgree, NoBlockingRead, NEW p \in Peers, Client(p)
    PROVE  NoBlockingRead'
<1>1. \/ cl' = cl /\ sock' = sock /\ rev' = rev /\ pc' = pc
      \/ pc' = "poll"
  BY DEF Client, Connect, Send, SendRest, Receive, Disconnect, Die, SeeEof,
         Spawn, daemonVars, clientVars
<1>2. SUFFICES ASSUME pc' = "service", NEW j \in rev'
               PROVE  /\ j \in Slots'
                      /\ \/ out'[sock'[cl'[j].fd]] # "none"
                         \/ peer'[sock'[cl'[j].fd]] = "hup"
  BY DEF NoBlockingRead, Readable
<1>3. /\ cl' = cl /\ sock' = sock /\ j \in Slots
      /\ Readable(sock[cl[j].fd])
  BY <1>1, <1>2 DEF NoBlockingRead
<1>4. cl[j].fd \in Fds /\ sock[cl[j].fd] \in Peers
  BY <1>3, SlotType DEF ConnectionsAgree, TableMatchesSockets
<1>5. PICK q \in Peers : q = sock[cl[j].fd]
  BY <1>4
<1>6. Readable(q) /\ \E fd \in Fds : sock[fd] = q
  BY <1>3, <1>4, <1>5
<1>7. Readable(q)'
  BY <1>6, ReadableStays
<1> QED BY <1>3, <1>5, <1>7 DEF Slots, Readable

(* Servicing a slot leaves the others readable: its bytes are its own, and *)
(* after a drop the loop does not look at the slot that moved.             *)
LEMMA ReadService ==
    ASSUME TypeOK, ConnectionsAgree, NoBlockingRead, NEW i \in Slots, Service(i)
    PROVE  NoBlockingRead'
<1>0. pc = "service"
  BY DEF Service, DropEof, HandleBye, ChainToDeadPeer, HandleHello,
         HandleStateless, HandlePack, HandleFree, HandleRun, HandleChain,
         HandleDomReq, HandleDomRel, Take, Serving
<1>1. \A j \in rev : /\ j \in Slots /\ cl[j].fd \in Fds
                     /\ sock[cl[j].fd] \in Peers
                     /\ Readable(sock[cl[j].fd])
  BY <1>0, SlotType DEF NoBlockingRead, ConnectionsAgree, TableMatchesSockets
<1>2. CASE DropEof(i) \/ HandleBye(i) \/ ChainToDeadPeer(i)
  <2>0. Drop(i)
    BY <1>2 DEF DropEof, HandleBye, ChainToDeadPeer
  <2>1. \A j \in rev' : j \in rev /\ j # i /\ j < Len(cl)
    BY <2>0 DEF Drop, StillToServe
  <2>2. \A j \in rev' : j \in Slots' /\ cl'[j] = cl[j]
    BY <1>1, <2>0, <2>1, DropSlots DEF Slots
  <2>3. \A j \in rev' : /\ sock'[cl[j].fd] = sock[cl[j].fd]
                        /\ out'[sock[cl[j].fd]] = out[sock[cl[j].fd]]
                        /\ peer'[sock[cl[j].fd]] = peer[sock[cl[j].fd]]
    <3>1. \A j \in rev' : /\ cl[j].fd \in Fds /\ sock[cl[j].fd] \in Peers
                          /\ cl[j].fd # cl[i].fd
                          /\ sock[cl[j].fd] # sock[cl[i].fd]
      BY <1>1, <2>0, <2>1, DropSlots
    <3> QED BY <2>0, <3>1 DEF Drop, TypeOK
  <2> QED BY <1>1, <2>1, <2>2, <2>3 DEF NoBlockingRead, Readable
<1>3. CASE ~(DropEof(i) \/ HandleBye(i) \/ ChainToDeadPeer(i))
  <2>1. /\ Take(i, sock[cl[i].fd], req[sock[cl[i].fd]])
        /\ sock' = sock /\ peer' = peer
        /\ Slots' = Slots
        /\ \A j \in Slots : cl'[j].fd = cl[j].fd
    BY <1>3, TakeFrame DEF Slots
  <2>2. \A j \in rev' : j \in rev /\ j # i
    BY <2>1 DEF Take
  <2>3. \A j \in rev' : sock[cl[j].fd] # sock[cl[i].fd]
    BY <1>1, <2>2, SlotType, InputAssumption
       DEF ConnectionsAgree, TableMatchesSockets
  <2>4. \A j \in rev' : out'[sock[cl[j].fd]] = out[sock[cl[j].fd]]
    BY <1>1, <2>1, <2>2, <2>3 DEF Take, TypeOK
  <2> QED BY <1>1, <2>1, <2>2, <2>4 DEF NoBlockingRead, Readable
<1> QED BY <1>2, <1>3

(* poll() fixes the slots to service; accept only adds one above them.     *)
LEMMA ReadPoll ==
    ASSUME TypeOK, ConnectionsAgree, PollNoAccept \/ PollAccept \/ PollRefuse
    PROVE  NoBlockingRead'
<1>1. \A j \in Polled : /\ j \in Slots /\ cl[j].fd \in Fds
                        /\ sock[cl[j].fd] \in Peers
                        /\ Readable(sock[cl[j].fd])
  BY SlotType DEF Polled, Slots, ConnectionsAgree, TableMatchesSockets
<1>2. CASE PollNoAccept
  BY <1>1, <1>2 DEF PollNoAccept, NoBlockingRead, Readable, Slots, clientVars
<1>3. CASE PollAccept
  <2>1. PICK fd \in Fds, d \in Doms :
           /\ sock[fd] = NoPeer
           /\ sock' = [sock EXCEPT ![fd] = Head(backlog)]
           /\ cl' = Append(cl, NewClient(fd, d))
    BY <1>3 DEF PollAccept
  <2>2. \A j \in Slots : j \in Slots' /\ cl'[j] = cl[j]
    BY <2>1 DEF Slots, TypeOK
  <2>3. \A j \in Polled : sock'[cl[j].fd] = sock[cl[j].fd]
    BY <1>1, <2>1, InputAssumption DEF TypeOK
  <2> QED BY <1>1, <1>3, <2>2, <2>3
          DEF PollAccept, NoBlockingRead, Readable, clientVars
<1>4. CASE PollRefuse
  <2>1. Head(backlog) \in Peers /\ Head(backlog) = backlog[1] /\ 1 \in 1 .. Len(backlog)
    BY <1>4 DEF PollRefuse, TypeOK
  <2>2. \A j \in Polled : sock[cl[j].fd] # Head(backlog)
    BY <1>1, <2>1 DEF ConnectionsAgree, BacklogMatchesSockets
  <2>3. \A j \in Polled : /\ out'[sock[cl[j].fd]] = out[sock[cl[j].fd]]
                          /\ peer'[sock[cl[j].fd]] = peer[sock[cl[j].fd]]
    BY <1>1, <1>4, <2>1, <2>2 DEF PollRefuse, TypeOK
  <2>4. rev' = Polled /\ cl' = cl /\ sock' = sock
    BY <1>4 DEF PollRefuse
  <2> QED BY <1>1, <2>3, <2>4 DEF NoBlockingRead, Readable, Slots
<1> QED BY <1>2, <1>3, <1>4

-----------------------------------------------------------------------------
(* The domain pool.                                                        *)

(* What a slot holds is part of the pool, and never domain 0.              *)
LEMMA HoldsInPool ==
    ASSUME TypeOK, NEW j \in Slots
    PROVE  /\ Holds(cl[j]) \subseteq Pool
           /\ 0 \notin Pool
           /\ \A x : x \in Holds(cl[j]) <=>
                 x # 0 /\ (x = cl[j].domain \/ x \in cl[j].owned_dom)
<1>1. cl[j] \in ClientRec
  BY SlotType
<1>2. cl[j].domain \in Doms /\ cl[j].owned_dom \subseteq Pool
  BY <1>1 DEF ClientRec
<1> QED BY <1>2, LimitsAssumption DEF Holds, Doms, Pool

(* A step that changes no slot's domains and not the pool.                 *)
LEMMA DomFrame ==
    ASSUME DomainsExact, g_dom_inuse' = g_dom_inuse, Slots' = Slots,
           \A j \in Slots : /\ cl'[j].domain = cl[j].domain
                            /\ cl'[j].owned_dom = cl[j].owned_dom
    PROVE  DomainsExact'
<1>1. \A j \in Slots : Holds(cl'[j]) = Holds(cl[j])
  BY DEF Holds
<1> QED BY <1>1 DEF DomainsExact

(* DomainsExact, element by element.                                       *)
LEMMA DomElements ==
    DomainsExact <=>
      /\ \A x : x \in g_dom_inuse <=> \E j \in Slots : x \in Holds(cl[j])
      /\ \A j, k \in Slots : j # k =>
            \A x : ~(x \in Holds(cl[j]) /\ x \in Holds(cl[k]))
      /\ \A j \in Slots : cl[j].domain \notin cl[j].owned_dom
BY DEF DomainsExact

(* A drop returns exactly what the client held.                            *)
LEMMA DomDrop ==
    ASSUME TypeOK, ConnectionsAgree, DomainsExact, NEW i \in Slots, Drop(i)
    PROVE  DomainsExact'
<1> DEFINE n == Len(cl)
           old(j) == IF j = i THEN n ELSE j
<1>1. /\ Slots' = 1 .. (n - 1) /\ n \in Nat
      /\ \A j \in Slots' : cl'[j] = cl[old(j)]
  BY DropSlots
<1>2. \A j \in Slots' : old(j) \in Slots /\ old(j) # i
  BY <1>1 DEF Slots
<1>3. \A j, k \in Slots' : old(j) = old(k) => j = k
  BY <1>1
<1>4. \A k \in Slots : k # i => \E j \in Slots' : old(j) = k
  <2> SUFFICES ASSUME NEW k \in Slots, k # i PROVE \E j \in Slots' : old(j) = k
    OBVIOUS
  <2>1. CASE k = n
    BY <1>1, <2>1 DEF Slots
  <2>2. CASE k # n
    BY <1>1, <2>2 DEF Slots
  <2> QED BY <2>1, <2>2
<1> HIDE DEF n, old
<1>5. \A x : x \in g_dom_inuse' <=> x \in g_dom_inuse /\ x \notin Holds(cl[i])
  <2>1. g_dom_inuse' = g_dom_inuse \ ({cl[i].domain} \cup cl[i].owned_dom)
    BY DEF Drop, Released
  <2>2. 0 \notin g_dom_inuse
    BY HoldsInPool DEF TypeOK
  <2> QED BY <2>1, <2>2 DEF Holds
<1>6. \A x : x \in g_dom_inuse' <=> \E j \in Slots' : x \in Holds(cl'[j])
  <2> TAKE x
  <2>1. ASSUME x \in g_dom_inuse' PROVE \E j \in Slots' : x \in Holds(cl'[j])
    <3>1. PICK k \in Slots : x \in Holds(cl[k]) /\ k # i
      BY <1>5, <2>1, DomElements
    <3> QED BY <1>1, <1>4, <3>1
  <2>2. ASSUME NEW j \in Slots', x \in Holds(cl'[j]) PROVE x \in g_dom_inuse'
    <3>1. old(j) \in Slots /\ old(j) # i /\ x \in Holds(cl[old(j)])
      BY <1>1, <1>2, <2>2
    <3> QED BY <1>5, <3>1, DomElements
  <2> QED BY <2>1, <2>2
<1>7. \A j, k \in Slots' : j # k =>
         \A x : ~(x \in Holds(cl'[j]) /\ x \in Holds(cl'[k]))
  BY <1>1, <1>2, <1>3, DomElements
<1>8. \A j \in Slots' : cl'[j].domain \notin cl'[j].owned_dom
  BY <1>1, <1>2, DomElements
<1>9. g_dom_inuse' = UNION {Holds(cl'[j]) : j \in Slots'}
  BY <1>6
<1>10. \A j, k \in Slots' : j # k => Holds(cl'[j]) \cap Holds(cl'[k]) = {}
  BY <1>7
<1> QED BY <1>8, <1>9, <1>10 DEF DomainsExact

(* DOM_REQ hands out a domain that nobody holds.                           *)
LEMMA DomReq ==
    ASSUME TypeOK, DomainsExact, NEW i \in Slots,
           NEW p, NEW m, HandleDomReq(i, p, m)
    PROVE  DomainsExact'
<1>1. PICK d \in Doms :
        /\ dom_alloc_explicit(d)
        /\ cl' = [cl EXCEPT ![i].owned_dom = @ \cup ({d} \ {0})]
        /\ g_dom_inuse' = g_dom_inuse \cup ({d} \ {0})
  BY DEF HandleDomReq
<1>2. d # 0 => d \notin g_dom_inuse
  BY <1>1 DEF dom_alloc_explicit
<1> DEFINE E == cl[i].owned_dom \cup ({d} \ {0})
           c == [cl[i] EXCEPT !.owned_dom = E]
<1>3. cl' = [cl EXCEPT ![i] = c] /\ c.domain = cl[i].domain /\ c.owned_dom = E
  BY <1>1, SlotType DEF ClientRec
<1> HIDE DEF c
<1>4. /\ Slots' = Slots
      /\ \A j \in Slots : cl'[j] = IF j = i THEN c ELSE cl[j]
  BY <1>3 DEF TypeOK, Slots
<1>5. Holds(c) = Holds(cl[i]) \cup ({d} \ {0})
  BY <1>3 DEF Holds
<1>6. g_dom_inuse' = UNION {Holds(cl'[j]) : j \in Slots'}
  <2>1. \A x : x \in g_dom_inuse' <=> \E j \in Slots : x \in Holds(cl'[j])
    BY <1>1, <1>4, <1>5, DomElements
  <2> QED BY <1>4, <2>1
<1>7. \A j, k \in Slots' : j # k => Holds(cl'[j]) \cap Holds(cl'[k]) = {}
  <2>1. \A j \in Slots : \A x \in Holds(cl[j]) : x # 0 /\ x \in g_dom_inuse
    BY DomElements, HoldsInPool
  <2>2. \A j, k \in Slots : j # k =>
           \A x : ~(x \in Holds(cl'[j]) /\ x \in Holds(cl'[k]))
    BY <1>2, <1>4, <1>5, <2>1, DomElements
  <2> QED BY <1>4, <2>2
<1>8. \A j \in Slots' : cl'[j].domain \notin cl'[j].owned_dom
  <2>1. cl[i].domain # 0 => cl[i].domain \in g_dom_inuse
    BY DomElements, HoldsInPool
  <2>2. cl[i].domain \notin cl[i].owned_dom
    BY DEF DomainsExact
  <2>3. c.domain \notin c.owned_dom
    BY <1>2, <1>3, <2>1, <2>2
  <2> QED BY <1>4, <2>3 DEF DomainsExact
<1> QED BY <1>6, <1>7, <1>8 DEF DomainsExact

(* DOM_REL returns a domain only if the caller holds it.                   *)
LEMMA DomRel ==
    ASSUME TypeOK, DomainsExact, NEW i \in Slots,
           NEW p, NEW m, HandleDomRel(i, p, m)
    PROVE  DomainsExact'
<1> DEFINE E == cl[i].owned_dom \ {m.dom}
           c == [cl[i] EXCEPT !.owned_dom = E]
<1>1. /\ cl' = [cl EXCEPT ![i] = c]
      /\ c.domain = cl[i].domain /\ c.owned_dom = E
  BY SlotType DEF HandleDomRel, ClientRec
<1> HIDE DEF c
<1>2. /\ Slots' = Slots
      /\ \A j \in Slots : cl'[j] = IF j = i THEN c ELSE cl[j]
  BY <1>1 DEF TypeOK, Slots
<1>3. CASE m.dom \notin cl[i].owned_dom
  <2>1. g_dom_inuse' = g_dom_inuse
    BY <1>3 DEF HandleDomRel
  <2>2. E = cl[i].owned_dom
    BY <1>3
  <2> QED BY <1>1, <1>2, <2>1, <2>2, DomFrame
<1>4. CASE m.dom \in cl[i].owned_dom
  <2>1. g_dom_inuse' = g_dom_inuse \ {m.dom}
    BY <1>4 DEF HandleDomRel
  <2>2. m.dom # cl[i].domain /\ m.dom # 0
    BY <1>4, SlotType, HoldsInPool DEF DomainsExact, ClientRec
  <2>3. m.dom \in Holds(cl[i])
    BY <1>4, <2>2 DEF Holds
  <2>4. Holds(c) = Holds(cl[i]) \ {m.dom}
    BY <1>1, <2>2 DEF Holds
  <2>5. \A x : x \in g_dom_inuse' <=> \E j \in Slots : x \in Holds(cl'[j])
    BY <1>2, <2>1, <2>3, <2>4, DomElements
  <2>6. g_dom_inuse' = UNION {Holds(cl'[j]) : j \in Slots'}
    BY <1>2, <2>5
  <2>7. \A j, k \in Slots' : j # k => Holds(cl'[j]) \cap Holds(cl'[k]) = {}
    BY <1>2, <2>4 DEF DomainsExact
  <2>8. \A j \in Slots' : cl'[j].domain \notin cl'[j].owned_dom
    BY <1>1, <1>2 DEF DomainsExact
  <2> QED BY <2>6, <2>7, <2>8 DEF DomainsExact
<1> QED BY <1>3, <1>4

(* accept() gives the new client a domain nobody holds, or domain 0.       *)
LEMMA DomAccept ==
    ASSUME TypeOK, DomainsExact, PollAccept
    PROVE  DomainsExact'
<1>1. PICK fd \in Fds, d \in Doms :
         /\ dom_alloc(d)
         /\ cl' = Append(cl, NewClient(fd, d))
         /\ g_dom_inuse' = g_dom_inuse \cup ({d} \ {0})
  BY DEF PollAccept
<1>2. d # 0 => d \notin g_dom_inuse
  BY <1>1 DEF dom_alloc, dom_alloc_explicit
<1> DEFINE n == Len(cl) + 1
           c == NewClient(fd, d)
<1>3. Holds(c) = {d} \ {0} /\ c.domain \notin c.owned_dom
  BY DEF Holds, NewClient
<1> HIDE DEF c
<1>4. /\ Slots' = 1 .. n /\ Slots = 1 .. (n - 1) /\ n \in Nat
      /\ \A j \in Slots : cl'[j] = cl[j]
      /\ cl'[n] = c
  BY <1>1 DEF Slots, TypeOK, c
<1>5. \A j \in Slots' : j \in Slots \/ j = n
  BY <1>4
<1>6. n \in Slots' /\ \A j \in Slots : j \in Slots'
  BY <1>4
<1> HIDE DEF n
<1>7. \A j \in Slots : \A x \in Holds(cl[j]) : x # 0 /\ x \in g_dom_inuse
  BY DomElements, HoldsInPool
<1>8. \A x : x \in g_dom_inuse' <=> \E j \in Slots' : x \in Holds(cl'[j])
  BY <1>1, <1>3, <1>4, <1>5, <1>6, DomElements
<1>9. g_dom_inuse' = UNION {Holds(cl'[j]) : j \in Slots'}
  BY <1>8
<1>10. \A j, k \in Slots' : j # k => Holds(cl'[j]) \cap Holds(cl'[k]) = {}
  <2>1. \A j, k \in Slots' : j # k =>
           \A x : ~(x \in Holds(cl'[j]) /\ x \in Holds(cl'[k]))
    <3>1. \A j \in Slots : \A x : ~(x \in Holds(cl[j]) /\ x \in Holds(c))
      BY <1>2, <1>3, <1>7
    <3>2. \A j, k \in Slots : j # k =>
             \A x : ~(x \in Holds(cl[j]) /\ x \in Holds(cl[k]))
      BY DomElements
    <3> QED BY <1>4, <1>5, <3>1, <3>2, Zenon
  <2> QED BY <2>1
<1>11. \A j \in Slots' : cl'[j].domain \notin cl'[j].owned_dom
  BY <1>3, <1>4, <1>5 DEF DomainsExact
<1> QED BY <1>9, <1>10, <1>11 DEF DomainsExact

(* The other handlers touch no domain.                                     *)
LEMMA DomService ==
    ASSUME TypeOK, ConnectionsAgree, DomainsExact, NEW i \in Slots, Service(i)
    PROVE  DomainsExact'
<1> DEFINE p == sock[cl[i].fd]
           m == req[p]
<1> HIDE DEF p, m
<1>0. cl[i] \in ClientRec /\ cl \in Seq(ClientRec) /\ i \in 1 .. Len(cl)
  BY SlotType DEF TypeOK, Slots
<1>1. CASE DropEof(i) \/ HandleBye(i) \/ ChainToDeadPeer(i)
  BY <1>1, DomDrop DEF DropEof, HandleBye, ChainToDeadPeer
<1>2. CASE HandleHello(i, p, m)
  <2> DEFINE c == [cl[i] EXCEPT !.hello = TRUE]
  <2>1. /\ cl' = [cl EXCEPT ![i] = c]
        /\ c.domain = cl[i].domain /\ c.owned_dom = cl[i].owned_dom
    BY <1>0, <1>2 DEF HandleHello, ClientRec
  <2> HIDE DEF c
  <2> QED BY <1>0, <1>2, <2>1, DomFrame DEF HandleHello, Slots
<1>3. CASE HandlePack(i, p, m)
  <2> DEFINE W == cl[i].wt \cup {[id |-> cl[i].next_wid + 1,
                                   dom |-> PackDomain(cl[i], m)]}
             c == [cl[i] EXCEPT !.next_wid = cl[i].next_wid + 1, !.wt = W]
  <2>1. cl' = cl \/ cl' = [cl EXCEPT ![i] = c]
    BY <1>0, <1>3 DEF HandlePack
  <2>2. c.domain = cl[i].domain /\ c.owned_dom = cl[i].owned_dom
    BY <1>0 DEF ClientRec
  <2> HIDE DEF c
  <2> QED BY <1>0, <1>3, <2>1, <2>2, DomFrame DEF HandlePack, Slots
<1>4. CASE HandleFree(i, p, m)
  <2> DEFINE W == cl[i].wt \ {w \in cl[i].wt : w.id = m.wid}
             c == [cl[i] EXCEPT !.wt = W]
  <2>1. cl' = [cl EXCEPT ![i] = c]
    BY <1>4 DEF HandleFree
  <2>2. c.domain = cl[i].domain /\ c.owned_dom = cl[i].owned_dom
    BY <1>0 DEF ClientRec
  <2> HIDE DEF c
  <2> QED BY <1>0, <1>4, <2>1, <2>2, DomFrame DEF HandleFree, Slots
<1>5. CASE \/ HandleStateless(i, p, m) \/ HandleRun(i, p, m)
           \/ HandleChain(i, p, m)
  BY <1>5, DomFrame DEF HandleStateless, HandleRun, HandleChain, Slots
<1>6. CASE HandleDomReq(i, p, m)
  BY <1>6, DomReq
<1>7. CASE HandleDomRel(i, p, m)
  BY <1>7, DomRel
<1> QED BY <1>1, <1>2, <1>3, <1>4, <1>5, <1>6, <1>7 DEF Service, p, m

-----------------------------------------------------------------------------
(* The inductive invariant.  Typing a reply needs the table to name real   *)
(* peers, readability needs distinct descriptors to have distinct peers,   *)
(* so the three go together; the domain pool only needs types.             *)

IInv == TypeOK /\ ConnectionsAgree /\ NoBlockingRead /\ DomainsExact

(* The inductive invariant holds at the start.                             *)
LEMMA IInvInit == Init => IInv
<1> SUFFICES ASSUME Init PROVE IInv
  OBVIOUS
<1>1. NoBlockingRead
  BY DEF Init, NoBlockingRead
<1>2. Slots = {}
  BY DEF Init, Slots
<1>3. DomainsExact
  BY <1>2 DEF Init, DomainsExact
<1> QED BY <1>1, <1>3, TypeInit, ConnInit DEF IInv

(* One step per kind of step.                                              *)
LEMMA IInvNext == IInv /\ [Next]_vars => IInv'
<1> SUFFICES ASSUME IInv, [Next]_vars PROVE IInv'
  OBVIOUS
<1> USE DEF IInv
<1>1. ASSUME NEW p \in Peers, Client(p) PROVE IInv'
  <2>1. TypeOK' /\ ConnectionsAgree' /\ NoBlockingRead'
    BY <1>1, TypeClient, ConnClient, ReadClient
  <2>2. cl' = cl /\ g_dom_inuse' = g_dom_inuse
    BY <1>1 DEF Client, Connect, Send, SendRest, Receive, Disconnect, Die,
                SeeEof, Spawn, daemonVars, clientVars
  <2>3. DomainsExact'
    BY <2>2 DEF DomainsExact, Slots
  <2> QED BY <2>1, <2>3
<1>2. ASSUME NEW i \in 1 .. Len(cl), Service(i) PROVE IInv'
  <2>1. i \in Slots
    BY DEF Slots
  <2>2. sock[cl[i].fd] \in Peers
    BY <2>1 DEF ConnectionsAgree, TableMatchesSockets
  <2> QED BY <1>2, <2>1, <2>2, TypeService, ConnService, ReadService, DomService
<1>3. CASE PollNoAccept \/ PollAccept \/ PollRefuse
  <2>1. TypeOK' /\ NoBlockingRead'
    BY <1>3, TypeLoop, ReadPoll
  <2>2. ConnectionsAgree'
    BY <1>3, ConnLoop, ConnAccept, ConnRefuse
  <2>3. DomainsExact'
    <3>1. CASE PollNoAccept \/ PollRefuse
      BY <3>1 DEF PollNoAccept, PollRefuse, DomainsExact, Slots
    <3>2. CASE PollAccept
      BY <3>2, DomAccept
    <3> QED BY <1>3, <3>1, <3>2
  <2> QED BY <2>1, <2>2, <2>3
<1>4. CASE Dispatch
  <2>1. TypeOK' /\ ConnectionsAgree'
    BY <1>4, TypeDispatch, ConnLoop DEF ConnectionsAgree
  <2>2. NoBlockingRead' /\ DomainsExact'
    BY <1>4 DEF Dispatch, NoBlockingRead, DomainsExact, Slots
  <2> QED BY <2>1, <2>2
<1>5. CASE Reap \/ Stop \/ Teardown
  <2>1. TypeOK' /\ ConnectionsAgree'
    BY <1>5, TypeLoop, ConnLoop
  <2>2. NoBlockingRead'
    BY <1>5 DEF Reap, Stop, Teardown, NoBlockingRead
  <2>3. CASE Reap \/ Stop
    <3>1. DomainsExact'
      BY <2>3 DEF Reap, Stop, DomainsExact, Slots
    <3> QED BY <2>1, <2>2, <3>1
  <2>4. CASE Teardown
    <3>1. Slots' = {} /\ g_dom_inuse' = {}
      BY <2>4 DEF Teardown, Slots
    <3>2. DomainsExact'
      BY <3>1 DEF DomainsExact
    <3> QED BY <2>1, <2>2, <3>2
  <2> QED BY <1>5, <2>3, <2>4
<1>6. CASE UNCHANGED vars
  <2> USE <1>6 DEF vars, clientVars, daemonVars
  <2>1. TypeOK'
    BY DEF TypeOK
  <2>2. ConnectionsAgree'
    BY DEF ConnectionsAgree, TableMatchesSockets, BacklogMatchesSockets, Slots
  <2>3. NoBlockingRead'
    BY DEF NoBlockingRead, Readable, Slots
  <2>4. DomainsExact'
    BY DEF DomainsExact, Slots
  <2> QED BY <2>1, <2>2, <2>3, <2>4
<1> QED BY <1>1, <1>2, <1>3, <1>4, <1>5, <1>6 DEF Next, Daemon

(* The inductive invariant holds in every behaviour of the daemon and its  *)
(* clients: main()'s loop, its handlers and the client library.            *)
THEOREM Invariant == Spec => []IInv
BY IInvInit, IInvNext, PTL DEF Spec

(* The daemon's, the kernel's and the clients' state keeps its shape in    *)
(* every behaviour of main()'s loop.                                       *)
THEOREM TypeCorrect == Spec => []TypeOK
<1>1. IInv => TypeOK
  BY DEF IInv
<1> QED BY <1>1, Invariant, PTL

(* accept, compaction and close keep client table, descriptors and backlog *)
(* in agreement, for any number of clients.                                *)
THEOREM TableConsistent == Spec => []ConnectionsAgree
<1>1. IInv => ConnectionsAgree
  BY DEF IInv
<1> QED BY <1>1, Invariant, PTL

(* The service loop of main() never blocks in the read of a client that    *)
(* poll() did not report, for any number of clients.                       *)
THEOREM NeverBlocks == Spec => []NoBlockingRead
<1>1. IInv => NoBlockingRead
  BY DEF IInv
<1> QED BY <1>1, Invariant, PTL

(* The domain pool is exact and no two clients hold the same domain, for   *)
(* any number of clients and domains.                                      *)
THEOREM DomainsNeverLeak == Spec => []DomainsExact
<1>1. IInv => DomainsExact
  BY DEF IInv
<1> QED BY <1>1, Invariant, PTL

-----------------------------------------------------------------------------
(* Subscribers.                                                            *)

(* Subscribers are counted by descriptor, and there are as many of them as *)
(* there are descriptors at most.                                          *)
LEMMA SubscribersFinite ==
    ASSUME TypeOK
    PROVE  IsFiniteSet(Subscribers) /\ Cardinality(Subscribers) \in Nat
<1>1. Subscribers \in SUBSET (1 .. MAX_CLIENTS)
  BY SlotType DEF Subscribers, Fds
<1>2. IsFiniteSet(1 .. MAX_CLIENTS)
  BY FS_Interval, LimitsAssumption
<1> QED BY <1>1, <1>2, FS_Subset, FS_CardinalityType

(* The same slots with the same descriptors and the same hello flags.      *)
LEMMA RefsFrame ==
    ASSUME RefsExact, refs' = refs, Slots' = Slots,
           \A j \in Slots : cl'[j].fd = cl[j].fd /\ cl'[j].hello = cl[j].hello
    PROVE  RefsExact'
<1>1. Subscribers' = Subscribers
  BY DEF Subscribers
<1> QED BY <1>1 DEF RefsExact

(* A HELLO counts its sender once, however often it is sent.               *)
LEMMA RefsHello ==
    ASSUME TypeOK, ConnectionsAgree, RefsExact, NEW i \in Slots, NEW p, NEW m,
           HandleHello(i, p, m)
    PROVE  RefsExact'
<1> DEFINE c == [cl[i] EXCEPT !.hello = TRUE]
<1>0. cl[i] \in ClientRec /\ cl \in Seq(ClientRec)
  BY SlotType DEF TypeOK
<1>1. cl' = [cl EXCEPT ![i] = c] /\ c.fd = cl[i].fd /\ c.hello
  BY <1>0 DEF HandleHello, ClientRec
<1> HIDE DEF c
<1>2. Slots' = Slots /\ \A j \in Slots : cl'[j] = IF j = i THEN c ELSE cl[j]
  BY <1>0, <1>1 DEF Slots
<1>3. Subscribers' = Subscribers \cup {cl[i].fd}
  BY <1>1, <1>2 DEF Subscribers
<1>4. CASE cl[i].hello
  <2>1. Subscribers' = Subscribers
    BY <1>3, <1>4 DEF Subscribers
  <2> QED BY <1>4, <2>1 DEF HandleHello, RefsExact
<1>5. CASE ~cl[i].hello
  <2>1. cl[i].fd \notin Subscribers
    BY <1>5 DEF Subscribers, ConnectionsAgree, TableMatchesSockets
  <2>2. Cardinality(Subscribers') = Cardinality(Subscribers) + 1
    BY <1>3, <2>1, SubscribersFinite, FS_AddElement
  <2> QED BY <1>5, <2>2 DEF HandleHello, RefsExact
<1> QED BY <1>4, <1>5

(* A drop takes its subscription back, if there was one.                   *)
LEMMA RefsDrop ==
    ASSUME TypeOK, ConnectionsAgree, RefsExact, NEW i \in Slots, Drop(i)
    PROVE  RefsExact'
<1> DEFINE n == Len(cl)
           f == cl[i].fd
<1>1. /\ Slots' = 1 .. (n - 1) /\ n \in Nat
      /\ \A j \in Slots' : cl'[j] = IF j = i THEN cl[n] ELSE cl[j]
      /\ \A j \in Slots : j # i => cl[j].fd # f
  BY DropSlots
<1>2. Subscribers' = Subscribers \ {f}
  <2>1. ASSUME NEW j \in Slots', cl'[j].hello
        PROVE  \E k \in Slots : k # i /\ cl[k].hello /\ cl[k].fd = cl'[j].fd
    BY <1>1, <2>1 DEF Slots
  <2>2. ASSUME NEW k \in Slots, k # i, cl[k].hello
        PROVE  \E j \in Slots' : cl'[j].hello /\ cl'[j].fd = cl[k].fd
    <3>1. CASE k = n
      BY <1>1, <2>2, <3>1 DEF Slots
    <3>2. CASE k # n
      BY <1>1, <2>2, <3>2 DEF Slots
    <3> QED BY <3>1, <3>2
  <2>3. \A x : x \in Subscribers' <=> \E j \in Slots' : cl'[j].hello /\ x = cl'[j].fd
    BY DEF Subscribers
  <2>4. \A x : x \in Subscribers <=> \E j \in Slots : cl[j].hello /\ x = cl[j].fd
    BY DEF Subscribers
  <2>5. ASSUME NEW x \in Subscribers' PROVE x \in Subscribers /\ x # f
    <3>1. PICK j \in Slots' : cl'[j].hello /\ x = cl'[j].fd
      BY <2>3, <2>5
    <3> QED BY <1>1, <2>1, <2>4, <3>1
  <2>6. ASSUME NEW x \in Subscribers, x # f PROVE x \in Subscribers'
    <3>1. PICK k \in Slots : cl[k].hello /\ x = cl[k].fd
      BY <2>4, <2>6
    <3> QED BY <2>2, <2>3, <2>6, <3>1
  <2> QED BY <2>5, <2>6
<1>3. f \in Subscribers <=> cl[i].hello
  <2>1. f \in Subscribers <=> \E j \in Slots : cl[j].hello /\ cl[j].fd = f
    BY DEF Subscribers
  <2> QED BY <1>1, <2>1
<1>4. CASE cl[i].hello
  <2>1. Cardinality(Subscribers') = Cardinality(Subscribers) - 1
    BY <1>2, <1>3, <1>4, SubscribersFinite, FS_RemoveElement
  <2>2. Cardinality(Subscribers) # 0
    BY <1>3, <1>4, SubscribersFinite, FS_EmptySet
  <2> QED BY <1>4, <2>1, <2>2 DEF Drop, Unsubscribe, RefsExact
<1>5. CASE ~cl[i].hello
  <2>1. Subscribers' = Subscribers
    BY <1>2, <1>3, <1>5
  <2> QED BY <1>5, <2>1 DEF Drop, Unsubscribe, RefsExact
<1> QED BY <1>4, <1>5

(* A new connection has not said HELLO.                                    *)
LEMMA RefsAccept ==
    ASSUME TypeOK, RefsExact, PollAccept
    PROVE  RefsExact'
<1>1. PICK fd \in Fds, d \in Doms : cl' = Append(cl, NewClient(fd, d))
  BY DEF PollAccept
<1>2. ~NewClient(fd, d).hello
  BY DEF NewClient
<1>3. /\ Slots' = Slots \cup {Len(cl) + 1}
      /\ \A j \in Slots : cl'[j] = cl[j]
      /\ ~cl'[Len(cl) + 1].hello
  BY <1>1, <1>2 DEF Slots, TypeOK
<1>4. Subscribers' = Subscribers
  BY <1>3 DEF Subscribers
<1> QED BY <1>4 DEF PollAccept, RefsExact

(* No other handler touches the count or a hello flag.                     *)
LEMMA RefsService ==
    ASSUME TypeOK, ConnectionsAgree, RefsExact, NEW i \in Slots, Service(i)
    PROVE  RefsExact'
<1> DEFINE p == sock[cl[i].fd]
           m == req[p]
<1> HIDE DEF p, m
<1>0. cl[i] \in ClientRec /\ cl \in Seq(ClientRec) /\ i \in 1 .. Len(cl)
  BY SlotType DEF TypeOK, Slots
<1>1. CASE DropEof(i) \/ HandleBye(i) \/ ChainToDeadPeer(i)
  BY <1>1, RefsDrop DEF DropEof, HandleBye, ChainToDeadPeer
<1>2. CASE HandleHello(i, p, m)
  BY <1>2, RefsHello
<1>3. ASSUME NEW c, cl' = [cl EXCEPT ![i] = c], c.fd = cl[i].fd, c.hello = cl[i].hello,
             refs' = refs
      PROVE  RefsExact'
  <2>1. Slots' = Slots /\ \A j \in Slots : cl'[j] = IF j = i THEN c ELSE cl[j]
    BY <1>0, <1>3 DEF Slots
  <2> QED BY <1>3, <2>1, RefsFrame
<1>4. CASE HandlePack(i, p, m)
  <2> DEFINE W == cl[i].wt \cup {[id |-> cl[i].next_wid + 1,
                                   dom |-> PackDomain(cl[i], m)]}
             c == [cl[i] EXCEPT !.next_wid = cl[i].next_wid + 1, !.wt = W]
  <2>1. cl' = cl \/ cl' = [cl EXCEPT ![i] = c]
    BY <1>0, <1>4 DEF HandlePack
  <2>2. c.fd = cl[i].fd /\ c.hello = cl[i].hello /\ refs' = refs
    BY <1>0, <1>4 DEF ClientRec, HandlePack
  <2> HIDE DEF c
  <2>3. CASE cl' = cl
    BY <2>2, <2>3, RefsFrame DEF Slots
  <2> QED BY <1>3, <2>1, <2>2, <2>3
<1>5. CASE HandleFree(i, p, m)
  <2> DEFINE W == cl[i].wt \ {w \in cl[i].wt : w.id = m.wid}
             c == [cl[i] EXCEPT !.wt = W]
  <2>1. cl' = [cl EXCEPT ![i] = c] /\ refs' = refs
    BY <1>5 DEF HandleFree
  <2>2. c.fd = cl[i].fd /\ c.hello = cl[i].hello
    BY <1>0 DEF ClientRec
  <2> HIDE DEF c
  <2> QED BY <1>3, <2>1, <2>2
<1>6. CASE HandleStateless(i, p, m) \/ HandleRun(i, p, m) \/ HandleChain(i, p, m)
  BY <1>6, RefsFrame DEF HandleStateless, HandleRun, HandleChain, Slots
<1>7. CASE HandleDomReq(i, p, m)
  <2>1. PICK d \in Doms : cl' = [cl EXCEPT ![i].owned_dom = @ \cup ({d} \ {0})]
    BY <1>7 DEF HandleDomReq
  <2> DEFINE c == [cl[i] EXCEPT !.owned_dom = cl[i].owned_dom \cup ({d} \ {0})]
  <2>2. cl' = [cl EXCEPT ![i] = c] /\ c.fd = cl[i].fd /\ c.hello = cl[i].hello
    BY <1>0, <2>1 DEF ClientRec
  <2>3. refs' = refs
    BY <1>7 DEF HandleDomReq
  <2> HIDE DEF c
  <2> QED BY <1>3, <2>2, <2>3
<1>8. CASE HandleDomRel(i, p, m)
  <2> DEFINE c == [cl[i] EXCEPT !.owned_dom = cl[i].owned_dom \ {m.dom}]
  <2>1. cl' = [cl EXCEPT ![i] = c] /\ c.fd = cl[i].fd /\ c.hello = cl[i].hello
    BY <1>0, <1>8 DEF ClientRec, HandleDomRel
  <2>2. refs' = refs
    BY <1>8 DEF HandleDomRel
  <2> HIDE DEF c
  <2> QED BY <1>3, <2>1, <2>2
<1> QED BY <1>1, <1>2, <1>4, <1>5, <1>6, <1>7, <1>8 DEF Service, p, m

(* The count starts at no one.                                             *)
LEMMA RefsInit == Init => RefsExact
<1> SUFFICES ASSUME Init PROVE RefsExact
  OBVIOUS
<1>1. Subscribers = {}
  BY DEF Init, Subscribers, Slots
<1> QED BY <1>1, FS_EmptySet DEF Init, RefsExact

(* One step per kind of step.                                              *)
LEMMA RefsNext == IInv /\ RefsExact /\ [Next]_vars => RefsExact'
<1> SUFFICES ASSUME IInv, RefsExact, [Next]_vars PROVE RefsExact'
  OBVIOUS
<1> USE DEF IInv
<1>1. ASSUME NEW p \in Peers, Client(p) PROVE RefsExact'
  <2>1. cl' = cl /\ refs' = refs
    BY <1>1 DEF Client, Connect, Send, SendRest, Receive, Disconnect, Die,
                SeeEof, Spawn, daemonVars, clientVars
  <2> QED BY <2>1 DEF RefsExact, Subscribers, Slots
<1>2. ASSUME NEW i \in 1 .. Len(cl), Service(i) PROVE RefsExact'
  BY <1>2, RefsService DEF Slots
<1>3. CASE PollNoAccept \/ PollRefuse \/ Dispatch \/ Reap \/ Stop \/ UNCHANGED vars
  BY <1>3 DEF PollNoAccept, PollRefuse, Dispatch, Reap, Stop, vars, daemonVars,
              RefsExact, Subscribers, Slots
<1>4. CASE PollAccept
  BY <1>4, RefsAccept
<1>5. CASE Teardown
  <2>1. Subscribers' = {} /\ refs' = 0
    BY <1>5 DEF Teardown, Subscribers, Slots
  <2> QED BY <2>1, FS_EmptySet DEF RefsExact
<1> QED BY <1>1, <1>2, <1>3, <1>4, <1>5 DEF Next, Daemon

(* The count the idle reap reads (g_refs in orkd.c) is the number of       *)
(* connected clients that said HELLO, however they come and go.            *)
THEOREM RefsAreExact == Spec => []RefsExact
BY RefsInit, RefsNext, Invariant, PTL DEF Spec

-----------------------------------------------------------------------------
(* Calls.  A call a client is blocked in is in one place: in its socket,   *)
(* in the queue, or answered.  To stay so the invariant also says what the *)
(* clients that are not connected, not yet accepted or refused have.       *)

Owes(p) == \E w \in g_q : sock[w.fd] = p

(* One client: nothing of its last connection is left, a greeting is a     *)
(* HELLO, an unread reply is the answer to its request, and the request is *)
(* in exactly one place.                                                   *)
PeerCalls(p) ==
    /\ peer[p] = "off" => rx[p] = <<>>
    /\ peer[p] = "greet" => req[p] = Hello
    /\ rx[p] # <<>> /\ peer[p] # "hup" => Len(rx[p]) = 1 /\ rx[p][1].op = req[p].op
    /\ Connected(p) /\ peer[p] # "hup" =>
         /\ req[p] = NoReq <=> out[p] = "none" /\ rx[p] = <<>> /\ ~Owes(p)
         /\ rx[p] # <<>> => out[p] = "none" /\ ~Owes(p)

(* No one in the backlog has been answered.                                *)
Untouched == \A k \in 1 .. Len(backlog) : rx[backlog[k]] = <<>>

CallInv == WorkIsOwed /\ (\A p \in Peers : PeerCalls(p)) /\ Untouched

(* One queued item.                                                        *)
ItemOwed(w) ==
    /\ \E j \in Slots : cl[j].fd = w.fd
    /\ LET m == req[sock[w.fd]] IN
         m.op = "RUN" /\ m.wid = w.weight_id /\ m.rows = w.M
    /\ out[sock[w.fd]] = "none"
    /\ Resolved(w)

(* WorkIsOwed, item by item.                                               *)
LEMMA WorkItems ==
    WorkIsOwed <=> /\ \A w \in g_q : ItemOwed(w)
                   /\ \A v, w \in g_q : v.fd = w.fd => v = w
BY DEF WorkIsOwed, ItemOwed

(* The owner of a queued item is a connected peer.                         *)
LEMMA ItemOwner ==
    ASSUME TypeOK, ConnectionsAgree, WorkIsOwed, NEW w \in g_q
    PROVE  w.fd \in Fds /\ sock[w.fd] \in Peers /\ Connected(sock[w.fd])
<1>1. PICK j \in Slots : cl[j].fd = w.fd
  BY DEF WorkIsOwed
<1>2. w.fd \in Fds
  BY <1>1, SlotType
<1>3. sock[w.fd] \in Peers
  BY <1>1 DEF ConnectionsAgree, TableMatchesSockets
<1> QED BY <1>2, <1>3 DEF Connected

(* An item stays owed while its owner's connection, request and weights    *)
(* are left alone; its rank and its progress do not matter.                *)
LEMMA ItemKept ==
    ASSUME NEW w, ItemOwed(w), NEW v,
           v.fd = w.fd, v.weight_id = w.weight_id, v.M = w.M,
           sock'[w.fd] = sock[w.fd],
           req'[sock[w.fd]] = req[sock[w.fd]], out'[sock[w.fd]] = out[sock[w.fd]],
           \A j \in Slots : cl[j].fd = w.fd =>
              \E k \in Slots' : cl'[k].fd = cl[j].fd /\ cl[j].wt \subseteq cl'[k].wt
    PROVE  ItemOwed(v)'
<1>1. PICK j \in Slots : cl[j].fd = w.fd /\ \E x \in cl[j].wt : x.id = w.weight_id
  BY DEF ItemOwed, Resolved, Slots
<1>2. PICK k \in Slots' : cl'[k].fd = cl[j].fd /\ cl[j].wt \subseteq cl'[k].wt
  BY <1>1
<1>3. Resolved(v)'
  BY <1>1, <1>2 DEF Resolved, Slots
<1>4. \E l \in Slots' : cl'[l].fd = v.fd
  BY <1>1, <1>2
<1> QED BY <1>3, <1>4 DEF ItemOwed

(* A client nothing happens to.                                            *)
LEMMA PeerKept ==
    ASSUME NEW p, PeerCalls(p),
           peer'[p] = peer[p], req'[p] = req[p], out'[p] = out[p], rx'[p] = rx[p],
           Connected(p)' <=> Connected(p), Owes(p)' <=> Owes(p)
    PROVE  PeerCalls(p)'
BY DEF PeerCalls

(* Reading the only reply leaves none.                                     *)
LEMMA TailOfOne ==
    ASSUME NEW S, NEW s \in Seq(S), Len(s) = 1
    PROVE  Tail(s) = <<>>
<1>1. Tail(s) \in Seq(S) /\ Len(Tail(s)) = 0
  OBVIOUS
<1> QED BY <1>1, EmptySeq

(* No client asks for "nothing".                                           *)
LEMMA RealRequests ==
    ASSUME NEW m \in Requests
    PROVE  m # NoReq /\ m.op \in Ops /\ m.op # "none"
<1>1. m.op \in Ops
  BY DEF Requests, Msg
<1> QED BY <1>1, InputAssumption DEF RequestKinds, NoReq, Msg

-----------------------------------------------------------------------------
(* At the start no one has called.                                         *)
LEMMA CallsInit == Init => CallInv
<1> SUFFICES ASSUME Init PROVE CallInv
  OBVIOUS
<1>1. WorkIsOwed /\ Untouched
  BY DEF Init, WorkIsOwed, Untouched
<1>2. ASSUME NEW p \in Peers PROVE PeerCalls(p)
  <2>1. ~Connected(p)
    BY InputAssumption DEF Init, Connected
  <2> QED BY <2>1 DEF Init, PeerCalls
<1> QED BY <1>1, <1>2 DEF CallInv

(* What the steps of a client leave to the daemon and to other clients.    *)
LEMMA ClientFrame ==
    ASSUME TypeOK, NEW p \in Peers, Client(p)
    PROVE  /\ sock' = sock /\ cl' = cl /\ g_q' = g_q
           /\ \A q \in Peers \ {p} : /\ peer'[q] = peer[q] /\ req'[q] = req[q]
                                     /\ out'[q] = out[q] /\ rx'[q] = rx[q]
<1> USE DEF TypeOK, daemonVars, clientVars
<1>1. CASE Connect(p)
  BY <1>1 DEF Connect
<1>2. CASE SendRest(p) \/ Disconnect(p) \/ Die(p) \/ SeeEof(p) \/ Spawn(p)
  BY <1>2 DEF SendRest, Disconnect, Die, SeeEof, Spawn
<1>3. CASE Receive(p)
  BY <1>3 DEF Receive
<1>4. ASSUME NEW m \in Requests, Send(p, m)
      PROVE  /\ sock' = sock /\ cl' = cl /\ g_q' = g_q
             /\ \A q \in Peers \ {p} : /\ peer'[q] = peer[q] /\ req'[q] = req[q]
                                       /\ out'[q] = out[q] /\ rx'[q] = rx[q]
  BY <1>4 DEF Send
<1> QED BY <1>1, <1>2, <1>3, <1>4 DEF Client

(* The client's own side of a step of it: its request moves on by one      *)
(* place, and none of its work is queued when it does.                     *)
LEMMA OwnCalls ==
    ASSUME TypeOK, ConnectionsAgree, CallInv, NEW p \in Peers, Client(p)
    PROVE  /\ PeerCalls(p)'
           /\ Owes(p) => req'[p] = req[p] /\ out'[p] = out[p]
           /\ rx[p] = <<>> => rx'[p] = <<>>
           /\ \/ backlog' = backlog
              \/ backlog' = Append(backlog, p) /\ rx'[p] = <<>>
<1> USE DEF TypeOK, daemonVars, clientVars
<1>0. /\ PeerCalls(p) /\ sock' = sock /\ g_q' = g_q /\ (Owes(p)' <=> Owes(p))
  BY ClientFrame DEF CallInv, Owes
<1>1. Owes(p) => Connected(p) /\ out[p] = "none" /\ req[p] # NoReq
  BY ItemOwner DEF Owes, CallInv, WorkIsOwed, NoReq, Msg
<1>2. backlog' = backlog => (Connected(p)' <=> Connected(p))
  BY <1>0 DEF Connected
<1>3. CASE Connect(p)
  <2>1. ~Connected(p) /\ peer[p] = "off"
    BY <1>3, InputAssumption
       DEF Connect, Connected, ConnectionsAgree, TableMatchesSockets, BacklogMatchesSockets
  <2>2. peer'[p] = "greet" /\ req'[p] = Hello /\ out'[p] = "hdr" /\ rx'[p] = <<>>
    BY <1>0, <1>3, <2>1 DEF Connect, PeerCalls
  <2>3. Hello # NoReq
    BY DEF Hello, NoReq, Msg
  <2> QED BY <1>0, <1>1, <1>3, <2>1, <2>2, <2>3 DEF Connect, PeerCalls
<1>4. ASSUME NEW m \in Requests, Send(p, m)
      PROVE  /\ PeerCalls(p)' /\ ~Owes(p) /\ rx'[p] = <<>> /\ backlog' = backlog
  <2>1. /\ Connected(p) /\ peer[p] = "live" /\ req[p] = NoReq /\ ~Owes(p) /\ rx[p] = <<>>
    BY <1>0, <1>4 DEF Send, PeerCalls
  <2>2. /\ backlog' = backlog /\ peer' = peer /\ rx' = rx
        /\ req'[p] = m /\ out'[p] \in {"hdr", "full"}
    BY <1>4 DEF Send
  <2> QED BY <1>0, <1>2, <2>1, <2>2, RealRequests DEF PeerCalls
<1>5. CASE SendRest(p)
  <2>1. /\ backlog' = backlog /\ peer' = peer /\ rx' = rx /\ req' = req
        /\ out[p] = "hdr" /\ out'[p] = "full"
    BY <1>5 DEF SendRest
  <2> QED BY <1>0, <1>1, <1>2, <2>1 DEF PeerCalls
<1>6. CASE Receive(p)
  <2>1. /\ peer[p] \in {"greet", "live"} /\ rx[p] # <<>> /\ Len(rx[p]) = 1
    BY <1>0, <1>6 DEF Receive, PeerCalls
  <2>2. /\ rx'[p] = <<>> /\ req'[p] = NoReq /\ backlog' = backlog
        /\ peer'[p] \in {"live", "hup", "off"}
        /\ Connected(p) => out'[p] = out[p] /\ peer'[p] # "off"
    <3>1. rx'[p] = Tail(rx[p]) /\ rx[p] \in Seq(ReplyRec)
      BY <1>6 DEF Receive
    <3>2. rx'[p] = <<>>
      BY <2>1, <3>1, TailOfOne
    <3> QED BY <1>6, <3>2 DEF Receive
  <2>3. Connected(p) => out[p] = "none" /\ ~Owes(p)
    BY <1>0, <2>1 DEF PeerCalls
  <2>4. PeerCalls(p)'
    BY <1>0, <1>1, <1>2, <2>1, <2>2, <2>3 DEF PeerCalls
  <2> QED BY <1>1, <2>2, <2>3, <2>4
<1>7. CASE Disconnect(p)
  <2>1. ~Owes(p)
    BY <1>0, <1>7 DEF Disconnect, PeerCalls
  <2>2. peer'[p] = "hup" /\ rx' = rx /\ backlog' = backlog
    BY <1>7 DEF Disconnect
  <2> QED BY <2>1, <2>2 DEF PeerCalls
<1>8. CASE Die(p)
  <2>2. peer'[p] = "hup" /\ rx' = rx /\ backlog' = backlog /\ req' = req /\ out' = out
    BY <1>8 DEF Die
  <2> QED BY <2>2 DEF PeerCalls
<1>9. CASE SeeEof(p)
  <2>1. /\ ~Connected(p) /\ rx' = rx /\ rx[p] = <<>> /\ backlog' = backlog
        /\ peer'[p] = "off"
    BY <1>9 DEF SeeEof
  <2> QED BY <1>1, <1>2, <2>1 DEF PeerCalls
<1>10. CASE Spawn(p)
  <2>1. /\ rx' = rx /\ backlog' = backlog /\ req' = req /\ out' = out /\ peer' = peer
    BY <1>10 DEF Spawn
  <2> QED BY <1>0, <1>2, <2>1 DEF PeerCalls
<1>11. \/ Connect(p) \/ SendRest(p) \/ Receive(p) \/ Disconnect(p) \/ Die(p)
       \/ SeeEof(p) \/ Spawn(p) \/ \E m \in Requests : Send(p, m)
  BY DEF Client
<1> QED BY <1>3, <1>4, <1>5, <1>6, <1>7, <1>8, <1>9, <1>10, <1>11

(* A step of one client moves its own call only.                           *)
LEMMA CallsClient ==
    ASSUME TypeOK, ConnectionsAgree, CallInv, NEW p \in Peers, Client(p)
    PROVE  CallInv'
<1>0. /\ sock' = sock /\ cl' = cl /\ g_q' = g_q
      /\ \A q \in Peers \ {p} : /\ peer'[q] = peer[q] /\ req'[q] = req[q]
                                /\ out'[q] = out[q] /\ rx'[q] = rx[q]
  BY ClientFrame
<1>1. /\ PeerCalls(p)'
      /\ Owes(p) => req'[p] = req[p] /\ out'[p] = out[p]
      /\ rx[p] = <<>> => rx'[p] = <<>>
      /\ \/ backlog' = backlog
         \/ backlog' = Append(backlog, p) /\ rx'[p] = <<>>
  BY OwnCalls
<1>2. backlog \in Seq(Peers)
  BY DEF TypeOK
<1>3. WorkIsOwed'
  <2>1. ASSUME NEW w \in g_q PROVE ItemOwed(w)'
    <3>1. ItemOwed(w) /\ sock[w.fd] \in Peers
      BY WorkItems, ItemOwner DEF CallInv
    <3>2. req'[sock[w.fd]] = req[sock[w.fd]] /\ out'[sock[w.fd]] = out[sock[w.fd]]
      BY <1>0, <1>1, <3>1 DEF Owes
    <3>3. Slots' = Slots
      BY <1>0 DEF Slots
    <3> QED BY <1>0, <3>1, <3>2, <3>3, ItemKept
  <2>2. \A v, w \in g_q : v.fd = w.fd => v = w
    BY DEF CallInv, WorkIsOwed
  <2>3. (\A w \in g_q' : ItemOwed(w)') /\ \A v, w \in g_q' : v.fd = w.fd => v = w
    BY <1>0, <2>1, <2>2
  <2> QED BY <2>3 DEF WorkIsOwed, ItemOwed
<1>4. ASSUME NEW q \in Peers \ {p} PROVE PeerCalls(q)'
  <2>1. Connected(q)' <=> Connected(q)
    <3>1. (\E k \in 1 .. Len(backlog') : backlog'[k] = q)
             <=> (\E k \in 1 .. Len(backlog) : backlog[k] = q)
      <4>1. CASE backlog' = backlog
        BY <4>1
      <4>2. CASE backlog' = Append(backlog, p)
        BY <1>2, <4>2
      <4> QED BY <1>1, <4>1, <4>2
    <3> QED BY <1>0, <3>1 DEF Connected
  <2>2. Owes(q)' <=> Owes(q)
    BY <1>0 DEF Owes
  <2> QED BY <1>0, <2>1, <2>2, PeerKept DEF CallInv
<1>5. Untouched'
  <2>1. \A k \in 1 .. Len(backlog) : backlog[k] \in Peers /\ rx'[backlog[k]] = <<>>
    BY <1>0, <1>1, <1>2 DEF CallInv, Untouched
  <2>2. CASE backlog' = backlog
    BY <2>1, <2>2 DEF Untouched
  <2>3. CASE backlog' = Append(backlog, p) /\ rx'[p] = <<>>
    BY <1>2, <2>1, <2>3 DEF Untouched
  <2> QED BY <1>1, <2>2, <2>3
<1> QED BY <1>1, <1>3, <1>4, <1>5 DEF CallInv

-----------------------------------------------------------------------------
(* A step of the daemon that reads nothing, answers nothing and frees      *)
(* nothing.                                                                *)
LEMMA CallsFrame ==
    ASSUME CallInv, UNCHANGED <<sock, backlog, peer, req, out, rx, cl, g_q>>
    PROVE  CallInv'
<1>1. WorkIsOwed' /\ Untouched'
  BY DEF CallInv, WorkIsOwed, Untouched, Resolved, Slots
<1>2. ASSUME NEW p \in Peers PROVE PeerCalls(p)'
  BY PeerKept DEF CallInv, Connected, Owes
<1> QED BY <1>1, <1>2 DEF CallInv

(* accept(): the connection moves from the backlog to a descriptor of its  *)
(* own, and to no queued item.                                             *)
LEMMA CallsAccept ==
    ASSUME TypeOK, ConnectionsAgree, CallInv, PollAccept
    PROVE  CallInv'
<1>1. PICK fd \in Fds, d \in Doms :
         /\ sock[fd] = NoPeer
         /\ sock' = [sock EXCEPT ![fd] = Head(backlog)]
         /\ cl' = Append(cl, NewClient(fd, d))
  BY DEF PollAccept
<1> DEFINE p == Head(backlog)
<1>2. /\ p \in Peers /\ p = backlog[1] /\ Len(backlog) \in Nat /\ Len(backlog) > 0
      /\ Len(backlog') = Len(backlog) - 1
      /\ \A k \in 1 .. Len(backlog') : backlog'[k] = backlog[k + 1]
  BY DEF PollAccept, TypeOK
<1>3. \A f \in Fds : sock'[f] = IF f = fd THEN p ELSE sock[f]
  BY <1>1 DEF TypeOK
<1>4. \A j \in Slots : j \in Slots' /\ cl'[j] = cl[j]
  BY <1>1 DEF Slots, TypeOK
<1>5. UNCHANGED <<peer, req, out, rx, g_q>>
  BY DEF PollAccept, clientVars
<1>6. \A w \in g_q : /\ w.fd \in Fds /\ w.fd # fd /\ sock[w.fd] \in Peers
                     /\ sock'[w.fd] = sock[w.fd]
  BY <1>1, <1>3, ItemOwner, InputAssumption DEF CallInv
<1> HIDE DEF p
<1>7. WorkIsOwed'
  <2>1. ASSUME NEW w \in g_q PROVE ItemOwed(w)'
    <3>1. ItemOwed(w)
      BY WorkItems DEF CallInv
    <3> QED BY <1>4, <1>5, <1>6, <3>1, ItemKept
  <2>2. (\A w \in g_q' : ItemOwed(w)') /\ \A v, w \in g_q' : v.fd = w.fd => v = w
    BY <1>5, <2>1 DEF CallInv, WorkIsOwed
  <2> QED BY <2>2 DEF WorkIsOwed, ItemOwed
<1>8. ASSUME NEW q \in Peers PROVE PeerCalls(q)'
  <2>1. Owes(q)' <=> Owes(q)
    BY <1>5, <1>6 DEF Owes
  <2>2. Connected(q)' <=> Connected(q)
    <3>1. CASE q = p
      <4>1. Connected(q) /\ Connected(q)'
        BY <1>2, <1>3, <3>1 DEF Connected
      <4> QED BY <4>1
    <3>2. CASE q # p
      <4>1. (\E k \in 1 .. Len(backlog') : backlog'[k] = q)
               <=> (\E k \in 1 .. Len(backlog) : backlog[k] = q)
        <5>1. ASSUME NEW k \in 1 .. Len(backlog), backlog[k] = q
              PROVE  \E l \in 1 .. Len(backlog') : backlog'[l] = q
          <6>1. k # 1 /\ k - 1 \in 1 .. Len(backlog') /\ backlog'[k - 1] = backlog[k]
            BY <1>2, <3>2, <5>1
          <6> QED BY <5>1, <6>1
        <5>2. ASSUME NEW k \in 1 .. Len(backlog'), backlog'[k] = q
              PROVE  \E l \in 1 .. Len(backlog) : backlog[l] = q
          <6>1. k + 1 \in 1 .. Len(backlog) /\ backlog[k + 1] = q
            BY <1>2, <5>2
          <6> QED BY <6>1
        <5> QED BY <5>1, <5>2
      <4>2. (\E f \in Fds : sock'[f] = q) <=> (\E f \in Fds : sock[f] = q)
        BY <1>1, <1>3, <3>2, InputAssumption
      <4> QED BY <4>1, <4>2 DEF Connected
    <3> QED BY <3>1, <3>2
  <2> QED BY <1>5, <2>1, <2>2, PeerKept DEF CallInv
<1>9. Untouched'
  <2>1. \A k \in 1 .. Len(backlog') : k + 1 \in 1 .. Len(backlog)
    BY <1>2
  <2> QED BY <1>2, <1>5, <2>1 DEF CallInv, Untouched
<1> QED BY <1>7, <1>8, <1>9 DEF CallInv

(* A refused client gets the only reply of its connection, or was gone.    *)
LEMMA CallsRefuse ==
    ASSUME TypeOK, ConnectionsAgree, CallInv, PollRefuse
    PROVE  CallInv'
<1>0. PICK p \in Peers : p = Head(backlog)
  BY DEF PollRefuse, TypeOK
<1>1. /\ p \in Peers /\ p = backlog[1] /\ Len(backlog) \in Nat /\ Len(backlog) > 0
      /\ Len(backlog') = Len(backlog) - 1
      /\ \A k \in 1 .. Len(backlog') : backlog'[k] = backlog[k + 1]
  BY <1>0 DEF PollRefuse, TypeOK
<1>2. UNCHANGED <<sock, cl, g_q>>
  BY DEF PollRefuse
<1>3. \A f \in Fds : sock[f] # p
  BY <1>1 DEF ConnectionsAgree, BacklogMatchesSockets
<1>4. rx[p] = <<>> /\ peer[p] # "off"
  BY <1>1 DEF CallInv, Untouched, ConnectionsAgree, BacklogMatchesSockets
<1>5. \A q \in Peers \ {p} : /\ peer'[q] = peer[q] /\ req'[q] = req[q]
                             /\ out'[q] = out[q] /\ rx'[q] = rx[q]
  BY <1>0, <1>1 DEF PollRefuse, Reply, TypeOK
<1>6. ~Connected(p)' /\ \A k \in 1 .. Len(backlog') : backlog'[k] # p
  <2>1. \A k \in 1 .. Len(backlog') : backlog'[k] # p
    <3>1. \A k \in 1 .. Len(backlog') : k + 1 \in 1 .. Len(backlog) /\ k + 1 # 1
      BY <1>1
    <3>2. 1 \in 1 .. Len(backlog)
      BY <1>1
    <3> QED BY <1>1, <3>1, <3>2 DEF ConnectionsAgree, BacklogMatchesSockets
  <2> QED BY <1>2, <1>3, <2>1 DEF Connected
<1>7. PeerCalls(p)'
  <2>1. CASE peer[p] = "hup"
    <3>1. peer'[p] = "off" /\ rx'[p] = <<>>
      BY <1>0, <1>1, <1>4, <2>1 DEF PollRefuse, TypeOK
    <3> QED BY <1>6, <3>1 DEF PeerCalls
  <2>2. CASE peer[p] # "hup"
    <3>1. peer' = peer /\ req' = req /\ rx'[p] = << Err(req[p]) >>
      BY <1>0, <1>1, <1>4, <2>2 DEF PollRefuse, Reply, TypeOK
    <3>2. Len(rx'[p]) = 1 /\ rx'[p][1].op = req[p].op
      BY <3>1 DEF Err
    <3> QED BY <1>1, <1>4, <1>6, <3>1, <3>2 DEF PeerCalls, CallInv
  <2> QED BY <2>1, <2>2
<1>8. WorkIsOwed'
  <2>1. ASSUME NEW w \in g_q PROVE ItemOwed(w)'
    <3>1. ItemOwed(w) /\ sock[w.fd] \in Peers \ {p}
      BY <1>3, WorkItems, ItemOwner DEF CallInv
    <3> QED BY <1>2, <1>5, <3>1, ItemKept DEF Slots
  <2>2. (\A w \in g_q' : ItemOwed(w)') /\ \A v, w \in g_q' : v.fd = w.fd => v = w
    BY <1>2, <2>1 DEF CallInv, WorkIsOwed
  <2> QED BY <2>2 DEF WorkIsOwed, ItemOwed
<1>9. ASSUME NEW q \in Peers \ {p} PROVE PeerCalls(q)'
  <2>1. Owes(q)' <=> Owes(q)
    BY <1>2 DEF Owes
  <2>2. (\E k \in 1 .. Len(backlog') : backlog'[k] = q)
           <=> (\E k \in 1 .. Len(backlog) : backlog[k] = q)
    <3>1. ASSUME NEW k \in 1 .. Len(backlog), backlog[k] = q
          PROVE  \E l \in 1 .. Len(backlog') : backlog'[l] = q
      <4>1. k # 1 /\ k - 1 \in 1 .. Len(backlog') /\ backlog'[k - 1] = backlog[k]
        BY <1>1, <3>1
      <4> QED BY <3>1, <4>1
    <3>2. ASSUME NEW k \in 1 .. Len(backlog'), backlog'[k] = q
          PROVE  \E l \in 1 .. Len(backlog) : backlog[l] = q
      <4>1. k + 1 \in 1 .. Len(backlog) /\ backlog[k + 1] = q
        BY <1>1, <3>2
      <4> QED BY <4>1
    <3> QED BY <3>1, <3>2
  <2>3. Connected(q)' <=> Connected(q)
    BY <1>2, <2>2 DEF Connected
  <2> QED BY <1>5, <2>1, <2>3, PeerKept DEF CallInv
<1>10. Untouched'
  <2>1. \A k \in 1 .. Len(backlog') : /\ k + 1 \in 1 .. Len(backlog)
                                      /\ backlog'[k] \in Peers \ {p}
    BY <1>1, <1>6 DEF TypeOK
  <2> QED BY <1>1, <1>5, <2>1 DEF CallInv, Untouched
<1> QED BY <1>7, <1>8, <1>9, <1>10 DEF CallInv

(* What is known of the client whose request a handler takes: it is the    *)
(* request it is blocked in, and it has no work and no reply.              *)
LEMMA Taken ==
    ASSUME TypeOK, ConnectionsAgree, CallInv, NEW i \in Slots,
           NEW p, p = sock[cl[i].fd], NEW m, Take(i, p, m)
    PROVE  /\ p \in Peers /\ Connected(p) /\ peer[p] # "off" /\ ~Owes(p)
           /\ peer[p] # "hup" => rx[p] = <<>> /\ req[p] # NoReq
<1>1. cl[i].fd \in Fds /\ p \in Peers /\ peer[p] # "off"
  BY SlotType, InputAssumption DEF ConnectionsAgree, TableMatchesSockets
<1>2. Connected(p)
  BY <1>1 DEF Connected
<1>3. \A w \in g_q : sock[w.fd] # p
  BY DEF Take, CallInv, WorkIsOwed
<1>4. PeerCalls(p)
  BY <1>1 DEF CallInv
<1> QED BY <1>1, <1>2, <1>3, <1>4 DEF Take, PeerCalls, Owes

(* Taking it changes no other client's and concerns no queued item.        *)
LEMMA TakenAlone ==
    ASSUME TypeOK, ConnectionsAgree, CallInv, NEW i \in Slots,
           NEW p, p = sock[cl[i].fd], NEW m, Take(i, p, m)
    PROVE  /\ \A q \in Peers : out'[q] = IF q = p THEN "none" ELSE out[q]
           /\ \A w \in g_q : w.fd # cl[i].fd /\ sock[w.fd] # p
<1>1. \A w \in g_q : sock[w.fd] # p
  BY DEF Take, CallInv, WorkIsOwed
<1>2. \A w \in g_q : w.fd # cl[i].fd
  BY <1>1
<1>3. \A q \in Peers : out'[q] = IF q = p THEN "none" ELSE out[q]
  BY DEF Take, TypeOK
<1> QED BY <1>1, <1>2, <1>3

(* A handler that answers at once.                                         *)
LEMMA CallsReply ==
    ASSUME TypeOK, ConnectionsAgree, CallInv, NEW i \in Slots,
           NEW p, p = sock[cl[i].fd], NEW m, Take(i, p, m),
           UNCHANGED <<sock, backlog, peer, req, g_q>>, Slots' = Slots,
           \A j \in Slots : cl'[j].fd = cl[j].fd,
           \A j \in Slots : j # i => cl'[j] = cl[j],
           NEW r, r.op = m.op, Reply(p, r)
    PROVE  CallInv'
<1>0. /\ p \in Peers /\ Connected(p) /\ peer[p] # "off" /\ ~Owes(p)
      /\ m = req[p]
      /\ peer[p] # "hup" => rx[p] = <<>> /\ req[p] # NoReq
  <2>1. p \in Peers /\ Connected(p) /\ peer[p] # "off"
    BY Taken
  <2>2. ~Owes(p)
    BY Taken
  <2>3. m = req[p]
    BY DEF Take
  <2>4. peer[p] # "hup" => rx[p] = <<>> /\ req[p] # NoReq
    BY Taken
  <2> QED BY <2>1, <2>2, <2>3, <2>4
<1>1. /\ p \in Peers /\ peer[p] # "off"
      /\ \A q \in Peers : out'[q] = IF q = p THEN "none" ELSE out[q]
      /\ \A w \in g_q : w.fd # cl[i].fd /\ sock[w.fd] # p
  BY <1>0, TakenAlone
<1>2. /\ \A q \in Peers \ {p} : rx'[q] = rx[q]
      /\ peer[p] = "hup" => rx' = rx
      /\ peer[p] # "hup" => rx'[p] = << r >>
  <2>1. CASE peer[p] = "hup"
    BY <2>1 DEF Reply
  <2>2. CASE peer[p] # "hup"
    <3>1. rx' = [rx EXCEPT ![p] = Append(rx[p], r)] /\ rx[p] = <<>>
      BY <1>0, <2>2 DEF Reply
    <3>2. Append(<<>>, r) = << r >>
      OBVIOUS
    <3> QED BY <1>0, <2>2, <3>1, <3>2 DEF TypeOK
  <2> QED BY <2>1, <2>2
<1>3. WorkIsOwed'
  <2>1. ASSUME NEW w \in g_q PROVE ItemOwed(w)'
    <3>1. ItemOwed(w) /\ sock[w.fd] \in Peers \ {p} /\ w.fd # cl[i].fd
      BY <1>1, WorkItems, ItemOwner DEF CallInv
    <3>2. \A j \in Slots : cl[j].fd = w.fd =>
             \E k \in Slots' : cl'[k].fd = cl[j].fd /\ cl[j].wt \subseteq cl'[k].wt
      BY <3>1
    <3> QED BY <1>1, <3>1, <3>2, ItemKept
  <2>2. (\A w \in g_q' : ItemOwed(w)') /\ \A v, w \in g_q' : v.fd = w.fd => v = w
    BY <2>1 DEF CallInv, WorkIsOwed
  <2> QED BY <2>2 DEF WorkIsOwed, ItemOwed
<1>4. Owes(p)' <=> Owes(p)
  BY DEF Owes
<1>5. PeerCalls(p)'
  <2>1. CASE peer[p] = "hup"
    BY <2>1 DEF PeerCalls
  <2>2. CASE peer[p] # "hup"
    <3>0. Len(<< r >>) = 1 /\ << r >>[1] = r /\ << r >> # <<>>
      OBVIOUS
    <3>1. Len(rx'[p]) = 1 /\ rx'[p][1] = r /\ rx'[p] # <<>> /\ out'[p] = "none"
      BY <1>1, <1>2, <2>2, <3>0, Zenon
    <3> QED BY <1>0, <1>1, <1>4, <2>2, <3>1 DEF PeerCalls, CallInv
  <2> QED BY <2>1, <2>2
<1>6. ASSUME NEW q \in Peers \ {p} PROVE PeerCalls(q)'
  <2>1. (Connected(q)' <=> Connected(q)) /\ (Owes(q)' <=> Owes(q))
    BY DEF Connected, Owes
  <2> QED BY <1>1, <1>2, <2>1, PeerKept DEF CallInv
<1>7. Untouched'
  <2>1. \A k \in 1 .. Len(backlog) : backlog[k] \in Peers /\ backlog[k] # p
    BY SlotType DEF TypeOK, ConnectionsAgree, BacklogMatchesSockets
  <2> QED BY <1>2, <2>1 DEF CallInv, Untouched
<1> QED BY <1>3, <1>5, <1>6, <1>7 DEF CallInv

(* A RUN is queued: the request moves from the socket to the queue.        *)
LEMMA CallsEnqueue ==
    ASSUME TypeOK, ConnectionsAgree, CallInv, NEW i \in Slots,
           NEW p, p = sock[cl[i].fd], NEW m, Take(i, p, m), m.op = "RUN",
           UNCHANGED <<sock, backlog, peer, req, rx, cl>>,
           NEW x \in cl[i].wt, x.id = m.wid,
           NEW v, g_q' = g_q \cup {v},
           v.fd = cl[i].fd, v.weight_id = m.wid, v.M = m.rows
    PROVE  CallInv'
<1>0. /\ p \in Peers /\ Connected(p) /\ peer[p] # "off" /\ ~Owes(p)
      /\ m = req[p]
      /\ peer[p] # "hup" => rx[p] = <<>> /\ req[p] # NoReq
  <2>1. p \in Peers /\ Connected(p) /\ peer[p] # "off"
    BY Taken
  <2>2. ~Owes(p)
    BY Taken
  <2>3. m = req[p]
    BY DEF Take
  <2>4. peer[p] # "hup" => rx[p] = <<>> /\ req[p] # NoReq
    BY Taken
  <2> QED BY <2>1, <2>2, <2>3, <2>4
<1>1. /\ \A q \in Peers : out'[q] = IF q = p THEN "none" ELSE out[q]
      /\ \A w \in g_q : w.fd # cl[i].fd /\ sock[w.fd] # p
  BY TakenAlone
<1>2. Slots' = Slots /\ sock[v.fd] = p
  BY DEF Slots
<1>3. WorkIsOwed'
  <2>1. ASSUME NEW w \in g_q PROVE ItemOwed(w)'
    <3>1. ItemOwed(w) /\ sock[w.fd] \in Peers \ {p}
      BY <1>1, WorkItems, ItemOwner DEF CallInv
    <3> QED BY <1>1, <1>2, <3>1, ItemKept
  <2>2. ItemOwed(v)'
    <3>1. Resolved(v)'
      BY <1>2 DEF Resolved, Slots
    <3> QED BY <1>0, <1>1, <1>2, <3>1 DEF ItemOwed
  <2>3. \A w \in g_q' : ItemOwed(w)'
    BY <2>1, <2>2
  <2>4. \A u, w \in g_q' : u.fd = w.fd => u = w
    BY <1>1 DEF CallInv, WorkIsOwed
  <2> QED BY <2>3, <2>4 DEF WorkIsOwed, ItemOwed
<1>4. PeerCalls(p)'
  <2>1. Owes(p)' /\ (Connected(p)' <=> Connected(p))
    BY <1>2 DEF Owes, Connected
  <2> QED BY <1>0, <1>1, <2>1 DEF PeerCalls, CallInv
<1>5. ASSUME NEW q \in Peers \ {p} PROVE PeerCalls(q)'
  <2>1. (Connected(q)' <=> Connected(q)) /\ (Owes(q)' <=> Owes(q))
    BY <1>2 DEF Connected, Owes
  <2> QED BY <1>1, <2>1, PeerKept DEF CallInv
<1>6. Untouched'
  BY DEF CallInv, Untouched
<1> QED BY <1>3, <1>4, <1>5, <1>6 DEF CallInv

(* Every handler answers at once or queues the run.                        *)
LEMMA ServiceAnswers ==
    ASSUME TypeOK, NEW i \in Slots, Service(i),
           ~(DropEof(i) \/ HandleBye(i) \/ ChainToDeadPeer(i)),
           NEW p, p = sock[cl[i].fd], NEW m, m = req[p]
    PROVE  /\ req' = req
           /\ \/ g_q' = g_q /\ \E r : r.op = m.op /\ Reply(p, r)
              \/ /\ m.op = "RUN" /\ rx' = rx /\ cl' = cl
                 /\ \E x \in cl[i].wt : x.id = m.wid
                 /\ \E v : /\ g_q' = g_q \cup {v}
                           /\ v.fd = cl[i].fd /\ v.weight_id = m.wid /\ v.M = m.rows
<1>0. \A id : Ok(m, id).op = m.op /\ Err(m).op = m.op
  BY DEF Ok, Err
<1>1. CASE HandleHello(i, p, m)
  BY <1>0, <1>1 DEF HandleHello
<1>2. CASE HandleStateless(i, p, m)
  BY <1>0, <1>2 DEF HandleStateless
<1>3. CASE HandlePack(i, p, m)
  <2>1. req' = req /\ g_q' = g_q
    BY <1>3 DEF HandlePack
  <2>2. Reply(p, Ok(m, cl[i].next_wid + 1)) \/ Reply(p, Err(m))
    BY <1>3 DEF HandlePack
  <2> QED BY <1>0, <2>1, <2>2
<1>4. CASE HandleFree(i, p, m)
  <2>1. req' = req /\ g_q' = g_q /\ (Reply(p, Ok(m, m.wid)) \/ Reply(p, Err(m)))
    BY <1>4 DEF HandleFree
  <2> QED BY <1>0, <2>1
<1>5. CASE HandleRun(i, p, m)
  <2>1. CASE Refuse(p, m) /\ g_q' = g_q
    BY <1>0, <1>5, <2>1 DEF HandleRun, Refuse
  <2>2. ASSUME NEW x \in cl[i].wt, x.id = m.wid, rx' = rx,
               g_q' = wk_alloc([fd |-> cl[i].fd, weight_id |-> m.wid,
                                prio |-> m.prio, domain |-> x.dom,
                                M |-> m.rows, m0 |-> 0, rc |-> 0, seq |-> 0])
        PROVE  \E v : /\ g_q' = g_q \cup {v}
                      /\ v.fd = cl[i].fd /\ v.weight_id = m.wid /\ v.M = m.rows
    <3> DEFINE v == [fd |-> cl[i].fd, weight_id |-> m.wid, prio |-> m.prio,
                     domain |-> x.dom, M |-> m.rows, m0 |-> 0, rc |-> 0,
                     seq |-> Cardinality(g_q)]
    <3>1. g_q' = g_q \cup {v}
      BY <2>2 DEF wk_alloc
    <3>2. v.fd = cl[i].fd /\ v.weight_id = m.wid /\ v.M = m.rows
      OBVIOUS
    <3> HIDE DEF v
    <3> QED BY <3>1, <3>2
  <2> QED BY <1>5, <2>1, <2>2 DEF HandleRun
<1>6. CASE HandleChain(i, p, m)
  BY <1>0, <1>6 DEF HandleChain
<1>7. CASE HandleDomReq(i, p, m)
  <2>1. req' = req /\ g_q' = g_q /\ ((\E d \in Doms : Reply(p, Ok(m, d))) \/ Reply(p, Err(m)))
    BY <1>7 DEF HandleDomReq
  <2> QED BY <1>0, <2>1
<1>8. CASE HandleDomRel(i, p, m)
  <2>1. req' = req /\ g_q' = g_q /\ (Reply(p, Ok(m, m.dom)) \/ Reply(p, Err(m)))
    BY <1>8 DEF HandleDomRel
  <2> QED BY <1>0, <2>1
<1> QED
  BY <1>1, <1>2, <1>3, <1>4, <1>5, <1>6, <1>7, <1>8 DEF Service

(* Freeing items leaves the others, renumbered.                            *)
LEMMA WkFreeItems ==
    ASSUME TypeOK, NEW R \in SUBSET g_q
    PROVE  /\ \A v \in wk_free(R) : \E w \in g_q \ R :
                v.fd = w.fd /\ v.weight_id = w.weight_id /\ v.M = w.M
           /\ \A w \in g_q \ R : \E v \in wk_free(R) : v.fd = w.fd
           /\ (\A v, w \in g_q : v.fd = w.fd => v = w) =>
                \A v, w \in wk_free(R) : v.fd = w.fd => v = w
<1> DEFINE f(w) == [w EXCEPT !.seq = @ - Ahead(R, w)]
<1>1. \A w \in g_q : /\ f(w).fd = w.fd /\ f(w).weight_id = w.weight_id
                     /\ f(w).M = w.M
  BY DEF TypeOK, Work, WorkRec
<1>2. wk_free(R) = {f(w) : w \in g_q \ R}
  BY DEF wk_free
<1> HIDE DEF f
<1>3. \A v \in wk_free(R) : \E w \in g_q \ R : v = f(w)
  BY <1>2
<1>4. \A w \in g_q \ R : f(w) \in wk_free(R)
  BY <1>2
<1>5. \A w \in g_q \ R : \E v \in wk_free(R) : v.fd = w.fd
  BY <1>1, <1>4
<1>6. \A v \in wk_free(R) : \E w \in g_q \ R :
         v.fd = w.fd /\ v.weight_id = w.weight_id /\ v.M = w.M
  BY <1>1, <1>3
<1>7. ASSUME \A v, w \in g_q : v.fd = w.fd => v = w,
             NEW v \in wk_free(R), NEW w \in wk_free(R), v.fd = w.fd
      PROVE  v = w
  <2>1. PICK v0 \in g_q, w0 \in g_q : v = f(v0) /\ w = f(w0)
    BY <1>3
  <2>2. v0.fd = w0.fd
    BY <1>1, <1>7, <2>1
  <2> QED BY <1>7, <2>1, <2>2
<1> QED BY <1>5, <1>6, <1>7

(* A drop forgets the client, its work and its call, and nothing of the    *)
(* others': not even of the one whose slot moves.                          *)
LEMMA CallsDrop ==
    ASSUME TypeOK, ConnectionsAgree, CallInv, NEW i \in Slots, Drop(i)
    PROVE  CallInv'
<1>0. PICK p \in Peers : p = sock[cl[i].fd]
  BY DropSlots
<1>1. /\ Slots' = 1 .. (Len(cl) - 1) /\ Len(cl) \in Nat
      /\ \A j \in Slots' : cl'[j] = IF j = i THEN cl[Len(cl)] ELSE cl[j]
      /\ cl[i].fd \in Fds
  BY DropSlots
<1>2. \A f \in Fds : sock'[f] = IF f = cl[i].fd THEN NoPeer ELSE sock[f]
  BY <1>1 DEF Drop, TypeOK
<1>3. /\ \A q \in Peers \ {p} : /\ peer'[q] = peer[q] /\ req'[q] = req[q]
                                /\ out'[q] = out[q] /\ rx'[q] = rx[q]
      /\ peer'[p] = "off" /\ rx'[p] = <<>>
      /\ backlog' = backlog
  BY <1>0 DEF Drop, TypeOK
<1>4. \A j \in Slots : j # i =>
         /\ cl[j].fd # cl[i].fd
         /\ \E k \in Slots' : cl'[k].fd = cl[j].fd /\ cl[j].wt \subseteq cl'[k].wt
  <2> SUFFICES ASSUME NEW j \in Slots, j # i
               PROVE  /\ cl[j].fd # cl[i].fd
                      /\ \E k \in Slots' : cl'[k] = cl[j]
    OBVIOUS
  <2>1. cl[j].fd # cl[i].fd
    BY DEF ConnectionsAgree, TableMatchesSockets
  <2>2. CASE j = Len(cl)
    BY <1>1, <2>1, <2>2 DEF Slots
  <2>3. CASE j # Len(cl)
    BY <1>1, <2>1, <2>3 DEF Slots
  <2> QED BY <2>2, <2>3, <2>1
<1>5. \A f \in Fds : f # cl[i].fd => sock[f] # p
  BY <1>0, <1>1, InputAssumption DEF ConnectionsAgree, TableMatchesSockets
<1>6. \A k \in 1 .. Len(backlog) : backlog[k] \in Peers \ {p}
  BY <1>0, <1>1 DEF ConnectionsAgree, BacklogMatchesSockets, TypeOK
<1> DEFINE R == WorkOf(cl[i].fd)
<1>7. /\ \A v \in g_q' : \E w \in g_q :
           /\ v.fd = w.fd /\ v.weight_id = w.weight_id /\ v.M = w.M
           /\ w.fd # cl[i].fd
      /\ \A w \in g_q : w.fd # cl[i].fd => \E v \in g_q' : v.fd = w.fd
      /\ \A v, w \in g_q' : v.fd = w.fd => v = w
  <2>1. R \in SUBSET g_q /\ \A w \in g_q \ R : w.fd # cl[i].fd
    BY DEF WorkOf
  <2>2. g_q' = wk_free(R) /\ \A w \in g_q : w.fd # cl[i].fd => w \in g_q \ R
    BY DEF Drop, WorkOf
  <2>3. \A v, w \in g_q : v.fd = w.fd => v = w
    BY DEF CallInv, WorkIsOwed
  <2> HIDE DEF R
  <2> QED BY <2>1, <2>2, <2>3, WkFreeItems
<1>8. WorkIsOwed'
  <2>1. ASSUME NEW v \in g_q' PROVE ItemOwed(v)'
    <3>1. PICK w \in g_q : /\ v.fd = w.fd /\ v.weight_id = w.weight_id /\ v.M = w.M
                           /\ w.fd # cl[i].fd
      BY <1>7
    <3>2. /\ ItemOwed(w) /\ w.fd \in Fds /\ sock[w.fd] \in Peers \ {p}
          /\ sock'[w.fd] = sock[w.fd]
      BY <1>2, <1>5, <3>1, WorkItems, ItemOwner DEF CallInv
    <3>3. \A j \in Slots : cl[j].fd = w.fd =>
             \E k \in Slots' : cl'[k].fd = cl[j].fd /\ cl[j].wt \subseteq cl'[k].wt
      BY <1>4, <3>1
    <3> QED BY <1>3, <3>1, <3>2, <3>3, ItemKept
  <2> QED BY <1>7, <2>1 DEF WorkIsOwed, ItemOwed
<1>9. PeerCalls(p)'
  <2>1. ~Connected(p)'
    BY <1>2, <1>3, <1>5, <1>6, InputAssumption DEF Connected
  <2> QED BY <1>3, <2>1 DEF PeerCalls
<1>10. ASSUME NEW q \in Peers \ {p} PROVE PeerCalls(q)'
  <2>1. Connected(q)' <=> Connected(q)
    BY <1>0, <1>1, <1>2, <1>3, InputAssumption DEF Connected
  <2>2. Owes(q)' <=> Owes(q)
    <3>1. ASSUME NEW w \in g_q, sock[w.fd] = q PROVE Owes(q)'
      <4>1. w.fd # cl[i].fd /\ w.fd \in Fds
        BY <1>0, <3>1, ItemOwner DEF CallInv
      <4>2. PICK v \in g_q' : v.fd = w.fd
        BY <1>7, <4>1
      <4> QED BY <1>2, <3>1, <4>1, <4>2 DEF Owes
    <3>2. ASSUME NEW v \in g_q', sock'[v.fd] = q PROVE Owes(q)
      <4>1. PICK w \in g_q : v.fd = w.fd /\ w.fd # cl[i].fd
        BY <1>7
      <4>2. w.fd \in Fds
        BY ItemOwner DEF CallInv
      <4> QED BY <1>2, <3>2, <4>1, <4>2 DEF Owes
    <3> QED BY <3>1, <3>2 DEF Owes
  <2> QED BY <1>3, <2>1, <2>2, PeerKept DEF CallInv
<1>11. Untouched'
  BY <1>3, <1>6 DEF CallInv, Untouched
<1> QED BY <1>8, <1>9, <1>10, <1>11 DEF CallInv

(* Every handler keeps every call in one place.                            *)
LEMMA CallsService ==
    ASSUME TypeOK, ConnectionsAgree, CallInv, NEW i \in Slots, Service(i)
    PROVE  CallInv'
<1>1. CASE DropEof(i) \/ HandleBye(i) \/ ChainToDeadPeer(i)
  BY <1>1, CallsDrop DEF DropEof, HandleBye, ChainToDeadPeer
<1>2. CASE ~(DropEof(i) \/ HandleBye(i) \/ ChainToDeadPeer(i))
  <2>1. PICK p, m : p = sock[cl[i].fd] /\ m = req[p]
    OBVIOUS
  <2>2. /\ Take(i, p, m)
        /\ sock' = sock /\ backlog' = backlog /\ peer' = peer
        /\ Len(cl') = Len(cl)
        /\ \A j \in Slots : cl'[j].fd = cl[j].fd
        /\ \A j \in Slots : j # i => cl'[j] = cl[j]
    BY <1>2, <2>1, TakeFrame
  <2>3. /\ req' = req
        /\ \/ g_q' = g_q /\ \E r : r.op = m.op /\ Reply(p, r)
           \/ /\ m.op = "RUN" /\ rx' = rx /\ cl' = cl
              /\ \E x \in cl[i].wt : x.id = m.wid
              /\ \E v : /\ g_q' = g_q \cup {v}
                        /\ v.fd = cl[i].fd /\ v.weight_id = m.wid /\ v.M = m.rows
    BY <1>2, <2>1, ServiceAnswers
  <2>4. Slots' = Slots
    BY <2>2 DEF Slots
  <2>5. ASSUME g_q' = g_q, NEW r, r.op = m.op, Reply(p, r) PROVE CallInv'
    BY <2>1, <2>2, <2>3, <2>4, <2>5, CallsReply
  <2>6. ASSUME m.op = "RUN", rx' = rx, cl' = cl, NEW x \in cl[i].wt, x.id = m.wid,
               NEW v, g_q' = g_q \cup {v},
               v.fd = cl[i].fd, v.weight_id = m.wid, v.M = m.rows
        PROVE  CallInv'
    BY <2>1, <2>2, <2>3, <2>6, CallsEnqueue
  <2> QED BY <2>3, <2>5, <2>6
<1> QED BY <1>1, <1>2

(* The end of the process: what a client has been answered it can still    *)
(* read, and nothing else is left.                                         *)
LEMMA CallsTeardown ==
    ASSUME TypeOK, CallInv, Teardown
    PROVE  CallInv'
<1>1. WorkIsOwed' /\ Untouched'
  BY DEF Teardown, WorkIsOwed, Untouched
<1>2. ASSUME NEW p \in Peers PROVE PeerCalls(p)'
  <2>1. ~Connected(p)'
    BY InputAssumption DEF Teardown, Connected
  <2>2. CASE peer[p] = "hup"
    BY <2>1, <2>2 DEF Teardown, PeerCalls
  <2>3. CASE peer[p] # "hup"
    BY <2>1, <2>3 DEF Teardown, PeerCalls, CallInv
  <2> QED BY <2>2, <2>3
<1> QED BY <1>1, <1>2 DEF CallInv

(* A quantum that is not the item's last leaves it owed.                   *)
LEMMA CallsSlice ==
    ASSUME TypeOK, ConnectionsAgree, CallInv, NEW w \in g_q, NEW v,
           v.fd = w.fd, v.weight_id = w.weight_id, v.M = w.M,
           g_q' = (g_q \ {w}) \cup {v},
           UNCHANGED <<sock, backlog, peer, req, out, rx, cl>>
    PROVE  CallInv'
<1>1. Slots' = Slots
  BY DEF Slots
<1>2. WorkIsOwed'
  <2>1. \A u \in g_q : ItemOwed(u)
    BY WorkItems DEF CallInv
  <2>2. ASSUME NEW u \in g_q' PROVE ItemOwed(u)'
    <3>1. CASE u = v
      BY <1>1, <2>1, <3>1, ItemKept
    <3>2. CASE u \in g_q
      BY <1>1, <2>1, <3>2, ItemKept
    <3> QED BY <3>1, <3>2
  <2>3. \A t, u \in g_q' : t.fd = u.fd => t = u
    BY DEF CallInv, WorkIsOwed
  <2> QED BY <2>2, <2>3 DEF WorkIsOwed, ItemOwed
<1>3. ASSUME NEW q \in Peers PROVE PeerCalls(q)'
  <2>1. (Connected(q)' <=> Connected(q)) /\ (Owes(q)' <=> Owes(q))
    BY DEF Connected, Owes
  <2> QED BY <2>1, PeerKept DEF CallInv
<1>4. Untouched'
  BY DEF CallInv, Untouched
<1> QED BY <1>2, <1>3, <1>4 DEF CallInv

(* Its last quantum answers it: the owner's one request moves from the     *)
(* queue to its replies.                                                   *)
LEMMA CallsFinish ==
    ASSUME TypeOK, ConnectionsAgree, CallInv, NEW w \in g_q,
           g_q' = wk_free({w}), NEW r, r.op = "RUN", Reply(sock[w.fd], r),
           UNCHANGED <<sock, backlog, peer, req, out, cl>>
    PROVE  CallInv'
<1>0. PICK p \in Peers : p = sock[w.fd]
  BY ItemOwner DEF CallInv
<1>1. /\ w.fd \in Fds /\ Connected(p) /\ Owes(p) /\ req[p].op = "RUN" /\ out[p] = "none"
  BY <1>0, ItemOwner DEF CallInv, WorkIsOwed, Owes
<1>2. /\ peer[p] # "off"
      /\ peer[p] # "hup" => rx[p] = <<>> /\ req[p] # NoReq
      /\ peer[p] = "greet" => req[p] = Hello
  BY <1>0, <1>1, InputAssumption
     DEF CallInv, PeerCalls, ConnectionsAgree, TableMatchesSockets
<1>3. \A q \in Peers \ {p} : rx'[q] = rx[q]
  BY <1>0 DEF Reply, TypeOK
<1>4. Slots' = Slots
  BY DEF Slots
<1>5. \A u \in g_q : u.fd \in Fds /\ (u # w => u.fd # w.fd /\ sock[u.fd] # p)
  <2> SUFFICES ASSUME NEW u \in g_q
               PROVE  u.fd \in Fds /\ (u # w => u.fd # w.fd /\ sock[u.fd] # p)
    OBVIOUS
  <2>1. u.fd \in Fds
    BY ItemOwner DEF CallInv
  <2>2. u # w => u.fd # w.fd
    BY DEF CallInv, WorkIsOwed
  <2> QED BY <1>0, <1>1, <2>1, <2>2, InputAssumption
          DEF ConnectionsAgree, TableMatchesSockets
<1>6. /\ \A v \in g_q' : \E u \in g_q \ {w} :
           v.fd = u.fd /\ v.weight_id = u.weight_id /\ v.M = u.M
      /\ \A u \in g_q \ {w} : \E v \in g_q' : v.fd = u.fd
      /\ \A u, v \in g_q' : u.fd = v.fd => u = v
  <2>1. {w} \in SUBSET g_q
    OBVIOUS
  <2>2. \A u, v \in g_q : u.fd = v.fd => u = v
    BY DEF CallInv, WorkIsOwed
  <2> QED BY <2>1, <2>2, WkFreeItems
<1>7. WorkIsOwed'
  <2>1. ASSUME NEW v \in g_q' PROVE ItemOwed(v)'
    <3>1. PICK u \in g_q \ {w} : v.fd = u.fd /\ v.weight_id = u.weight_id /\ v.M = u.M
      BY <1>6
    <3>2. ItemOwed(u)
      BY WorkItems DEF CallInv
    <3> QED BY <1>4, <3>1, <3>2, ItemKept
  <2> QED BY <1>6, <2>1 DEF WorkIsOwed, ItemOwed
<1>8. PeerCalls(p)'
  <2>1. ~Owes(p)' /\ (Connected(p)' <=> Connected(p))
    <3>1. ASSUME NEW v \in g_q' PROVE sock'[v.fd] # p
      <4>1. PICK u \in g_q \ {w} :
              v.fd = u.fd /\ v.weight_id = u.weight_id /\ v.M = u.M
        BY <1>6
      <4> QED BY <1>5, <4>1
    <3> QED BY <3>1 DEF Owes, Connected
  <2>2. CASE peer[p] = "hup"
    BY <2>2 DEF PeerCalls
  <2>3. CASE peer[p] # "hup"
    <3>1. rx' = [rx EXCEPT ![p] = Append(rx[p], r)] /\ rx[p] = <<>>
      BY <1>0, <1>2, <2>3 DEF Reply
    <3>2. Append(<<>>, r) = << r >> /\ Len(<< r >>) = 1 /\ << r >>[1] = r /\ << r >> # <<>>
      OBVIOUS
    <3>3. rx'[p] = << r >>
      BY <3>1, <3>2 DEF TypeOK
    <3>4. Len(rx'[p]) = 1 /\ rx'[p][1].op = req[p].op /\ rx'[p] # <<>>
      BY <1>1, <3>2, <3>3, Zenon
    <3> QED BY <1>1, <1>2, <2>1, <2>3, <3>4 DEF PeerCalls
  <2> QED BY <2>2, <2>3
<1>9. ASSUME NEW q \in Peers \ {p} PROVE PeerCalls(q)'
  <2>1. Connected(q)' <=> Connected(q)
    BY DEF Connected
  <2>2. Owes(q)' <=> Owes(q)
    <3>1. ASSUME NEW u \in g_q, sock[u.fd] = q PROVE Owes(q)'
      <4>1. u # w
        BY <1>0, <3>1
      <4>2. PICK v \in g_q' : v.fd = u.fd
        BY <1>6, <4>1
      <4> QED BY <3>1, <4>2 DEF Owes
    <3>2. ASSUME NEW v \in g_q', sock'[v.fd] = q PROVE Owes(q)
      <4>1. PICK u \in g_q \ {w} :
              v.fd = u.fd /\ v.weight_id = u.weight_id /\ v.M = u.M
        BY <1>6
      <4> QED BY <3>2, <4>1 DEF Owes
    <3> QED BY <3>1, <3>2 DEF Owes
  <2> QED BY <1>3, <2>1, <2>2, PeerKept DEF CallInv
<1>10. Untouched'
  <2>1. \A k \in 1 .. Len(backlog) : backlog[k] \in Peers \ {p}
    BY <1>0, <1>1 DEF TypeOK, ConnectionsAgree, BacklogMatchesSockets
  <2> QED BY <1>3, <2>1 DEF CallInv, Untouched
<1> QED BY <1>7, <1>8, <1>9, <1>10 DEF CallInv

(* dispatch_one: an idle tick, a slice, or the end of the item.            *)
LEMMA CallsDispatch ==
    ASSUME TypeOK, ConnectionsAgree, CallInv, Dispatch
    PROVE  CallInv'
<1>0. UNCHANGED <<sock, backlog, peer, req, out, cl>>
  BY DEF Dispatch
<1>1. CASE g_q = {} /\ UNCHANGED <<g_q, rx, g_active_dom>>
  BY <1>0, <1>1, CallsFrame
<1>2. ASSUME NEW w \in g_q, NEW rc \in {0, -1}, DispatchItem(w, rc)
      PROVE  CallInv'
  <2>1. Resolved(w) /\ Alive(w) /\ w \in Work
    BY DEF CallInv, WorkIsOwed, Alive, Slots, TypeOK
  <2>2. CASE w.m0 + Slice(w) >= w.M
    <3>1. /\ g_q' = wk_free({w})
          /\ \E r \in {Ok(RunTag, w.weight_id), Err(RunTag)} : Reply(sock[w.fd], r)
      BY <1>2, <2>1, <2>2 DEF DispatchItem
    <3>2. \A r \in {Ok(RunTag, w.weight_id), Err(RunTag)} : r.op = "RUN"
      BY DEF Ok, Err, RunTag, Msg
    <3> QED BY <1>0, <3>1, <3>2, CallsFinish
  <2>3. CASE ~(w.m0 + Slice(w) >= w.M)
    <3> DEFINE v == [w EXCEPT !.m0 = @ + Slice(w), !.rc = IF w.rc = 0 THEN rc ELSE -1]
    <3>1. g_q' = (g_q \ {w}) \cup {v} /\ rx' = rx
      BY <1>2, <2>1, <2>3 DEF DispatchItem
    <3>2. v.fd = w.fd /\ v.weight_id = w.weight_id /\ v.M = w.M
      BY <2>1 DEF Work, WorkRec
    <3> HIDE DEF v
    <3> QED BY <1>0, <3>1, <3>2, CallsSlice
  <2> QED BY <2>2, <2>3
<1> QED BY <1>1, <1>2 DEF Dispatch

(* One step per kind of step.                                              *)
LEMMA CallsNext == IInv /\ CallInv /\ [Next]_vars => CallInv'
<1> SUFFICES ASSUME IInv, CallInv, [Next]_vars PROVE CallInv'
  OBVIOUS
<1> USE DEF IInv
<1>1. ASSUME NEW p \in Peers, Client(p) PROVE CallInv'
  BY <1>1, CallsClient
<1>2. ASSUME NEW i \in 1 .. Len(cl), Service(i) PROVE CallInv'
  BY <1>2, CallsService DEF Slots
<1>3. CASE PollNoAccept \/ Reap \/ Stop \/ UNCHANGED vars
  BY <1>3, CallsFrame DEF PollNoAccept, Reap, Stop, vars, clientVars, daemonVars
<1>4. CASE PollAccept \/ PollRefuse \/ Dispatch \/ Teardown
  BY <1>4, CallsAccept, CallsRefuse, CallsDispatch, CallsTeardown
<1> QED BY <1>1, <1>2, <1>3, <1>4 DEF Next, Daemon

(* The calls stay in place in every behaviour of daemon and clients.       *)
LEMMA CallInvariant == Spec => [](IInv /\ CallInv)
<1>1. Init => IInv /\ CallInv
  BY IInvInit, CallsInit
<1>2. (IInv /\ CallInv) /\ [Next]_vars => (IInv /\ CallInv)'
  BY IInvNext, CallsNext
<1> QED BY <1>1, <1>2, PTL DEF Spec

(* dispatch_one and the table: for any number of clients, weights and      *)
(* queue slots, a queued item belongs to a connected client that sent that *)
(* very RUN and still waits for it, and its weight is resident.            *)
THEOREM WorkAlwaysOwed == Spec => []WorkIsOwed
<1>1. IInv /\ CallInv => WorkIsOwed
  BY DEF CallInv
<1> QED BY <1>1, CallInvariant, PTL

(* Handlers, queue and replies (orkd.c, orkd_handlers.c): for any number   *)
(* of clients, the request a connected client is blocked on is in exactly  *)
(* one place, and a reply it has not read is the one it waits for.         *)
THEOREM NoRequestLost == Spec => []RequestConserved
<1>1. IInv /\ CallInv => RequestConserved
  <2> SUFFICES ASSUME IInv, CallInv, NEW p \in Peers
               PROVE  /\ Connected(p) /\ peer[p] # "hup" =>
                           Unread(p) + Queued(p) + Len(rx[p]) =
                             IF req[p] = NoReq THEN 0 ELSE 1
                      /\ rx[p] # <<>> /\ peer[p] # "hup" =>
                           Len(rx[p]) = 1 /\ Head(rx[p]).op = req[p].op
    BY DEF RequestConserved
  <2>1. PeerCalls(p) /\ rx[p] \in Seq(ReplyRec)
    BY DEF CallInv, IInv, TypeOK
  <2>2. rx[p] # <<>> /\ peer[p] # "hup" => Len(rx[p]) = 1 /\ Head(rx[p]).op = req[p].op
    BY <2>1 DEF PeerCalls
  <2>3. Queued(p) = IF Owes(p) THEN 1 ELSE 0
    <3> DEFINE Q == {w \in g_q : sock[w.fd] = p}
    <3>1. CASE Owes(p)
      <4>1. PICK w \in g_q : sock[w.fd] = p
        BY <3>1 DEF Owes
      <4>2. \A v \in g_q : sock[v.fd] = p => v = w
        <5> SUFFICES ASSUME NEW v \in g_q, sock[v.fd] = p PROVE v = w
          OBVIOUS
        <5>1. v.fd \in Fds /\ w.fd \in Fds /\ p # NoPeer
          BY ItemOwner, InputAssumption DEF CallInv, IInv
        <5>2. v.fd = w.fd
          BY <4>1, <5>1 DEF IInv, ConnectionsAgree, TableMatchesSockets
        <5> QED BY <5>2 DEF CallInv, WorkIsOwed
      <4>3. Q = {w}
        BY <4>1, <4>2
      <4> QED BY <3>1, <4>3, FS_Singleton DEF Queued
    <3>2. CASE ~Owes(p)
      <4>1. Q = {}
        BY <3>2 DEF Owes
      <4> QED BY <3>2, <4>1, FS_EmptySet DEF Queued
    <3> QED BY <3>1, <3>2
  <2>4. Owes(p) => out[p] = "none"
    BY DEF Owes, CallInv, WorkIsOwed
  <2>5. Connected(p) /\ peer[p] # "hup" =>
          Unread(p) + Queued(p) + Len(rx[p]) = IF req[p] = NoReq THEN 0 ELSE 1
    <3>1. Len(rx[p]) = 0 <=> rx[p] = <<>>
      BY <2>1, EmptySeq
    <3>2. Connected(p) /\ peer[p] # "hup" =>
            /\ req[p] = NoReq <=> out[p] = "none" /\ rx[p] = <<>> /\ ~Owes(p)
            /\ rx[p] # <<>> => out[p] = "none" /\ ~Owes(p) /\ Len(rx[p]) = 1
      BY <2>1 DEF PeerCalls
    <3> SUFFICES ASSUME Connected(p), peer[p] # "hup"
                 PROVE  Unread(p) + Queued(p) + Len(rx[p]) =
                          IF req[p] = NoReq THEN 0 ELSE 1
      OBVIOUS
    <3>3. CASE out[p] # "none"
      <4>1. Unread(p) = 1 /\ Queued(p) = 0 /\ Len(rx[p]) = 0 /\ req[p] # NoReq
        BY <2>3, <2>4, <3>1, <3>2, <3>3 DEF Unread
      <4> QED BY <4>1
    <3>4. CASE out[p] = "none" /\ Owes(p)
      <4>1. Unread(p) = 0 /\ Queued(p) = 1 /\ Len(rx[p]) = 0 /\ req[p] # NoReq
        BY <2>3, <3>1, <3>2, <3>4 DEF Unread
      <4> QED BY <4>1
    <3>5. CASE out[p] = "none" /\ ~Owes(p) /\ rx[p] # <<>>
      <4>1. Unread(p) = 0 /\ Queued(p) = 0 /\ Len(rx[p]) = 1 /\ req[p] # NoReq
        BY <2>3, <3>2, <3>5 DEF Unread
      <4> QED BY <4>1
    <3>6. CASE out[p] = "none" /\ ~Owes(p) /\ rx[p] = <<>>
      <4>1. Unread(p) = 0 /\ Queued(p) = 0 /\ Len(rx[p]) = 0 /\ req[p] = NoReq
        BY <2>3, <3>1, <3>2, <3>6 DEF Unread
      <4> QED BY <4>1
    <3> QED BY <3>3, <3>4, <3>5, <3>6
  <2> QED BY <2>2, <2>5
<1> QED BY <1>1, CallInvariant, PTL

-----------------------------------------------------------------------------
(* Refinement of RpcService.                                               *)

(* No one in the backlog is past its greeting: the mapping of a refused    *)
(* connection needs that it is in a call.                                  *)
Greeting == \A k \in 1 .. Len(backlog) : peer[backlog[k]] # "live"

(* What the refinement mapping makes of one client.                        *)
OpsOf(s)     == [k \in 1 .. Len(s) |-> s[k].op]
AskedBy(p)   == IF InCall(p) THEN req[p].op ELSE "none"
AnsweredTo(p) == IF InCall(p) THEN OpsOf(rx[p]) ELSE <<>>
Conn     == [p \in Peers |-> InCall(p)]
Asked    == [p \in Peers |-> AskedBy(p)]
Answered == [p \in Peers |-> AnsweredTo(p)]

(* No reply and one reply, as RpcService sees them.                        *)
LEMMA OpsOfFew ==
    ASSUME NEW s \in Seq(ReplyRec)
    PROVE  /\ s = <<>> => OpsOf(s) = <<>>
           /\ Len(s) = 1 => OpsOf(s) = << s[1].op >>
<1>1. OpsOf(s) \in Seq(Tags) /\ Len(OpsOf(s)) = Len(s)
  <2>0. \A r \in ReplyRec : r.op \in Tags
    BY DEF ReplyRec
  <2>1. \A k \in 1 .. Len(s) : s[k].op \in Tags
    BY <2>0
  <2>2. OpsOf(s) \in [1 .. Len(s) -> Tags] /\ Len(s) \in Nat
    BY <2>1 DEF OpsOf
  <2>3. OpsOf(s) \in Seq(Tags)
    BY <2>2, SeqDef
  <2>4. Len(OpsOf(s)) = Len(s)
    BY <2>2, <2>3, LenProperties
  <2> QED BY <2>3, <2>4
<1>2. s = <<>> => OpsOf(s) = <<>>
  BY <1>1, EmptySeq
<1>3. Len(s) = 1 => OpsOf(s) = << s[1].op >>
  <2> SUFFICES ASSUME Len(s) = 1 PROVE OpsOf(s) = << s[1].op >>
    OBVIOUS
  <2>1. s[1].op \in Tags /\ OpsOf(s)[1] = s[1].op
    <3>1. \A r \in ReplyRec : r.op \in Tags
      BY DEF ReplyRec
    <3>2. s[1] \in ReplyRec /\ 1 \in 1 .. Len(s)
      OBVIOUS
    <3> QED BY <3>1, <3>2 DEF OpsOf
  <2>2. << s[1].op >> \in Seq(Tags) /\ Len(<< s[1].op >>) = 1 /\ << s[1].op >>[1] = s[1].op
    BY <2>1
  <2>3. \A k \in 1 .. Len(OpsOf(s)) : OpsOf(s)[k] = << s[1].op >>[k]
    BY <1>1, <2>1, <2>2
  <2> QED BY <1>1, <2>2, <2>3, SeqEqual
<1> QED BY <1>2, <1>3

(* A step that changes one client changes one entry of the mapping.        *)
LEMMA RpcFrame ==
    ASSUME NEW p \in Peers,
           \A q \in Peers \ {p} :
              peer'[q] = peer[q] /\ req'[q] = req[q] /\ rx'[q] = rx[q]
    PROVE  /\ Conn' = [Conn EXCEPT ![p] = InCall(p)']
           /\ Asked' = [Asked EXCEPT ![p] = AskedBy(p)']
           /\ Answered' = [Answered EXCEPT ![p] = AnsweredTo(p)']
           /\ \A q \in Peers : /\ Conn[q] = InCall(q) /\ Asked[q] = AskedBy(q)
                               /\ Answered[q] = AnsweredTo(q)
<1>1. \A q \in Peers \ {p} : /\ InCall(q)' <=> InCall(q)
                             /\ AskedBy(q)' = AskedBy(q)
                             /\ AnsweredTo(q)' = AnsweredTo(q)
  BY DEF InCall, AskedBy, AnsweredTo, OpsOf
<1>2. Conn' = [Conn EXCEPT ![p] = InCall(p)']
  BY <1>1 DEF Conn, InCall
<1>3. Asked' = [Asked EXCEPT ![p] = AskedBy(p)']
  BY <1>1 DEF Asked
<1>4. Answered' = [Answered EXCEPT ![p] = AnsweredTo(p)']
  BY <1>1 DEF Answered
<1> QED BY <1>2, <1>3, <1>4 DEF Conn, Asked, Answered

(* The actions of RpcService, entry by entry.                              *)
LEMMA RpcSteps ==
    ASSUME NEW p \in Peers,
           \A q \in Peers \ {p} :
              peer'[q] = peer[q] /\ req'[q] = req[q] /\ rx'[q] = rx[q],
           \/ /\ InCall(p)' = InCall(p) /\ AskedBy(p)' = AskedBy(p)
              /\ AnsweredTo(p)' = AnsweredTo(p)
           \/ /\ ~InCall(p) /\ InCall(p)'
              /\ AskedBy(p)' = "HELLO" /\ AnsweredTo(p)' = AnsweredTo(p)
           \/ /\ InCall(p) /\ InCall(p)' /\ AskedBy(p) = "none"
              /\ AskedBy(p)' \in Ops /\ AnsweredTo(p)' = AnsweredTo(p)
           \/ /\ InCall(p) /\ InCall(p)' /\ AskedBy(p)' = AskedBy(p)
              /\ AskedBy(p) # "none" /\ AnsweredTo(p) = <<>>
              /\ AnsweredTo(p)' = << AskedBy(p) >>
           \/ /\ InCall(p) /\ InCall(p)' /\ AnsweredTo(p) = << AskedBy(p) >>
              /\ AskedBy(p)' = "none" /\ AnsweredTo(p)' = <<>>
           \/ /\ InCall(p) /\ ~InCall(p)'
              /\ AskedBy(p)' = "none" /\ AnsweredTo(p)' = <<>>
    PROVE  [Rpc!Next]_(Rpc!rpcVars)
<1>0. /\ Conn' = [Conn EXCEPT ![p] = InCall(p)']
      /\ Asked' = [Asked EXCEPT ![p] = AskedBy(p)']
      /\ Answered' = [Answered EXCEPT ![p] = AnsweredTo(p)']
      /\ Conn[p] = InCall(p) /\ Asked[p] = AskedBy(p) /\ Answered[p] = AnsweredTo(p)
  BY RpcFrame
<1>1. CASE /\ InCall(p)' = InCall(p) /\ AskedBy(p)' = AskedBy(p)
           /\ AnsweredTo(p)' = AnsweredTo(p)
  <2>1. Conn' = Conn /\ Asked' = Asked /\ Answered' = Answered
    BY <1>0, <1>1 DEF Conn, Asked, Answered
  <2> QED BY <2>1 DEF Rpc!rpcVars, Conn, Asked, Answered, AskedBy, AnsweredTo, OpsOf
<1>2. CASE /\ ~InCall(p) /\ InCall(p)'
           /\ AskedBy(p)' = "HELLO" /\ AnsweredTo(p)' = AnsweredTo(p)
  <2>1. Rpc!Open(p)
    BY <1>0, <1>2 DEF Rpc!Open, Conn, Asked, Answered, AskedBy, AnsweredTo, OpsOf
  <2> QED BY <2>1 DEF Rpc!Next
<1>3. CASE /\ InCall(p) /\ InCall(p)' /\ AskedBy(p) = "none"
           /\ AskedBy(p)' \in Ops /\ AnsweredTo(p)' = AnsweredTo(p)
  <2>1. Conn' = Conn /\ Answered' = Answered
    BY <1>0, <1>3 DEF Conn, Answered
  <2>2. PICK k \in Ops : k = AskedBy(p)'
    BY <1>3
  <2>3. Rpc!Ask(p, k)
    BY <1>0, <1>3, <2>1, <2>2 DEF Rpc!Ask, Conn, Asked, Answered, AskedBy, AnsweredTo, OpsOf
  <2> QED BY <2>2, <2>3 DEF Rpc!Next
<1>4. CASE /\ InCall(p) /\ InCall(p)' /\ AskedBy(p)' = AskedBy(p)
           /\ AskedBy(p) # "none" /\ AnsweredTo(p) = <<>>
           /\ AnsweredTo(p)' = << AskedBy(p) >>
  <2>1. Conn' = Conn /\ Asked' = Asked
    BY <1>0, <1>4 DEF Conn, Asked
  <2>2. Rpc!Answer(p)
    BY <1>0, <1>4, <2>1 DEF Rpc!Answer, Conn, Asked, Answered, AskedBy, AnsweredTo, OpsOf
  <2> QED BY <2>2 DEF Rpc!Next
<1>5. CASE /\ InCall(p) /\ InCall(p)' /\ AnsweredTo(p) = << AskedBy(p) >>
           /\ AskedBy(p)' = "none" /\ AnsweredTo(p)' = <<>>
  <2>1. Conn' = Conn
    BY <1>0, <1>5 DEF Conn
  <2>2. Rpc!Return(p)
    BY <1>0, <1>5, <2>1 DEF Rpc!Return, Conn, Asked, Answered, AskedBy, AnsweredTo, OpsOf
  <2> QED BY <2>2 DEF Rpc!Next
<1>6. CASE /\ InCall(p) /\ ~InCall(p)'
           /\ AskedBy(p)' = "none" /\ AnsweredTo(p)' = <<>>
  <2>1. InCall(p)' = FALSE
    BY <1>6 DEF InCall
  <2>2. Conn' = [Conn EXCEPT ![p] = FALSE] /\ Conn[p]
    BY <1>0, <1>6, <2>1
  <2>3. Asked' = [Asked EXCEPT ![p] = "none"]
    BY <1>0, <1>6
  <2>4. Answered' = [Answered EXCEPT ![p] = <<>>]
    BY <1>0, <1>6
  <2>5. Rpc!Leave(p)
    BY <2>2, <2>3, <2>4 DEF Rpc!Leave, Conn, Asked, Answered, AskedBy, AnsweredTo, OpsOf
  <2> QED BY <2>5 DEF Rpc!Next
<1> QED BY <1>1, <1>2, <1>3, <1>4, <1>5, <1>6

(* A step of a client is a step of its own of the service.                 *)
LEMMA RpcClient ==
    ASSUME TypeOK, ConnectionsAgree, CallInv, NEW p \in Peers, Client(p)
    PROVE  [Rpc!Next]_(Rpc!rpcVars)
<1> USE DEF TypeOK, clientVars, daemonVars
<1>0. \A q \in Peers \ {p} : /\ peer'[q] = peer[q] /\ req'[q] = req[q]
                             /\ rx'[q] = rx[q]
  BY ClientFrame
<1>1. /\ PeerCalls(p) /\ rx[p] \in Seq(ReplyRec)
      /\ NoReq.op = "none" /\ Hello.op = "HELLO"
  BY DEF CallInv, NoReq, Hello, Msg
<1>2. CASE Connect(p)
  <2>1. /\ peer[p] = "off" /\ rx[p] = <<>> /\ rx' = rx
        /\ peer'[p] = "greet" /\ req'[p] = Hello
    BY <1>1, <1>2 DEF Connect, PeerCalls
  <2>2. OpsOf(rx[p]) = <<>>
    BY <1>1, <2>1, OpsOfFew
  <2>3. /\ ~InCall(p) /\ InCall(p)' /\ AskedBy(p)' = "HELLO"
        /\ AnsweredTo(p)' = AnsweredTo(p)
    BY <1>1, <2>1, <2>2 DEF InCall, AskedBy, AnsweredTo, OpsOf
  <2> QED BY <1>0, <2>3, RpcSteps
<1>3. ASSUME NEW m \in Requests, Send(p, m) PROVE [Rpc!Next]_(Rpc!rpcVars)
  <2>1. peer[p] = "live" /\ req[p] = NoReq /\ peer' = peer /\ rx' = rx /\ req'[p] = m
    BY <1>3 DEF Send
  <2>2. /\ InCall(p) /\ InCall(p)' /\ AskedBy(p) = "none" /\ AskedBy(p)' \in Ops
        /\ AnsweredTo(p)' = AnsweredTo(p)
    BY <1>1, <2>1, RealRequests DEF InCall, AskedBy, AnsweredTo, OpsOf
  <2> QED BY <1>0, <2>2, RpcSteps
<1>4. CASE SendRest(p) \/ Spawn(p)
  <2>1. peer' = peer /\ rx' = rx /\ req' = req
    BY <1>4 DEF SendRest, Spawn
  <2>2. /\ InCall(p)' = InCall(p) /\ AskedBy(p)' = AskedBy(p)
        /\ AnsweredTo(p)' = AnsweredTo(p)
    BY <2>1 DEF InCall, AskedBy, AnsweredTo, OpsOf
  <2> QED BY <1>0, <2>2, RpcSteps
<1>5. CASE Receive(p)
  <2>1. /\ peer[p] \in {"greet", "live"} /\ rx[p] # <<>> /\ Len(rx[p]) = 1
        /\ rx[p][1].op = req[p].op
    BY <1>1, <1>5 DEF Receive, PeerCalls
  <2>2. rx'[p] = <<>> /\ req'[p] = NoReq /\ peer'[p] \in {"live", "hup", "off"}
    <3>1. rx'[p] = Tail(rx[p])
      BY <1>5 DEF Receive
    <3> QED BY <1>1, <1>5, <2>1, <3>1, TailOfOne DEF Receive
  <2>3. AnsweredTo(p) = << AskedBy(p) >> /\ InCall(p)
    BY <1>1, <2>1, OpsOfFew DEF AnsweredTo, AskedBy, InCall
  <2>4. OpsOf(rx'[p]) = <<>>
    BY <1>1, <2>2, OpsOfFew, EmptySeq
  <2>5. AskedBy(p)' = "none" /\ AnsweredTo(p)' = <<>>
    BY <1>1, <2>2, <2>4 DEF AskedBy, AnsweredTo, OpsOf
  <2> QED BY <1>0, <2>3, <2>5, RpcSteps
<1>6. CASE Disconnect(p) \/ Die(p) \/ SeeEof(p)
  <2>1. peer[p] \in {"greet", "live"} /\ peer'[p] \in {"hup", "off"}
    BY <1>6 DEF Disconnect, Die, SeeEof
  <2>2. /\ InCall(p) /\ ~InCall(p)' /\ AskedBy(p)' = "none"
        /\ AnsweredTo(p)' = <<>>
    BY <2>1 DEF InCall, AskedBy, AnsweredTo
  <2> QED BY <1>0, <2>2, RpcSteps
<1> QED BY <1>2, <1>3, <1>4, <1>5, <1>6 DEF Client

(* An answer to a client that waits for one, or to nobody.                 *)
LEMMA RpcReply ==
    ASSUME TypeOK, NEW p \in Peers, peer' = peer, req' = req, NEW r, Reply(p, r),
           peer[p] # "off",
           peer[p] # "hup" => rx[p] = <<>> /\ r.op = req[p].op /\ r.op # "none"
    PROVE  [Rpc!Next]_(Rpc!rpcVars)
<1>1. \A q \in Peers \ {p} : /\ peer'[q] = peer[q] /\ req'[q] = req[q]
                             /\ rx'[q] = rx[q]
  BY DEF Reply, TypeOK
<1>2. CASE peer[p] = "hup"
  <2>1. /\ InCall(p)' = InCall(p) /\ AskedBy(p)' = AskedBy(p)
        /\ AnsweredTo(p)' = AnsweredTo(p)
    BY <1>2 DEF InCall, AskedBy, AnsweredTo
  <2> QED BY <1>1, <2>1, RpcSteps
<1>3. CASE peer[p] # "hup"
  <2>1. InCall(p) /\ InCall(p)'
    BY <1>3 DEF InCall, TypeOK
  <2>2. OpsOf(rx[p]) = <<>> /\ OpsOf(<< r >>) = << r.op >>
    <3>1. OpsOf(rx[p]) = <<>>
      BY <1>3, OpsOfFew DEF TypeOK
    <3>2. OpsOf(<< r >>) = << r.op >>
      BY DEF OpsOf
    <3> QED BY <3>1, <3>2
  <2>3. rx'[p] = << r >>
    <3>1. rx' = [rx EXCEPT ![p] = Append(rx[p], r)] /\ rx[p] = <<>>
      BY <1>3 DEF Reply
    <3>2. Append(<<>>, r) = << r >>
      OBVIOUS
    <3> QED BY <3>1, <3>2 DEF TypeOK
  <2>4. /\ AskedBy(p)' = AskedBy(p) /\ AskedBy(p) # "none" /\ AskedBy(p) = r.op
    BY <1>3, <2>1 DEF AskedBy
  <2>5. AnsweredTo(p) = <<>> /\ AnsweredTo(p)' = << r.op >>
    BY <2>1, <2>2, <2>3 DEF AnsweredTo, OpsOf
  <2> QED BY <1>1, <2>1, <2>4, <2>5, RpcSteps
<1> QED BY <1>2, <1>3

(* No one that is accepted or refused has been refused before.             *)
LEMMA GreetingNext ==
    ASSUME TypeOK, CallInv, Greeting, [Next]_vars
    PROVE  Greeting'
<1>1. ASSUME NEW p \in Peers, Client(p) PROVE Greeting'
  <2>1. CASE Connect(p)
    BY <2>1 DEF Connect, Greeting, TypeOK
  <2>2. CASE Receive(p)
    <3>1. backlog' = backlog /\ rx[p] # <<>> /\ \A q \in Peers \ {p} : peer'[q] = peer[q]
      BY <2>2 DEF Receive, TypeOK
    <3>2. \A k \in 1 .. Len(backlog) : backlog[k] \in Peers \ {p}
      BY <3>1 DEF CallInv, Untouched, TypeOK
    <3> QED BY <3>1, <3>2 DEF Greeting
  <2>3. CASE SendRest(p) \/ Spawn(p) \/ \E m \in Requests : Send(p, m)
    BY <2>3 DEF SendRest, Spawn, Send, Greeting, clientVars
  <2>4. CASE Disconnect(p) \/ Die(p) \/ SeeEof(p)
    <3>1. backlog' = backlog /\ \A q \in Peers : peer'[q] = peer[q] \/ peer'[q] # "live"
      BY <2>4 DEF Disconnect, Die, SeeEof, TypeOK
    <3>2. \A k \in 1 .. Len(backlog) : backlog[k] \in Peers
      BY DEF TypeOK
    <3> QED BY <3>1, <3>2 DEF Greeting
  <2> QED BY <1>1, <2>1, <2>2, <2>3, <2>4 DEF Client
<1>2. ASSUME NEW i \in Slots, Service(i) PROVE Greeting'
  <2>1. backlog' = backlog /\ \A q \in Peers : peer'[q] = peer[q] \/ peer'[q] = "off"
    <3>1. CASE DropEof(i) \/ HandleBye(i) \/ ChainToDeadPeer(i)
      BY <3>1 DEF DropEof, HandleBye, ChainToDeadPeer, Drop, TypeOK
    <3>2. CASE ~(DropEof(i) \/ HandleBye(i) \/ ChainToDeadPeer(i))
      <4>1. PICK p, m : p = sock[cl[i].fd] /\ m = req[p]
        OBVIOUS
      <4> QED BY <1>2, <3>2, <4>1, TakeFrame
    <3> QED BY <3>1, <3>2
  <2>2. \A k \in 1 .. Len(backlog) : backlog[k] \in Peers
    BY DEF TypeOK
  <2> QED BY <2>1, <2>2 DEF Greeting
<1>3. CASE PollAccept \/ PollRefuse
  <2>1. /\ Len(backlog') = Len(backlog) - 1 /\ Len(backlog) \in Nat
        /\ \A k \in 1 .. Len(backlog') : backlog'[k] = backlog[k + 1]
    <3>1. backlog' = Tail(backlog) /\ backlog # <<>> /\ backlog \in Seq(Peers)
      BY <1>3 DEF PollAccept, PollRefuse, TypeOK
    <3> QED BY <3>1
  <2>2. \A q \in Peers : peer'[q] = peer[q] \/ peer'[q] = "off"
    BY <1>3 DEF PollAccept, PollRefuse, clientVars, TypeOK
  <2>3. \A k \in 1 .. Len(backlog') : k + 1 \in 1 .. Len(backlog)
                                      /\ backlog[k + 1] \in Peers
    BY <2>1 DEF TypeOK
  <2> QED BY <2>1, <2>2, <2>3 DEF Greeting
<1>4. CASE PollNoAccept \/ Dispatch \/ Reap \/ Stop \/ UNCHANGED vars
  BY <1>4 DEF PollNoAccept, Dispatch, Reap, Stop, Greeting, vars, clientVars
<1>5. CASE Teardown
  BY <1>5 DEF Teardown, Greeting
<1> QED BY <1>1, <1>2, <1>3, <1>4, <1>5 DEF Next, Daemon, Slots

(* A handler answers its client, or forgets it.                            *)
LEMMA RpcServe ==
    ASSUME TypeOK, ConnectionsAgree, CallInv, NEW i \in Slots, Service(i)
    PROVE  [Rpc!Next]_(Rpc!rpcVars)
<1>1. CASE DropEof(i) \/ HandleBye(i) \/ ChainToDeadPeer(i)
  <2>1. Drop(i)
    BY <1>1 DEF DropEof, HandleBye, ChainToDeadPeer
  <2>2. PICK p \in Peers : p = sock[cl[i].fd]
    BY <2>1, DropSlots
  <2>3. /\ \A q \in Peers \ {p} : /\ peer'[q] = peer[q] /\ req'[q] = req[q]
                                   /\ rx'[q] = rx[q]
        /\ peer'[p] = "off"
    BY <2>1, <2>2 DEF Drop, TypeOK
  <2>4. ~InCall(p)' /\ InCall(p)' = FALSE /\ AskedBy(p)' = "none" /\ AnsweredTo(p)' = <<>>
    BY <2>3 DEF InCall, AskedBy, AnsweredTo
  <2>5. CASE InCall(p)
    BY <2>3, <2>4, <2>5, RpcSteps
  <2>6. CASE ~InCall(p)
    <3>1. /\ InCall(p)' = InCall(p) /\ AskedBy(p)' = AskedBy(p)
          /\ AnsweredTo(p)' = AnsweredTo(p)
      BY <2>4, <2>6 DEF InCall, AskedBy, AnsweredTo
    <3> QED BY <2>3, <3>1, RpcSteps
  <2> QED BY <2>5, <2>6
<1>2. CASE ~(DropEof(i) \/ HandleBye(i) \/ ChainToDeadPeer(i))
  <2>1. PICK p, m : p = sock[cl[i].fd] /\ m = req[p]
    OBVIOUS
  <2>2. Take(i, p, m) /\ peer' = peer
    BY <1>2, <2>1, TakeFrame
  <2>3. /\ p \in Peers /\ peer[p] # "off" /\ Connected(p)
        /\ peer[p] # "hup" => rx[p] = <<>> /\ req[p] # NoReq
    BY <2>1, <2>2, Taken
  <2>4. /\ req' = req
        /\ rx' = rx \/ \E r : r.op = m.op /\ Reply(p, r)
    BY <1>2, <2>1, ServiceAnswers
  <2>5. CASE rx' = rx
    BY <2>2, <2>3, <2>4, <2>5, RpcSteps DEF InCall, AskedBy, AnsweredTo, OpsOf
  <2>6. ASSUME NEW r, r.op = m.op, Reply(p, r) PROVE [Rpc!Next]_(Rpc!rpcVars)
    <3>1. req[p] # NoReq => req[p].op # "none"
      <4>1. req[p] \in Requests \cup {NoReq, Hello, Bye}
        BY <2>3 DEF TypeOK
      <4>2. Hello.op # "none" /\ Bye.op # "none"
        BY DEF Hello, Bye, Msg
      <4> QED BY <4>1, <4>2, RealRequests
    <3> QED BY <2>1, <2>2, <2>3, <2>4, <2>6, <3>1, RpcReply
  <2> QED BY <2>4, <2>5, <2>6
<1> QED BY <1>1, <1>2

(* Every step of daemon and clients is a step of the service, or none.     *)
LEMMA RpcNext == IInv /\ CallInv /\ Greeting /\ [Next]_vars => [Rpc!Next]_(Rpc!rpcVars)
<1> SUFFICES ASSUME IInv, CallInv, Greeting, [Next]_vars
             PROVE  [Rpc!Next]_(Rpc!rpcVars)
  OBVIOUS
<1> USE DEF IInv
<1>1. ASSUME NEW p \in Peers, Client(p) PROVE [Rpc!Next]_(Rpc!rpcVars)
  BY <1>1, RpcClient
<1>2. ASSUME NEW i \in 1 .. Len(cl), Service(i) PROVE [Rpc!Next]_(Rpc!rpcVars)
  BY <1>2, RpcServe DEF Slots
<1>3. ASSUME peer' = peer, req' = req, rx' = rx PROVE [Rpc!Next]_(Rpc!rpcVars)
  BY <1>3 DEF Rpc!rpcVars, InCall
<1>4. CASE PollNoAccept \/ PollAccept \/ Reap \/ Stop \/ UNCHANGED vars
  BY <1>3, <1>4 DEF PollNoAccept, PollAccept, Reap, Stop, vars, clientVars
<1>5. CASE PollRefuse
  <2>1. PICK p \in Peers : p = Head(backlog)
    BY <1>5 DEF PollRefuse, TypeOK
  <2>2. p = backlog[1] /\ 1 \in 1 .. Len(backlog)
    BY <1>5, <2>1 DEF PollRefuse, TypeOK
  <2>3. peer[p] \notin {"off", "live"} /\ rx[p] = <<>> /\ PeerCalls(p)
    BY <2>2 DEF Greeting, CallInv, Untouched, ConnectionsAgree, BacklogMatchesSockets
  <2>4. CASE peer[p] = "hup"
    <3>1. /\ \A q \in Peers \ {p} : /\ peer'[q] = peer[q] /\ req'[q] = req[q]
                                     /\ rx'[q] = rx[q]
          /\ peer'[p] = "off"
      BY <1>5, <2>1, <2>4 DEF PollRefuse, TypeOK
    <3>2. /\ InCall(p)' = InCall(p) /\ AskedBy(p)' = AskedBy(p)
          /\ AnsweredTo(p)' = AnsweredTo(p)
      BY <2>4, <3>1 DEF InCall, AskedBy, AnsweredTo
    <3> QED BY <3>1, <3>2, RpcSteps
  <2>5. CASE peer[p] # "hup"
    <3>1. peer' = peer /\ req' = req /\ Reply(p, Err(req[p]))
      BY <1>5, <2>1, <2>5 DEF PollRefuse
    <3>2. req[p] = Hello
      BY <2>3, <2>5 DEF PeerCalls, TypeOK
    <3>3. Err(req[p]).op = req[p].op /\ req[p].op # "none"
      BY <3>2 DEF Err, Hello, Msg
    <3> QED BY <2>3, <3>1, <3>3, RpcReply
  <2> QED BY <2>4, <2>5
<1>6. CASE Dispatch
  <2>1. peer' = peer /\ req' = req
    BY <1>6 DEF Dispatch
  <2>2. CASE rx' = rx
    BY <1>3, <2>1, <2>2
  <2>3. ASSUME NEW w \in g_q, NEW r, r.op = "RUN", Reply(sock[w.fd], r)
        PROVE  [Rpc!Next]_(Rpc!rpcVars)
    <3>1. PICK p \in Peers : p = sock[w.fd]
      BY ItemOwner DEF CallInv
    <3>2. req[p].op = "RUN" /\ Owes(p) /\ Connected(p)
      BY <3>1, ItemOwner DEF CallInv, WorkIsOwed, Owes
    <3>3. peer[p] # "off" /\ w.fd \in Fds
      BY <3>1, ItemOwner, InputAssumption
         DEF CallInv, ConnectionsAgree, TableMatchesSockets
    <3>4. peer[p] # "hup" => rx[p] = <<>>
      BY <3>2 DEF CallInv, PeerCalls
    <3> QED BY <2>1, <2>3, <3>1, <3>2, <3>3, <3>4, RpcReply
  <2>4. ASSUME NEW w \in g_q, NEW rc \in {0, -1}, DispatchItem(w, rc)
        PROVE  rx' = rx \/ \E r : r.op = "RUN" /\ Reply(sock[w.fd], r)
    <3>1. Ok(RunTag, w.weight_id).op = "RUN" /\ Err(RunTag).op = "RUN"
      BY DEF Ok, Err, RunTag, Msg
    <3>2. \/ rx' = rx \/ Reply(sock[w.fd], Ok(RunTag, w.weight_id))
          \/ Reply(sock[w.fd], Err(RunTag))
      BY <2>4 DEF DispatchItem
    <3> QED BY <3>1, <3>2
  <2> QED BY <1>6, <2>2, <2>3, <2>4 DEF Dispatch
<1>7. CASE Teardown
  <2>1. ASSUME NEW p \in Peers
        PROVE  /\ InCall(p)' = InCall(p)
               /\ InCall(p) => peer'[p] = peer[p] /\ req'[p] = req[p] /\ rx'[p] = rx[p]
    BY <1>7 DEF Teardown, InCall, TypeOK
  <2>2. UNCHANGED <<Conn, Asked, Answered>>
    <3>1. \A p \in Peers : /\ AskedBy(p)' = AskedBy(p)
                           /\ AnsweredTo(p)' = AnsweredTo(p)
      BY <2>1 DEF AskedBy, AnsweredTo, OpsOf
    <3> QED BY <2>1, <3>1 DEF Conn, Asked, Answered
  <2> QED BY <2>2 DEF Rpc!rpcVars, Conn, Asked, Answered, AskedBy, AnsweredTo, OpsOf
<1> QED BY <1>1, <1>2, <1>4, <1>5, <1>6, <1>7 DEF Next, Daemon

(* Poll loop, slot table, compaction, queue, slicing, death and restart    *)
(* are invisible to a client: for any number of them, each sees RpcService,*)
(* in which a call is answered at most once and by its own reply.          *)
THEOREM OneCallOneReply == Spec => RefinesRpc
<1>1. Init => Rpc!Init /\ Greeting
  <2> SUFFICES ASSUME Init PROVE Rpc!Init /\ Greeting
    OBVIOUS
  <2>1. \A p \in Peers : InCall(p) = FALSE
    BY DEF Init, InCall
  <2>2. Conn = [p \in Peers |-> FALSE]
    BY <2>1 DEF Conn
  <2>3. Asked = [p \in Peers |-> "none"] /\ Answered = [p \in Peers |-> <<>>]
    BY <2>1 DEF Asked, Answered, AskedBy, AnsweredTo
  <2>4. Rpc!Init
    BY <2>2, <2>3 DEF Rpc!Init, Conn, Asked, Answered, AskedBy, AnsweredTo, OpsOf
  <2>5. Greeting
    BY DEF Init, Greeting
  <2> QED BY <2>4, <2>5
<1>2. IInv /\ CallInv /\ Greeting /\ [Next]_vars => Greeting'
  BY GreetingNext DEF IInv
<1> QED
  BY <1>1, <1>2, RpcNext, CallInvariant, PTL DEF Spec, RefinesRpc, Rpc!Spec
=============================================================================
