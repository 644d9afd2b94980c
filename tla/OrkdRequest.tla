----------------------------- MODULE OrkdRequest ----------------------------
(***************************************************************************)
(* One connection between the client library and the daemon, seen as two   *)
(* byte streams and the resources its requests leave in the daemon.        *)
(*                                                                         *)
(* A message is a header, with the number of bytes that follow, and a body *)
(* the header does not describe: a fixed struct, for some requests a list, *)
(* for some a payload whose size is a field of the struct.  Each handler   *)
(* of src/orkd_handlers.c reads its own body, on its own error paths too,  *)
(* and each wrapper of src/orkd_client_ops.c reads its own reply.  Up to   *)
(* two descriptors ride on the header; the handler that gets them closes   *)
(* them, imports them into the NPU's address space, or keeps them.         *)
(*                                                                         *)
(* One unit of a stream stands for one struct, one list or one payload.    *)
(* The client writes a unit at a time and may die between two of them; the *)
(* daemon, which is single-threaded and reads with blocking calls, takes a *)
(* whole message or what there is of it before the end of the stream.      *)
(***************************************************************************)
EXTENDS Integers, Sequences, FiniteSets, FiniteSetsExt

CONSTANTS
    NFD,     \* bound: descriptors the daemon may have open beside its sockets
    NW,      \* ORKD_MAX_WEIGHTS
    NDOM,    \* IOMMU domains, 0 is the shared one
    CEIL     \* ork_iova_ceiling, in buffers of one domain

ASSUME RequestAssumption ==
    NFD \in Nat /\ NW \in Nat /\ NDOM \in Nat \ {0} /\ CEIL \in Nat

VARIABLES
    link,    \* "off", "up", "cut" (the client is gone), "shut" (the daemon closed)
    call,    \* the client's call: what it still has to write
    up,      \* client to daemon
    down,    \* daemon to client
    srv      \* what the daemon holds for the connection

vars == <<link, call, up, down, srv>>

Fds == 1 .. NFD
Weights == 1 .. NW
Doms == 0 .. NDOM - 1
NoFd == 0

(* A header carries the type and, upwards, the number of descriptors,      *)
(* downwards the length; a body unit carries one field of its struct.      *)
Header(t, n) == [hdr |-> TRUE, type |-> t, n |-> n]
Body(t, n) == [hdr |-> FALSE, type |-> t, n |-> n]

(* srv: open descriptors; dma_tab, with the domain of each import; buffers *)
(* accounted per domain and those of them nobody owns; resident weights, each with its    *)
(* domain and the descriptors it owns (none: a native buffer); the queued  *)
(* run; the ring; the domains granted; a close of a descriptor not open;   *)
(* ORK_ADOPT_ZC.                                                           *)
NoWork == [w |-> 0, kind |-> "none", imp |-> {}, rows |-> 0, rc |-> "ok"]
Fresh(z) == [open |-> {}, tab |-> <<>>, iova |-> [d \in Doms |-> 0],
             lost |-> [d \in Doms |-> 0], wt |-> <<>>, q |-> NoWork,
             ring |-> NoFd, owned |-> {}, ebadf |-> FALSE, adopt_zc |-> z]
(* Sizes: rows of a run, units of an output.                              *)
Rows == {1, 2}
NoCall == [op |-> "none", todo |-> <<>>]

Init ==
    /\ link = "off"
    /\ call = NoCall
    /\ up = <<>>
    /\ down = <<>>
    /\ \E z \in BOOLEAN : srv = Fresh(z)

-----------------------------------------------------------------------------
(* The client's wrappers: the units each writes after its header, the      *)
(* descriptors it may send, the reply it takes for success, and the values *)
(* of the field that decides what the daemon does: a domain, a weight, a   *)
(* count.                                                                  *)

Call(body, fds, ok, args) ==
    [body |-> body, fds |-> fds, ok |-> ok, args |-> args]

Ids == 1 .. NW + 1
(* The client checks a count against the limit it was compiled with, which *)
(* the version of the protocol does not cover: 0 is one over the daemon's. *)
Counts == {0, 1}

orkd_connect == Call(1, {0}, "welcome", {0})
orkd_ping == Call(0, {0}, "pong", {0})
orkd_domain_alloc == Call(0, {0}, "dom_ok", {0})
orkd_domain_free == Call(1, {0}, "dom_ok", Doms \ {0})
orkd_ring_setup == Call(1, {1}, "ring_ok", {0})
orkd_pack == Call(2, {0}, "pack_ok", Doms)
orkd_kv_alloc == Call(1, {0}, "kv_alloc_ok", {0})
orkd_kv_append == Call(2, {0}, "kv_append_ok", {0})
orkd_import_i8 == Call(1, {1, 2}, "import_ok", Doms)
orkd_ffn_i8 == Call(2, {0}, "ffn_ok", {0})
orkd_attn_i8 == Call(2, {0}, "attn_ok", {0})
orkd_attn_rr_i8 == Call(3, {0}, "attn_rr_ok", Counts)
orkd_layer_i8 == Call(2, {0}, "layer_ok", {0})
orkd_run == Call(2, {0}, "run_ok", Ids)
orkd_sdp_call == Call(2, {0}, "sdp_ok", {0})
orkd_run_chain_i8 == Call(3, {0}, "chain_ok", Counts)
orkd_submit_seq == Call(3, {0}, "seq_ok", Counts)
orkd_free_weight == Call(1, {0}, "pack_ok", Ids)
orkd_dmabuf_probe == Call(1, {1}, "dmabuf_ok", {0})
orkd_run_i8_zc == Call(1, {1}, "run_ok", Ids)
orkd_run_i8_zc2 == Call(1, {2}, "run_ok", Ids)

Wrapper ==
    [hello |-> orkd_connect, ping |-> orkd_ping, dom_req |-> orkd_domain_alloc,
     dom_rel |-> orkd_domain_free, ring_setup |-> orkd_ring_setup,
     pack |-> orkd_pack, kv_alloc |-> orkd_kv_alloc, kv_append |-> orkd_kv_append,
     import |-> orkd_import_i8, ffn |-> orkd_ffn_i8, attn |-> orkd_attn_i8,
     attn_rr |-> orkd_attn_rr_i8, layer |-> orkd_layer_i8, run |-> orkd_run,
     sdp |-> orkd_sdp_call, chain |-> orkd_run_chain_i8, seq |-> orkd_submit_seq,
     free |-> orkd_free_weight, dmabuf |-> orkd_dmabuf_probe,
     run_zc |-> orkd_run_i8_zc, run_zc2 |-> orkd_run_i8_zc2]

Ops == DOMAIN Wrapper

(* The header goes out with its descriptors in one sendmsg.  A client that *)
(* has its ring asks for no other.                                         *)
Begin(op) ==
    LET c == Wrapper[op] IN
    /\ call = NoCall
    /\ IF op = "hello" THEN link = "off" ELSE link = "up"
    /\ op = "ring_setup" => srv.ring = NoFd
    /\ \E n \in c.fds, a \in c.args :
         /\ up' = Append(up, Header(op, n))
         /\ call' = [op |-> op,
                     todo |-> [i \in 1 .. c.body |-> Body(op, IF i = 1 THEN a ELSE 0)]]
    /\ link' = "up"
    /\ UNCHANGED <<down, srv>>

(* wn: the next part of the body.                                          *)
Write ==
    /\ link = "up"
    /\ call.todo # <<>>
    /\ up' = Append(up, Head(call.todo))
    /\ call' = [call EXCEPT !.todo = Tail(@)]
    /\ UNCHANGED <<link, down, srv>>

(* What a wrapper has taken off the stream when it returns: the output and *)
(* what is left over, or a reply too short for the output, or of another   *)
(* type, drained.  ping and the dma-buf probe read no further than a       *)
(* header of the wrong type, and ring_setup no further than the handle.    *)
Taken(op, reply) ==
    LET len == reply[1].n IN
    IF reply[1].type # Wrapper[op].ok
    THEN IF op \in {"ping", "dmabuf"} THEN 1 ELSE 1 + len
    ELSE IF op = "ring_setup" THEN 2 ELSE 1 + len

Receive ==
    /\ link \in {"up", "shut"}
    /\ call # NoCall /\ call.todo = <<>>
    /\ down # <<>>
    /\ down' = SubSeq(down, Taken(call.op, down) + 1, Len(down))
    /\ call' = NoCall
    /\ UNCHANGED <<link, up, srv>>

(* The daemon has closed the connection: a write or a read fails.          *)
Fail ==
    /\ link = "shut"
    /\ call.todo # <<>> \/ down = <<>>
    /\ link' = "off"
    /\ call' = NoCall
    /\ down' = <<>>
    /\ UNCHANGED <<up, srv>>

(* orkd_disconnect, at the end of a call.                                  *)
Disconnect ==
    /\ link = "up" /\ call = NoCall
    /\ up' = Append(up, Header("bye", 0))
    /\ link' = "cut"
    /\ down' = <<>>
    /\ UNCHANGED <<call, srv>>

(* The client's process ends, wherever it is.                              *)
Die ==
    /\ link = "up"
    /\ link' = "cut"
    /\ call' = NoCall
    /\ down' = <<>>
    /\ UNCHANGED <<up, srv>>

-----------------------------------------------------------------------------
(* The daemon's buffers.                                                   *)

close(s, F) ==
    [s EXCEPT !.open = @ \ F, !.ebadf = @ \/ ~ F \ {NoFd} \subseteq s.open]

(* MEM_CREATE in a domain, native or of an import.  It is refused over the *)
(* ceiling and may fail; an address that does not fit in 32 bits is        *)
(* refused after the mapping is made, which stays.                         *)
orki_bimport_fd(s, d) ==
    {[s |-> s, ok |-> FALSE]} \cup
    IF s.iova[d] >= CEIL THEN {}
    ELSE {[s |-> [s EXCEPT !.iova[d] = @ + 1], ok |-> TRUE],
          [s |-> [s EXCEPT !.iova[d] = @ + 1, !.lost[d] = @ + 1], ok |-> FALSE]}

With(fn, x, v) == [y \in DOMAIN fn \cup {x} |-> IF y = x THEN v ELSE fn[y]]
Without(fn, S) == [x \in DOMAIN fn \ S |-> fn[x]]

(* Into pack_domain, which is 0 whenever a zero-copy run is handled.  The  *)
(* descriptor belongs to the table only after success.                     *)
ork_dma_import_fd(s, f) ==
    {IF m.ok THEN [m EXCEPT !.s.tab = With(@, f, 0)] ELSE m : m \in orki_bimport_fd(s, 0)}

Less(a, n) == IF a > n THEN a - n ELSE 0
ork_iova_release(s, d, n) == [s EXCEPT !.iova[d] = Less(@, n)]
Released(s, N) == [s EXCEPT !.iova = [d \in Doms |-> Less(@[d], N[d])]]

(* bdestroy of the imports F: unmapped, released, closed.                  *)
ork_dma_free(s, F) ==
    LET N == [d \in Doms |-> Cardinality({f \in F : s.tab[f] = d})]
    IN  close([Released(s, N) EXCEPT !.tab = Without(@, F)], F)

(* The buffers of a weight: one per descriptor it owns, or a native one;   *)
(* how many the weights I have in a domain.                                *)
Buffers(w) == IF w.own = {} THEN {NoFd} ELSE w.own
Held(s, I, d) ==
    Cardinality({b \in I \X (Fds \cup {NoFd}) :
                   s.wt[b[1]].dom = d /\ b[2] \in Buffers(s.wt[b[1]])})

(* Of each of the weights I; a descriptor two of them own is closed twice. *)
FreeWeights(s, I) ==
    LET F == UNION {s.wt[i].own : i \in I}
        twice == \E i, j \in I : i # j /\ s.wt[i].own \cap s.wt[j].own # {}
    IN  [close(s, F) EXCEPT !.wt = Without(@, I), !.ebadf = @ \/ twice]

(* Mutant: the bytes of the weights stay accounted.                        *)
ork_mm_free_NoRelease(s, I) == FreeWeights(s, I)
ork_mm_free(s, I) == Released(FreeWeights(s, I), [d \in Doms |-> Held(s, I, d)])

(* A weight is registered under the first free number if the table has     *)
(* room.  A number stands for an id: the ids themselves are in OrkdTables. *)
Room(s) == Weights \ DOMAIN s.wt
Register(s, d, own) == [s EXCEPT !.wt = With(@, Min(Room(s)), [dom |-> d, own |-> own])]

wk_free(s) == [ork_dma_free(s, s.q.imp) EXCEPT !.q = NoWork]

client_reclaim(s) ==
    close([ork_mm_free(s, DOMAIN s.wt) EXCEPT !.ring = NoFd], {s.ring} \ {NoFd})

(* The drop path of the loop: the queued run, the client's memory, its     *)
(* domains.                                                                *)
drop(s) == [client_reclaim(wk_free(s)) EXCEPT !.owned = {}]

-----------------------------------------------------------------------------
(* The handlers.  An outcome is what a handler leaves behind: the daemon's *)
(* state, the units taken off the stream, the reply, and whether it asks   *)
(* for the connection to be dropped.                                       *)

Done(s, eat, reply) == [s |-> s, eat |-> eat, reply |-> reply, drop |-> FALSE]
Drop(s, eat, reply) == [s |-> s, eat |-> eat, reply |-> reply, drop |-> TRUE]

Data(n) == [i \in 1 .. n |-> Body("data", 0)]
Reply(type, rc, n) == <<Header(type, 1 + n), Body(rc, 0)>> \o Data(n)
Error == Reply("error", "fail", 0)
Refused(type) == Reply(type, "fail", 0)

(* A request that runs on the NPU inside its handler: refused with its     *)
(* payload drained (too big, no memory, bad dimensions, unknown weight),   *)
(* run and failed, or run and answered with the output.                    *)
Inline(s, eat, type, sizes) ==
    {Done(s, eat, Error), Done(s, eat, Refused(type))} \cup
    {Done(s, eat, Reply(type, "ok", n)) : n \in sizes}

orkd_hello(s, f, a) == {Done(s, 2, Reply("welcome", "ok", 0))}
orkd_pong(s, f, a) == {Done(s, 1, <<Header("pong", 0)>>)}

orkd_handle_ffn(s, f, a) == Inline(s, 3, "ffn_ok", {1})
orkd_handle_attn(s, f, a) == Inline(s, 3, "attn_ok", {1})
orkd_handle_layer(s, f, a) == Inline(s, 3, "layer_ok", {1})
orkd_handle_sdp(s, f, a) == Inline(s, 3, "sdp_ok", {1})

(* A count over the limit ends the connection, with the list unread.       *)
(* Mutant: it is answered and the connection goes on.                      *)
orkd_handle_attn_rr_Resync(s, f, a) ==
    IF a = 0 THEN {Done(s, 2, Error)} ELSE Inline(s, 4, "attn_rr_ok", {1})
orkd_handle_attn_rr(s, f, a) ==
    IF a = 0 THEN {Drop(s, 2, Error)} ELSE Inline(s, 4, "attn_rr_ok", {1})

(* Here the count, over the limit or not, gives the length of the list,    *)
(* which is drained.                                                       *)
orkd_handle_chain(s, f, a) ==
    IF a = 0 THEN {Done(s, 4, Error)} ELSE Inline(s, 4, "chain_ok", Rows)
orkd_handle_seq(s, f, a) ==
    IF a = 0 THEN {Done(s, 4, Error)} ELSE Inline(s, 4, "seq_ok", {1})

(* A buffer for a new weight, which the table takes or which is freed.     *)
orkd_handle_pack(s, f, d) ==
    {Done(s, 3, Error)} \cup
    IF d > 0 /\ d \notin s.owned THEN {}
    ELSE {IF ~ m.ok THEN Done(m.s, 3, Refused("pack_ok"))
          ELSE IF Room(s) = {} THEN Done(ork_iova_release(m.s, d, 1), 3, Refused("pack_ok"))
          ELSE Done(Register(m.s, d, {}), 3, Reply("pack_ok", "ok", 0)) :
             m \in orki_bimport_fd(s, d)}

(* Two weights, or neither: what was packed of a pair that is refused is   *)
(* freed without the context, and its buffers stay mapped.                 *)
ork_w_free(s, n) == [s EXCEPT !.lost[0] = @ + n]

orkd_handle_kv_alloc(s, f, a) ==
    UNION {{LET packed == Cardinality({x \in {1, 2} : <<m, n>>[x].ok}) IN
            IF packed = 2 /\ Cardinality(Room(s)) >= 2
            THEN Done(Register(Register(n.s, 0, {}), 0, {}), 2, Reply("kv_alloc_ok", "ok", 0))
            ELSE Done(ork_w_free(n.s, packed), 2, Refused("kv_alloc_ok")) :
              n \in orki_bimport_fd(m.s, 0)} :
             m \in orki_bimport_fd(s, 0)}

orkd_handle_kv_append(s, f, a) == Inline(s, 3, "kv_append_ok", {0})

orkd_handle_free(s, f, i) ==
    {IF i \in DOMAIN s.wt THEN Done(ork_mm_free(s, {i}), 2, Reply("pack_ok", "ok", 0))
     ELSE Done(s, 2, Refused("pack_ok"))}

(* The descriptors are always consumed: by default the tiles are copied    *)
(* into a native buffer; with ORK_ADOPT_ZC each is imported and stays with *)
(* the weight, the second only if its import succeeds.                     *)
(* Mutant: a failed import of the second tile leaves its descriptor.       *)
adopt_imported_KeepBf(s, F, bb, d) ==
    IF ~ s.adopt_zc
    THEN {[s |-> close(m.s, F), own |-> IF m.ok THEN {} ELSE {NoFd}] :
            m \in orki_bimport_fd(s, d)}
    ELSE UNION {IF ~ m.ok THEN {[s |-> close(m.s, F), own |-> {NoFd}]}
                ELSE {[s |-> n.s, own |-> IF n.ok THEN F ELSE {bb}] :
                        n \in IF F = {bb} THEN {m} ELSE orki_bimport_fd(m.s, d)} :
                  m \in orki_bimport_fd(s, d)}
ork_i8_mm_adopt_imported(s, F, bb, d) ==
    IF ~ s.adopt_zc
    THEN {[s |-> close(m.s, F), own |-> IF m.ok THEN {} ELSE {NoFd}] :
            m \in orki_bimport_fd(s, d)}
    ELSE UNION {IF ~ m.ok THEN {[s |-> close(m.s, F), own |-> {NoFd}]}
                ELSE {IF n.ok THEN [s |-> n.s, own |-> F]
                      ELSE [s |-> close(n.s, F \ {bb}), own |-> {bb}] :
                        n \in IF F = {bb} THEN {m} ELSE orki_bimport_fd(m.s, d)} :
                  m \in orki_bimport_fd(s, d)}

orkd_handle_import(s, f, d) ==
    LET F == {f[1], f[2]} \ {NoFd} IN
    {Done(close(s, F), 2, Error)} \cup
    IF f[1] = NoFd \/ (d > 0 /\ d \notin s.owned) THEN {}
    ELSE {IF w.own = {NoFd} THEN Done(w.s, 2, Refused("import_ok"))
          ELSE IF Room(s) = {}
          THEN Done(close(ork_iova_release(w.s, d, Cardinality(Buffers(w))), w.own), 2, Refused("import_ok"))
          ELSE Done(Register(w.s, d, w.own), 2, Reply("import_ok", "ok", 0)) :
             w \in ork_i8_mm_adopt_imported(s, F, f[1], d)}

Queue(s, i, kind, imp) ==
    {[s EXCEPT !.q = [w |-> i, kind |-> kind, imp |-> imp, rows |-> r, rc |-> "ok"]] : r \in Rows}

(* Mutant: a run of an unknown weight is drained and forgotten.            *)
orkd_handle_run_Silent(s, f, i) ==
    IF i \notin DOMAIN s.wt THEN {Done(s, 3, <<>>)}
    ELSE {Done(t, 3, <<>>) : t \in Queue(s, i, "run", {})}
orkd_handle_run(s, f, i) ==
    {Done(s, 3, Error)} \cup
    IF i \notin DOMAIN s.wt THEN {} ELSE {Done(t, 3, <<>>) : t \in Queue(s, i, "run", {})}

(* An import that failed is the handler's to close; one that succeeded is  *)
(* the table's.                                                            *)
orkd_handle_run_zc(s, f, i) ==
    IF i \notin DOMAIN s.wt \/ f[1] = NoFd
    THEN {Done(close(s, {f[1]} \ {NoFd}), 2, Error)}
    ELSE UNION {IF ~ m.ok THEN {Done(close(m.s, {f[1]}), 2, Error)}
                ELSE {Done(ork_dma_free(m.s, {f[1]}), 2, Error)} \cup
                     {Done(t, 2, <<>>) : t \in Queue(m.s, i, "run_zc", {f[1]})} :
                  m \in ork_dma_import_fd(s, f[1])}

orkd_handle_run_zc2(s, f, i) ==
    LET F == {f[1], f[2]} \ {NoFd} IN
    IF i \notin DOMAIN s.wt \/ NoFd \in {f[1], f[2]}
    THEN {Done(close(s, F), 2, Error)}
    ELSE UNION {IF ~ m.ok THEN {Done(close(m.s, F), 2, Error)}
                ELSE UNION {IF ~ n.ok
                            THEN {Done(close(ork_dma_free(n.s, {f[1]}), {f[2]}), 2, Error)}
                            ELSE {Done(ork_dma_free(n.s, F), 2, Error)} \cup
                                 {Done(t, 2, <<>>) : t \in Queue(n.s, i, "run_zc2", F)} :
                              n \in ork_dma_import_fd(m.s, f[2])} :
                  m \in ork_dma_import_fd(s, f[1])}

(* Imported or mapped, compared, and given back.                           *)
orkd_handle_dmabuf(s, f, a) ==
    LET Answers(t) == {Done(t, 2, Reply("dmabuf_ok", rc, 0)) : rc \in {"ok", "fail"}} IN
    IF f[1] = NoFd THEN {Done(s, 2, Refused("dmabuf_ok"))}
    ELSE UNION {Answers(IF m.ok THEN ork_dma_free(m.s, {f[1]}) ELSE close(m.s, {f[1]})) :
                  m \in ork_dma_import_fd(s, f[1])}

(* The first ring that maps and has the right layout is kept.              *)
orkd_handle_ring_setup(s, f, a) ==
    {Done(close(s, {f[1]} \ {NoFd}), 2, Refused("ring_ok"))} \cup
    IF f[1] = NoFd \/ s.ring # NoFd THEN {}
    ELSE {Done([s EXCEPT !.ring = f[1]], 2, Reply("ring_ok", "ok", 0))}

(* The pool is shared with other clients: it may be empty.                 *)
orkd_handle_dom_req(s, f, a) ==
    {Done(s, 1, Refused("dom_ok"))} \cup
    {Done([s EXCEPT !.owned = @ \cup {d}], 1, Reply("dom_ok", "ok", 0)) :
       d \in (Doms \ {0}) \ s.owned}
orkd_handle_dom_rel(s, f, d) ==
    {IF d \in s.owned THEN Done([s EXCEPT !.owned = @ \ {d}], 2, Reply("dom_ok", "ok", 0))
     ELSE Done(s, 2, Refused("dom_ok"))}

-----------------------------------------------------------------------------
(* The daemon's loop.                                                      *)

(* recvmsg installs the descriptors of a header in the lowest free places, *)
(* as many as there are.                                                   *)
Lowest(S) == IF S = {} THEN NoFd ELSE Min(S)
orkd_recv_hdr_fds(s, n) ==
    LET a == IF n >= 1 THEN Lowest(Fds \ s.open) ELSE NoFd
        b == IF n = 2 THEN Lowest(Fds \ (s.open \cup {a})) ELSE NoFd
    IN  <<a, b>>

Hangup(s) ==
    /\ srv' = drop(s)
    /\ up' = <<>>
    /\ link' = IF link = "cut" THEN "off" ELSE "shut"

Send(reply) == down' = IF link = "cut" THEN <<>> ELSE down \o reply

(* The message at the head of the stream: its descriptors, which are open  *)
(* before any of its body is read, and the field of its struct.            *)
HdrFds == orkd_recv_hdr_fds(srv, Head(up).n)
Passed == {HdrFds[1], HdrFds[2]} \ {NoFd}
Opened == [srv EXCEPT !.open = @ \cup Passed]
Field == up[2].n

(* One message: its descriptors are taken, its handler reads the body and  *)
(* replies.  A body the client did not finish ends the connection.         *)
Handle(op, body, results) ==
    /\ link \in {"up", "cut"}
    /\ up # <<>> /\ Head(up).type = op
    /\ \/ /\ Len(up) >= 1 + Min({1, body})
          /\ \E r \in results :
               /\ Len(up) >= r.eat
               /\ Send(r.reply)
               /\ IF r.drop THEN Hangup(r.s)
                  ELSE /\ srv' = r.s
                       /\ up' = SubSeq(up, r.eat + 1, Len(up))
                       /\ UNCHANGED link
       \/ /\ link = "cut" /\ Len(up) < 1 + body
          /\ Hangup(close(Opened, Passed))
          /\ UNCHANGED down
    /\ UNCHANGED call

Hello == Handle("hello", 1, orkd_hello(Opened, HdrFds, Field))
Ping == Handle("ping", 0, orkd_pong(Opened, HdrFds, 0))
Pack == Handle("pack", 2, orkd_handle_pack(Opened, HdrFds, Field))
KvAlloc == Handle("kv_alloc", 1, orkd_handle_kv_alloc(Opened, HdrFds, Field))
KvAppend == Handle("kv_append", 2, orkd_handle_kv_append(Opened, HdrFds, Field))
ImportWeight == Handle("import", 1, orkd_handle_import(Opened, HdrFds, Field))
Ffn == Handle("ffn", 2, orkd_handle_ffn(Opened, HdrFds, Field))
Attn == Handle("attn", 2, orkd_handle_attn(Opened, HdrFds, Field))
AttnRr == Handle("attn_rr", 3, orkd_handle_attn_rr(Opened, HdrFds, Field))
Layer == Handle("layer", 2, orkd_handle_layer(Opened, HdrFds, Field))
Run == Handle("run", 2, orkd_handle_run(Opened, HdrFds, Field))
FreeWeight == Handle("free", 1, orkd_handle_free(Opened, HdrFds, Field))
Sdp == Handle("sdp", 2, orkd_handle_sdp(Opened, HdrFds, Field))
Chain == Handle("chain", 3, orkd_handle_chain(Opened, HdrFds, Field))
Seq_ == Handle("seq", 3, orkd_handle_seq(Opened, HdrFds, Field))
RunZc == Handle("run_zc", 1, orkd_handle_run_zc(Opened, HdrFds, Field))
RunZc2 == Handle("run_zc2", 1, orkd_handle_run_zc2(Opened, HdrFds, Field))
DmabufProbe == Handle("dmabuf", 1, orkd_handle_dmabuf(Opened, HdrFds, Field))
RingSetup == Handle("ring_setup", 1, orkd_handle_ring_setup(Opened, HdrFds, Field))
DomReq == Handle("dom_req", 0, orkd_handle_dom_req(Opened, HdrFds, 0))
DomRel == Handle("dom_rel", 1, orkd_handle_dom_rel(Opened, HdrFds, Field))

(* ORKD_BYE, or the end of the stream.                                     *)
Bye ==
    /\ link = "cut"
    /\ up # <<>> => Head(up).type = "bye"
    /\ Hangup(srv)
    /\ UNCHANGED <<call, down>>

(* One quantum of the queued run: the whole of it, or a part when other    *)
(* clients have work queued.                                               *)
dispatch_one ==
    /\ srv.q # NoWork
    /\ LET q == srv.q
           Ended(s, reply) == srv' = wk_free(s) /\ Send(reply)
       IN  IF q.w \notin DOMAIN srv.wt
           THEN Ended(srv, Error)
           ELSE \E n \in 1 .. q.rows, rc \in {"ok", "fail"}, got \in Rows :
                  LET res == IF q.rc = "ok" THEN rc ELSE q.rc
                      size == IF q.kind = "run_zc2" \/ res # "ok" THEN 0 ELSE got
                  IN  IF n < q.rows
                      THEN /\ srv' = [srv EXCEPT !.q.rows = @ - n, !.q.rc = res]
                           /\ UNCHANGED down
                      ELSE Ended(srv, Reply("run_ok", res, size))
    /\ UNCHANGED <<link, call, up>>

Client == (\E op \in Ops : Begin(op)) \/ Write \/ Receive \/ Fail \/ Disconnect \/ Die

Daemon ==
    \/ Hello \/ Ping \/ Bye
    \/ Pack \/ KvAlloc \/ KvAppend \/ ImportWeight \/ FreeWeight
    \/ Ffn \/ Attn \/ AttnRr \/ Layer \/ Sdp \/ Chain \/ Seq_
    \/ Run \/ RunZc \/ RunZc2 \/ dispatch_one
    \/ DmabufProbe \/ RingSetup \/ DomReq \/ DomRel

Next == Client \/ Daemon

Spec == Init /\ [][Next]_vars

-----------------------------------------------------------------------------
(* Properties.                                                             *)

(* The shape of the state.                                                 *)
TypeOK ==
    /\ link \in {"off", "up", "cut", "shut"}
    /\ call.op \in Ops \cup {"none"}
    /\ srv.open \subseteq Fds
    /\ DOMAIN srv.tab \subseteq Fds /\ DOMAIN srv.wt \subseteq Weights
    /\ \A i \in DOMAIN srv.wt : srv.wt[i].dom \in Doms /\ srv.wt[i].own \subseteq Fds
    /\ srv.ring \in Fds \cup {NoFd}
    /\ srv.owned \subseteq Doms \ {0}

(* Neither side ever parses a body as a header: what is next on each       *)
(* stream is a header; when the client is between two calls both streams   *)
(* are empty, so every handler has read its whole request and every        *)
(* wrapper its whole reply, on the error paths too; and a reply the client *)
(* is about to read is the one to its call.  (With the type invariant.)    *)
InSync ==
    /\ TypeOK
    /\ up # <<>> => Head(up).hdr
    /\ down # <<>> =>
         /\ Head(down).hdr
         /\ call # NoCall
         /\ Head(down).type \in {Wrapper[call.op].ok, "error"}
         /\ Len(down) = 1 + Head(down).n
    /\ call = NoCall /\ link = "up" => up = <<>>

(* A call the client has written and the daemon has taken is answered: if  *)
(* nothing of it is on either stream, its run is queued.                   *)
NoLostCall ==
    link = "up" /\ call # NoCall /\ call.todo = <<>> /\ up = <<>> /\ down = <<>>
        => srv.q # NoWork

(* Every descriptor a client passed has exactly one owner, is closed once, *)
(* and none outlives the connection: the open ones are those of the        *)
(* imports a queued run holds, of the weights that own theirs and of the   *)
(* ring, and no two of these share one.                                    *)
FdsExact ==
    LET OfWeight(i) == srv.wt[i].own
        Owned == UNION {OfWeight(i) : i \in DOMAIN srv.wt}
        Ring == {srv.ring} \ {NoFd}
    IN  /\ srv.open = DOMAIN srv.tab \cup Owned \cup Ring
        /\ DOMAIN srv.tab = srv.q.imp
        /\ DOMAIN srv.tab \cap (Owned \cup Ring) = {} /\ Owned \cap Ring = {}
        /\ \A i, j \in DOMAIN srv.wt : i # j => OfWeight(i) \cap OfWeight(j) = {}
        /\ ~ srv.ebadf
        /\ link \in {"off", "shut"} => srv.open = {} /\ srv.wt = <<>> /\ srv.q = NoWork

(* The bytes accounted to an IOMMU domain are those of the buffers mapped  *)
(* in it, and stay under the ceiling: no path of a failed or repeated      *)
(* request drifts the guard of MEM_CREATE.                                 *)
IovaExact ==
    \A d \in Doms :
        /\ srv.iova[d] <= CEIL
        /\ srv.iova[d] = srv.lost[d]
             + Cardinality({f \in DOMAIN srv.tab : srv.tab[f] = d})
             + Held(srv, DOMAIN srv.wt, d)
=============================================================================
