----------------------------- MODULE RpcService -----------------------------
(***************************************************************************)
(* What orkd promises each client process, whatever the others do: a call  *)
(* made on an open connection is answered at most once, by a reply to that *)
(* very call, and nothing is ever delivered to a client that did not ask.  *)
(* (The contract of the synchronous calls declared in src/orkd_client.h.)  *)
(***************************************************************************)
EXTENDS Sequences

CONSTANTS Peers,     \* client processes
          Kinds      \* request kinds, "HELLO" and "none" not among them

VARIABLES conn,      \* conn[p]: p holds an open connection
          asked,     \* asked[p]: the kind of the call p is blocked in
          answers    \* answers[p]: tags of the replies p has not read yet

rpcVars == <<conn, asked, answers>>

Init == /\ conn = [p \in Peers |-> FALSE]
        /\ asked = [p \in Peers |-> "none"]
        /\ answers = [p \in Peers |-> <<>>]

Open(p) == /\ ~conn[p]
           /\ conn' = [conn EXCEPT ![p] = TRUE]
           /\ asked' = [asked EXCEPT ![p] = "HELLO"]
           /\ UNCHANGED answers

Ask(p, k) == /\ conn[p] /\ asked[p] = "none"
             /\ asked' = [asked EXCEPT ![p] = k]
             /\ UNCHANGED <<conn, answers>>

Answer(p) == /\ conn[p] /\ asked[p] # "none" /\ answers[p] = <<>>
             /\ answers' = [answers EXCEPT ![p] = <<asked[p]>>]
             /\ UNCHANGED <<conn, asked>>

(* The call returns; a refused HELLO also closes the connection.           *)
Return(p) == /\ conn[p] /\ answers[p] = <<asked[p]>>
             /\ asked' = [asked EXCEPT ![p] = "none"]
             /\ answers' = [answers EXCEPT ![p] = <<>>]
             /\ \/ UNCHANGED conn
                \/ asked[p] = "HELLO" /\ conn' = [conn EXCEPT ![p] = FALSE]

(* BYE, death, or the daemon is gone.                                      *)
Leave(p) == /\ conn[p]
            /\ conn' = [conn EXCEPT ![p] = FALSE]
            /\ asked' = [asked EXCEPT ![p] = "none"]
            /\ answers' = [answers EXCEPT ![p] = <<>>]

Next == \E p \in Peers : \/ Open(p) \/ Answer(p) \/ Return(p) \/ Leave(p)
                         \/ \E k \in Kinds : Ask(p, k)

Spec == Init /\ [][Next]_rpcVars
=============================================================================
