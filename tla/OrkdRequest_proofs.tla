------------------------- MODULE OrkdRequest_proofs -------------------------
(***************************************************************************)
(* Proofs about OrkdRequest, for any number of descriptors, weights and    *)
(* domains and any ceiling: the two streams of a connection stay in step,  *)
(* a call that was taken is answered or queued, every descriptor has one   *)
(* owner, and the account of every domain is what is mapped in it.         *)
(*                                                                         *)
(* What a handler owes is stated once (Outcome) and proved of each handler *)
(* on its own, path by path, with the state and the descriptors as         *)
(* parameters; that a state in which it is handed a message is one it was  *)
(* proved for, and that what it leaves keeps the invariant, is proved once *)
(* for all of them (HandleKeeps).                                          *)
(***************************************************************************)
EXTENDS OrkdRequest, FiniteSetTheorems, SequenceTheorems, WellFoundedInduction, TLAPS

-----------------------------------------------------------------------------
(* The inductive invariant.                                                *)

Names == Ops \cup {Wrapper[op].ok : op \in Ops} \cup {"error", "ok", "fail", "data", "bye"}
Unit == [hdr : BOOLEAN, type : Names, n : Nat]
Work == [w : Nat, kind : {"none", "run", "run_zc", "run_zc2"}, imp : SUBSET Fds,
         rows : Nat, rc : {"ok", "fail"}]
Weight == [dom : Doms, own : SUBSET Fds]
Tables == UNION {[F -> Doms] : F \in SUBSET Fds}
Residents == UNION {[I -> Weight] : I \in SUBSET Weights}
Server == [open : SUBSET Fds, tab : Tables, iova : [Doms -> Nat], lost : [Doms -> Nat],
           wt : Residents, q : Work, ring : Fds \cup {NoFd}, owned : SUBSET (Doms \ {0}),
           ebadf : BOOLEAN, adopt_zc : BOOLEAN]

(* The descriptors of the daemon have one owner each: an import, a weight, *)
(* the ring, or the handler that has been passed P.                        *)
OwnOf(s) == UNION {s.wt[i].own : i \in DOMAIN s.wt}
RingOf(s) == {s.ring} \ {NoFd}
Mine(s, P) ==
    /\ ~ s.ebadf
    /\ s.open = DOMAIN s.tab \cup OwnOf(s) \cup RingOf(s) \cup P
    /\ DOMAIN s.tab \cap (OwnOf(s) \cup RingOf(s)) = {} /\ OwnOf(s) \cap RingOf(s) = {}
    /\ P \cap (DOMAIN s.tab \cup OwnOf(s) \cup RingOf(s)) = {}
    /\ \A i, j \in DOMAIN s.wt : i # j => s.wt[i].own \cap s.wt[j].own = {}

(* The account of the domains, with k buffers in domain d that are mapped  *)
(* and not registered yet.                                                 *)
Imports(s, c) == Cardinality({f \in DOMAIN s.tab : s.tab[f] = c})
Account(s, d, k) ==
    \A c \in Doms :
        /\ s.iova[c] <= CEIL
        /\ s.iova[c] = s.lost[c] + Imports(s, c) + Held(s, DOMAIN s.wt, c) + (IF c = d THEN k ELSE 0)

Sound(s, P, T, d, k) == /\ s \in Server /\ Mine(s, P) /\ Account(s, d, k)
                        /\ DOMAIN s.tab = T

-----------------------------------------------------------------------------
(* A close of descriptors that are open touches nothing else.              *)
LEMMA CloseIs ==
    ASSUME NEW s \in Server, ~ s.ebadf, NEW F, F \subseteq s.open
    PROVE  close(s, F) = [s EXCEPT !.open = s.open \ F]
<1>1. s.ebadf = FALSE
  BY DEF Server
<1> QED BY <1>1 DEF close, Server

(* The account is of the mappings only.                                    *)
LEMMA SameAccount ==
    ASSUME NEW s, NEW t, NEW d, NEW k, Account(s, d, k),
           t.tab = s.tab, t.wt = s.wt, t.iova = s.iova, t.lost = s.lost
    PROVE  Account(t, d, k)
<1>1. \A c : Imports(t, c) = Imports(s, c) /\ Held(t, DOMAIN t.wt, c) = Held(s, DOMAIN s.wt, c)
  BY DEF Imports, Held
<1> QED BY <1>1 DEF Account

(* A handler closes of what it was passed; the rest is still its own.      *)
LEMMA CloseKeeps ==
    ASSUME NEW s, NEW P, NEW T, NEW d, NEW k, Sound(s, P, T, d, k), NEW F, F \subseteq P,
           NEW t, t = close(s, F)
    PROVE  Sound(t, P \ F, T, d, k) /\ t = [s EXCEPT !.open = s.open \ F]
<1>1. F \subseteq s.open /\ s.ebadf = FALSE /\ s \in Server
  BY DEF Sound, Mine, Server
<1>2. t = [s EXCEPT !.open = s.open \ F]
  BY <1>1 DEF close, Server
<1>3. t \in Server /\ t.open = s.open \ F
  BY <1>1, <1>2 DEF Server
<1>4. t.tab = s.tab /\ t.iova = s.iova /\ t.lost = s.lost /\ t.wt = s.wt /\ t.ring = s.ring /\ t.ebadf = s.ebadf
  BY <1>1, <1>2 DEF Server
<1>5. OwnOf(t) = OwnOf(s) /\ RingOf(t) = RingOf(s)
  BY <1>4 DEF OwnOf, RingOf
<1>6. Mine(t, P \ F)
  BY <1>3, <1>4, <1>5 DEF Sound, Mine
<1>7. Account(t, d, k)
  BY <1>4 DEF Sound, Account, Imports, Held
<1> QED BY <1>2, <1>3, <1>4, <1>6, <1>7 DEF Sound

(* The sets of the model are finite, and no descriptor is NoFd.            *)
LEMMA Finite ==
    /\ RequestAssumption => IsFiniteSet(Fds) /\ IsFiniteSet(Weights) /\ IsFiniteSet(Doms)
    /\ RequestAssumption => 0 \in Doms /\ NoFd \notin Fds
<1>1. RequestAssumption => NFD \in Int /\ NW \in Int /\ NDOM - 1 \in Int /\ 0 <= NDOM - 1
  BY DEF RequestAssumption
<1>2. RequestAssumption => IsFiniteSet(Fds) /\ IsFiniteSet(Weights) /\ IsFiniteSet(Doms)
  BY <1>1, FS_Interval DEF Fds, Weights, Doms
<1> QED BY <1>1, <1>2 DEF Fds, Doms, NoFd

(* Nothing but the account of the domains changes.                         *)
SameHeld(s, t) ==
    /\ t.open = s.open /\ t.tab = s.tab /\ t.wt = s.wt /\ t.ring = s.ring /\ t.ebadf = s.ebadf
    /\ t.q = s.q /\ t.owned = s.owned /\ t.adopt_zc = s.adopt_zc

(* Who owns what does not depend on the account.                           *)
LEMMA HeldStays ==
    ASSUME NEW s, NEW t, SameHeld(s, t), NEW P, Mine(s, P)
    PROVE  Mine(t, P) /\ DOMAIN t.tab = DOMAIN s.tab
           /\ \A c : Imports(t, c) = Imports(s, c) /\ Held(t, DOMAIN t.wt, c) = Held(s, DOMAIN s.wt, c)
<1>1. OwnOf(t) = OwnOf(s) /\ RingOf(t) = RingOf(s)
  BY DEF OwnOf, RingOf, SameHeld
<1>2. Mine(t, P)
  BY <1>1 DEF SameHeld, Mine
<1> QED BY <1>2 DEF SameHeld, Imports, Held

(* What is counted is finite.                                              *)
LEMMA CountsTyped ==
    ASSUME RequestAssumption, NEW s \in Server, NEW c
    PROVE  /\ DOMAIN s.tab \subseteq Fds /\ DOMAIN s.wt \subseteq Weights
           /\ IsFiniteSet({f \in DOMAIN s.tab : s.tab[f] = c}) /\ Imports(s, c) \in Nat
           /\ \A I \in SUBSET Weights : Held(s, I, c) \in Nat
<1>1. DOMAIN s.tab \subseteq Fds /\ DOMAIN s.wt \subseteq Weights
  BY DEF Server, Tables, Residents
<1>2. IsFiniteSet(Fds) /\ IsFiniteSet(Weights) /\ IsFiniteSet(Fds \cup {NoFd})
  BY Finite, FS_AddElement
<1>3. IsFiniteSet({f \in DOMAIN s.tab : s.tab[f] = c})
  BY <1>1, <1>2, FS_Subset
<1>4. ASSUME NEW I \in SUBSET Weights PROVE Held(s, I, c) \in Nat
  <2>1. PICK B : B = {b \in I \X (Fds \cup {NoFd}) : s.wt[b[1]].dom = c /\ b[2] \in Buffers(s.wt[b[1]])}
    OBVIOUS
  <2>2. IsFiniteSet(I \X (Fds \cup {NoFd})) /\ B \subseteq I \X (Fds \cup {NoFd})
    BY <1>2, <2>1, FS_Subset, FS_Product
  <2>3. IsFiniteSet(B)
    BY <2>2, FS_Subset
  <2> QED BY <2>1, <2>3, FS_CardinalityType DEF Held
<1> QED BY <1>1, <1>3, <1>4, FS_CardinalityType DEF Imports

(* A buffer more, or none; or one that stays for ever.                     *)
Mapped(s, P, T, d, k, m) ==
    /\ m.ok \in BOOLEAN /\ m = [s |-> m.s, ok |-> m.ok] /\ SameHeld(s, m.s)
    /\ m.ok => Sound(m.s, P, T, d, k + 1)
    /\ ~ m.ok => Sound(m.s, P, T, d, k)

(* MEM_CREATE, refused, made, or made and lost.                            *)
LEMMA ImportKeeps ==
    ASSUME RequestAssumption,
           NEW s, NEW P, NEW T, NEW d \in Doms, NEW k \in Nat, Sound(s, P, T, d, k),
           NEW m \in orki_bimport_fd(s, d)
    PROVE  Mapped(s, P, T, d, k, m)
<1>1. s \in Server /\ s.iova \in [Doms -> Nat] /\ s.lost \in [Doms -> Nat] /\ CEIL \in Nat
  BY DEF Sound, Server, RequestAssumption
<1>2. CASE m = [s |-> s, ok |-> FALSE]
  BY <1>2 DEF Mapped, SameHeld
<1>3. ASSUME NEW lost \in {0, 1}, s.iova[d] < CEIL,
             NEW t, t = [s EXCEPT !.iova[d] = @ + 1, !.lost[d] = @ + lost]
      PROVE  SameHeld(s, t) /\ Sound(t, P, T, d, k + 1 - lost)
  <2>1. /\ t \in Server /\ SameHeld(s, t)
        /\ t.iova = [s.iova EXCEPT ![d] = @ + 1] /\ t.lost = [s.lost EXCEPT ![d] = @ + lost]
    <3>1. PICK i2 : i2 = [s.iova EXCEPT ![d] = @ + 1]
      OBVIOUS
    <3>2. PICK l2 : l2 = [s.lost EXCEPT ![d] = @ + lost]
      OBVIOUS
    <3>3. i2 \in [Doms -> Nat] /\ l2 \in [Doms -> Nat]
      BY <1>1, <3>1, <3>2
    <3>4. t = [s EXCEPT !.iova = i2, !.lost = l2]
      BY <1>1, <1>3, <3>1, <3>2 DEF Server
    <3> QED BY <1>1, <3>1, <3>2, <3>3, <3>4 DEF Server, SameHeld
  <2>2. Mine(t, P) /\ DOMAIN t.tab = DOMAIN s.tab
    BY <2>1, HeldStays DEF Sound
  <2>3. ASSUME NEW c \in Doms
        PROVE  /\ t.iova[c] <= CEIL
               /\ t.iova[c] = t.lost[c] + Imports(t, c) + Held(t, DOMAIN t.wt, c)
                                + (IF c = d THEN k + 1 - lost ELSE 0)
    <3>1. PICK a : a = Imports(s, c)
      OBVIOUS
    <3>2. PICK b : b = Held(s, DOMAIN s.wt, c)
      OBVIOUS
    <3>0. a \in Nat /\ b \in Nat
      BY <1>1, <3>1, <3>2, CountsTyped
    <3>3. Imports(t, c) = a /\ Held(t, DOMAIN t.wt, c) = b
      BY <2>1, <3>1, <3>2, HeldStays DEF Sound
    <3>4. s.iova[c] \in Nat /\ s.lost[c] \in Nat /\ s.iova[c] <= CEIL
          /\ s.iova[c] = s.lost[c] + a + b + (IF c = d THEN k ELSE 0)
      BY <1>1, <3>1, <3>2 DEF Sound, Account
    <3>5. CASE c = d
      <4>1. t.iova[c] = s.iova[c] + 1 /\ t.lost[c] = s.lost[c] + lost
        BY <1>1, <2>1, <3>5
      <4> QED BY <1>1, <1>3, <3>0, <3>3, <3>4, <3>5, <4>1
    <3>6. CASE c # d
      <4>1. t.iova[c] = s.iova[c] /\ t.lost[c] = s.lost[c]
        BY <1>1, <2>1, <3>6
      <4> QED BY <3>3, <3>4, <3>6, <4>1
    <3> QED BY <3>5, <3>6
  <2>4. Account(t, d, k + 1 - lost)
    BY <2>3 DEF Account
  <2> QED BY <2>1, <2>2, <2>4 DEF Sound
<1>4. CASE s.iova[d] < CEIL /\ m = [s |-> [s EXCEPT !.iova[d] = @ + 1], ok |-> TRUE]
  <2>1. PICK t : t = m.s
    OBVIOUS
  <2>2. t = [s EXCEPT !.iova[d] = @ + 1, !.lost[d] = @ + 0]
    <3>1. PICK l2 : l2 = [s.lost EXCEPT ![d] = @ + 0]
      OBVIOUS
    <3>2. l2 = s.lost
      BY <1>1, <3>1
    <3>3. PICK i2 : i2 = [s.iova EXCEPT ![d] = @ + 1]
      OBVIOUS
    <3>4. t = [s EXCEPT !.iova = i2, !.lost = l2]
      BY <1>1, <1>4, <2>1, <3>2, <3>3 DEF Server
    <3> QED BY <1>1, <3>1, <3>3, <3>4 DEF Server
  <2>3. SameHeld(s, t) /\ Sound(t, P, T, d, k + 1 - 0)
    BY <1>3, <1>4, <2>2
  <2>4. k + 1 - 0 = k + 1
    OBVIOUS
  <2> QED BY <1>4, <2>1, <2>3, <2>4 DEF Mapped
<1>5. CASE s.iova[d] < CEIL
           /\ m = [s |-> [s EXCEPT !.iova[d] = @ + 1, !.lost[d] = @ + 1], ok |-> FALSE]
  <2>1. PICK t : t = m.s
    OBVIOUS
  <2>2. SameHeld(s, t) /\ Sound(t, P, T, d, k + 1 - 1)
    BY <1>3, <1>5, <2>1
  <2>3. k + 1 - 1 = k
    OBVIOUS
  <2> QED BY <1>5, <2>1, <2>2, <2>3 DEF Mapped
<1> QED BY <1>1, <1>2, <1>4, <1>5 DEF orki_bimport_fd

(* A finite set is a part of it and the rest.                              *)
LEMMA Parts ==
    ASSUME NEW S, IsFiniteSet(S), NEW A, A \subseteq S
    PROVE  /\ Cardinality(A) \in Nat /\ Cardinality(S \ A) \in Nat
           /\ Cardinality(S) = Cardinality(A) + Cardinality(S \ A)
<1>1. IsFiniteSet(A) /\ IsFiniteSet(S \ A)
  BY FS_Subset
<1>2. S \cap A = A
  OBVIOUS
<1>3. Cardinality(A) \in Nat /\ Cardinality(S \ A) \in Nat /\ Cardinality(S) \in Nat
  BY <1>1, FS_CardinalityType
<1>4. Cardinality(S \ A) = Cardinality(S) - Cardinality(S \cap A)
  BY FS_Difference
<1>5. Cardinality(S \ A) = Cardinality(S) - Cardinality(A)
  BY <1>2, <1>4
<1> QED BY <1>3, <1>5

(* Nothing but the descriptors, the imports, the weights and their account *)
(* changes.                                                                *)
SameRest(s, t) == t.q = s.q /\ t.owned = s.owned /\ t.ring = s.ring

(* The table takes an import: the descriptor and the buffer with it.       *)
LEMMA AddImport ==
    ASSUME RequestAssumption, NEW s, NEW P, NEW T, Sound(s, P, T, 0, 1), NEW f \in P, f \in Fds,
           NEW t, t = [s EXCEPT !.tab = With(s.tab, f, 0)]
    PROVE  Sound(t, P \ {f}, T \cup {f}, 0, 0) /\ SameRest(s, t) /\ t.wt = s.wt
<1>1. s \in Server /\ Mine(s, P) /\ DOMAIN s.tab = T /\ T \subseteq Fds /\ s.tab \in [T -> Doms]
  BY DEF Sound, Server, Tables
<1>2. PICK tab : tab = With(s.tab, f, 0)
  OBVIOUS
<1>3. f \notin T
  BY <1>1 DEF Mine
<1>4. tab \in [T \cup {f} -> Doms] /\ tab[f] = 0 /\ \A g \in T : tab[g] = s.tab[g]
  BY <1>1, <1>2, <1>3, Finite DEF With
<1>5. T \cup {f} \in SUBSET Fds /\ tab \in Tables
  <2>1. T \cup {f} \in SUBSET Fds
    BY <1>1
  <2> QED BY <1>4, <2>1 DEF Tables
<1>6. t \in Server /\ t.tab = tab /\ t.wt = s.wt /\ SameRest(s, t)
      /\ t.open = s.open /\ t.ebadf = s.ebadf /\ t.iova = s.iova /\ t.lost = s.lost
  BY <1>1, <1>2, <1>5 DEF Server, SameRest
<1>7. OwnOf(t) = OwnOf(s) /\ RingOf(t) = RingOf(s)
  BY <1>6 DEF OwnOf, RingOf, SameRest
<1>8. DOMAIN tab = T \cup {f}
  BY <1>4
<1>9. Mine(t, P \ {f})
  BY <1>1, <1>3, <1>6, <1>7, <1>8 DEF Mine
<1>10. ASSUME NEW c \in Doms
       PROVE  /\ t.iova[c] <= CEIL
              /\ t.iova[c] = t.lost[c] + Imports(t, c) + Held(t, DOMAIN t.wt, c) + (IF c = 0 THEN 0 ELSE 0)
  <2>1. PICK S : S = {g \in T : s.tab[g] = c}
    OBVIOUS
  <2>2. PICK S2 : S2 = {g \in T \cup {f} : tab[g] = c}
    OBVIOUS
  <2>3. PICK h : h = Held(s, DOMAIN s.wt, c)
    OBVIOUS
  <2>4. h = Held(t, DOMAIN t.wt, c)
    BY <1>6, <2>3 DEF Held
  <2>5. IsFiniteSet(S) /\ Cardinality(S) \in Nat /\ Cardinality(S) = Imports(s, c) /\ h \in Nat
    BY <1>1, <2>1, <2>3, CountsTyped, FS_CardinalityType DEF Imports
  <2>6. Imports(t, c) = Cardinality(S2)
    BY <1>6, <1>8, <2>2 DEF Imports
  <2>7. /\ s.iova[c] <= CEIL /\ s.iova[c] \in Nat /\ s.lost[c] \in Nat
        /\ s.iova[c] = s.lost[c] + Cardinality(S) + h + (IF c = 0 THEN 1 ELSE 0)
    BY <1>1, <2>3, <2>5 DEF Sound, Account, Server
  <2>8. CASE c = 0
    <3>1. S2 = S \cup {f} /\ f \notin S
      BY <1>3, <1>4, <2>1, <2>2, <2>8
    <3>2. Cardinality(S2) = Cardinality(S) + 1
      BY <2>5, <3>1, FS_AddElement
    <3> QED BY <1>6, <2>4, <2>5, <2>6, <2>7, <2>8, <3>2
  <2>9. CASE c # 0
    <3>1. S2 = S
      BY <1>3, <1>4, <2>1, <2>2, <2>9
    <3> QED BY <1>6, <2>4, <2>5, <2>6, <2>7, <2>9, <3>1
  <2> QED BY <2>8, <2>9
<1>11. Account(t, 0, 0)
  BY <1>10 DEF Account
<1> QED BY <1>6, <1>8, <1>9, <1>11 DEF Sound

(* A descriptor the table took, or one the handler still has to close.     *)
LEMMA DmaImportKeeps ==
    ASSUME RequestAssumption, NEW s, NEW P, NEW T, Sound(s, P, T, 0, 0),
           NEW f \in P, f \in Fds, NEW m \in ork_dma_import_fd(s, f)
    PROVE  /\ m.ok \in BOOLEAN
           /\ m.ok => Sound(m.s, P \ {f}, T \cup {f}, 0, 0)
           /\ ~ m.ok => Sound(m.s, P, T, 0, 0)
           /\ SameRest(s, m.s) /\ m.s.wt = s.wt
<1>1. PICK n \in orki_bimport_fd(s, 0) : m = IF n.ok THEN [n EXCEPT !.s.tab = With(@, f, 0)] ELSE n
  BY DEF ork_dma_import_fd
<1>2. 0 \in Doms /\ 0 \in Nat
  BY Finite
<1>3. Mapped(s, P, T, 0, 0, n)
  BY <1>2, ImportKeeps
<1>4. SameRest(s, n.s) /\ n.s.wt = s.wt /\ n.s.tab = s.tab /\ n = [s |-> n.s, ok |-> n.ok] /\ n.ok \in BOOLEAN
  BY <1>3 DEF Mapped, SameHeld, SameRest
<1>5. CASE ~ n.ok
  BY <1>1, <1>3, <1>4, <1>5 DEF Mapped
<1>6. CASE n.ok
  <2>1. PICK u : u = n.s
    OBVIOUS
  <2>2. Sound(u, P, T, 0, 1)
    BY <1>3, <1>6, <2>1 DEF Mapped
  <2>3. PICK t : t = [u EXCEPT !.tab = With(u.tab, f, 0)]
    OBVIOUS
  <2>4. m = [s |-> t, ok |-> TRUE]
    BY <1>1, <1>4, <1>6, <2>1, <2>3
  <2>5. Sound(t, P \ {f}, T \cup {f}, 0, 0) /\ SameRest(u, t) /\ t.wt = u.wt
    BY <2>2, <2>3, AddImport
  <2> QED BY <1>4, <2>1, <2>4, <2>5 DEF SameRest
<1> QED BY <1>4, <1>5, <1>6

(* A release that matches what was reserved does not saturate.             *)
LEMMA LessIs == ASSUME NEW a \in Nat, NEW n \in Nat, n <= a PROVE Less(a, n) = a - n /\ a - n \in Nat
BY DEF Less

(* Imports are given back: unmapped, released, closed.                     *)
LEMMA FreeImports ==
    ASSUME RequestAssumption, NEW s, NEW P, NEW T, NEW d, NEW k \in Nat, Sound(s, P, T, d, k),
           NEW F, F \subseteq T, NEW t, t = ork_dma_free(s, F)
    PROVE  Sound(t, P, T \ F, d, k) /\ SameRest(s, t) /\ t.wt = s.wt
<1>1. s \in Server /\ Mine(s, P) /\ DOMAIN s.tab = T /\ T \subseteq Fds /\ s.tab \in [T -> Doms]
      /\ s.iova \in [Doms -> Nat] /\ s.lost \in [Doms -> Nat] /\ s.ebadf = FALSE
  BY DEF Sound, Server, Tables, Mine
<1>2. PICK N : N = [c \in Doms |-> Cardinality({f \in F : s.tab[f] = c})]
  OBVIOUS
<1>3. PICK iova : iova = [c \in Doms |-> Less(s.iova[c], N[c])]
  OBVIOUS
<1>4. PICK tab : tab = Without(s.tab, F)
  OBVIOUS
<1>5. F \subseteq s.open
  BY <1>1 DEF Mine
<1>7. tab \in [T \ F -> Doms] /\ \A g \in T \ F : tab[g] = s.tab[g]
  BY <1>1, <1>4 DEF Without
<1>8. tab \in Tables
  <2>1. T \ F \in SUBSET Fds
    BY <1>1
  <2> QED BY <1>7, <2>1 DEF Tables
<1>9. ASSUME NEW c \in Doms
      PROVE  /\ iova[c] \in Nat /\ iova[c] <= CEIL
             /\ iova[c] = s.lost[c] + Cardinality({f \in T \ F : tab[f] = c}) + Held(s, DOMAIN s.wt, c)
                           + (IF c = d THEN k ELSE 0)
  <2>1. PICK S : S = {f \in T : s.tab[f] = c}
    OBVIOUS
  <2>2. PICK A : A = {f \in F : s.tab[f] = c}
    OBVIOUS
  <2>3. PICK h : h = Held(s, DOMAIN s.wt, c)
    OBVIOUS
  <2>4. IsFiniteSet(S) /\ Cardinality(S) = Imports(s, c) /\ h \in Nat
    BY <1>1, <2>1, <2>3, CountsTyped DEF Imports
  <2>5. A \subseteq S /\ {f \in T \ F : tab[f] = c} = S \ A
    BY <1>7, <2>1, <2>2
  <2>6. PICK a : a = Cardinality(A)
    OBVIOUS
  <2>7. PICK b : b = Cardinality(S \ A)
    OBVIOUS
  <2>8. a \in Nat /\ b \in Nat /\ Imports(s, c) = a + b
    BY <2>4, <2>5, <2>6, <2>7, Parts
  <2>9. /\ s.iova[c] <= CEIL /\ s.iova[c] \in Nat /\ s.lost[c] \in Nat /\ CEIL \in Nat
        /\ s.iova[c] = s.lost[c] + (a + b) + h + (IF c = d THEN k ELSE 0)
    BY <1>1, <2>3, <2>8 DEF Sound, Account, RequestAssumption
  <2>10. iova[c] = Less(s.iova[c], a)
    BY <1>2, <1>3, <2>2, <2>6
  <2>11. a <= s.iova[c]
    BY <2>4, <2>8, <2>9
  <2>12. iova[c] = s.iova[c] - a /\ iova[c] \in Nat
    BY <2>8, <2>9, <2>10, <2>11, LessIs
  <2>13. iova[c] = s.lost[c] + b + h + (IF c = d THEN k ELSE 0)
    BY <2>4, <2>8, <2>9, <2>12
  <2>14. iova[c] <= CEIL
    BY <2>8, <2>9, <2>12
  <2> QED BY <2>3, <2>5, <2>7, <2>12, <2>13, <2>14
<1>10. iova \in [Doms -> Nat]
  BY <1>3, <1>9
<1>6. t = [s EXCEPT !.iova = iova, !.tab = tab, !.open = s.open \ F]
  <2>1. Released(s, N) = [s EXCEPT !.iova = iova]
    BY <1>1, <1>3 DEF Released, Server
  <2>2. t = close([Released(s, N) EXCEPT !.tab = Without(@, F)], F)
    BY <1>2 DEF ork_dma_free
  <2>3. PICK u : u = [Released(s, N) EXCEPT !.tab = Without(@, F)]
    OBVIOUS
  <2>4. u = [s EXCEPT !.iova = iova, !.tab = tab]
    BY <1>1, <1>4, <2>1, <2>3 DEF Server
  <2>5. u \in Server /\ ~ u.ebadf /\ u.open = s.open
    BY <1>1, <1>8, <1>10, <2>4 DEF Server
  <2>6. close(u, F) = [u EXCEPT !.open = s.open \ F]
    BY <1>5, <2>5, CloseIs
  <2> QED BY <1>1, <1>8, <1>10, <2>2, <2>3, <2>4, <2>6 DEF Server
<1>11. t \in Server /\ t.tab = tab /\ t.wt = s.wt /\ SameRest(s, t) /\ t.iova = iova /\ t.lost = s.lost
       /\ t.open = s.open \ F /\ t.ebadf = FALSE
  BY <1>1, <1>6, <1>8, <1>10 DEF Server, SameRest
<1>12. OwnOf(t) = OwnOf(s) /\ RingOf(t) = RingOf(s) /\ DOMAIN tab = T \ F
  BY <1>7, <1>11 DEF OwnOf, RingOf, SameRest
<1>13. Mine(t, P)
  BY <1>1, <1>11, <1>12 DEF Mine
<1>14. Account(t, d, k)
  <2>1. \A c : Held(t, DOMAIN t.wt, c) = Held(s, DOMAIN s.wt, c)
    BY <1>11 DEF Held
  <2>2. \A c : Imports(t, c) = Cardinality({f \in T \ F : tab[f] = c})
    BY <1>11, <1>12 DEF Imports
  <2> QED BY <1>9, <1>11, <2>1, <2>2 DEF Account
<1> QED BY <1>11, <1>12, <1>13, <1>14 DEF Sound

(* A buffer that was mapped and never registered.                          *)
LEMMA ReleaseKeeps ==
    ASSUME RequestAssumption, NEW s, NEW P, NEW T, NEW d \in Doms, NEW k \in Nat, Sound(s, P, T, d, k),
           NEW n \in Nat, n <= k, NEW t, t = ork_iova_release(s, d, n)
    PROVE  Sound(t, P, T, d, k - n) /\ SameHeld(s, t)
<1>1. s \in Server /\ s.iova \in [Doms -> Nat] /\ s.lost \in [Doms -> Nat] /\ Mine(s, P)
      /\ DOMAIN s.tab = T
  BY DEF Sound, Server
<1>2. PICK iova : iova = [s.iova EXCEPT ![d] = Less(@, n)]
  OBVIOUS
<1>3. t = [s EXCEPT !.iova = iova]
  BY <1>1, <1>2 DEF ork_iova_release, Server
<1>4. ASSUME NEW c \in Doms
      PROVE  /\ iova[c] \in Nat /\ iova[c] <= CEIL
             /\ iova[c] = s.lost[c] + Imports(s, c) + Held(s, DOMAIN s.wt, c) + (IF c = d THEN k - n ELSE 0)
  <2>1. PICK a : a = Imports(s, c)
    OBVIOUS
  <2>2. PICK h : h = Held(s, DOMAIN s.wt, c)
    OBVIOUS
  <2>3. a \in Nat /\ h \in Nat
    BY <1>1, <2>1, <2>2, CountsTyped
  <2>4. /\ s.iova[c] <= CEIL /\ s.iova[c] \in Nat /\ s.lost[c] \in Nat /\ CEIL \in Nat
        /\ s.iova[c] = s.lost[c] + a + h + (IF c = d THEN k ELSE 0)
    BY <1>1, <2>1, <2>2 DEF Sound, Account, RequestAssumption
  <2>5. CASE c = d
    <3>1. n <= s.iova[c] /\ iova[c] = Less(s.iova[c], n)
      BY <1>1, <1>2, <2>3, <2>4, <2>5
    <3>2. iova[c] = s.iova[c] - n /\ iova[c] \in Nat
      BY <2>4, <3>1, LessIs
    <3> QED BY <2>1, <2>2, <2>3, <2>4, <2>5, <3>2
  <2>6. CASE c # d
    <3>1. iova[c] = s.iova[c]
      BY <1>1, <1>2, <2>6
    <3> QED BY <2>1, <2>2, <2>4, <2>6, <3>1
  <2> QED BY <2>5, <2>6
<1>5. iova \in [Doms -> Nat]
  BY <1>1, <1>2, <1>4
<1>6. t \in Server /\ SameHeld(s, t) /\ t.iova = iova /\ t.lost = s.lost
  BY <1>1, <1>3, <1>5 DEF Server, SameHeld
<1>7. Account(t, d, k - n)
  BY <1>1, <1>4, <1>6, HeldStays DEF Account
<1> QED BY <1>1, <1>6, <1>7, HeldStays DEF Sound

-----------------------------------------------------------------------------
(* Weights.                                                                *)

HeldSet(s, I, c) == {b \in I \X (Fds \cup {NoFd}) : s.wt[b[1]].dom = c /\ b[2] \in Buffers(s.wt[b[1]])}

(* The buffers of a set of weights are those of a part and of the rest.    *)
LEMMA HeldParts ==
    ASSUME RequestAssumption, NEW s, NEW c, NEW D \in SUBSET Weights, NEW I, I \subseteq D
    PROVE  /\ Held(s, I, c) \in Nat /\ Held(s, D \ I, c) \in Nat
           /\ Held(s, D, c) = Held(s, I, c) + Held(s, D \ I, c)
<1>1. IsFiniteSet(D) /\ IsFiniteSet(Fds \cup {NoFd})
  BY Finite, FS_Subset, FS_AddElement
<1>2. IsFiniteSet(D \X (Fds \cup {NoFd}))
  BY <1>1, FS_Product
<1>3. PICK S : S = HeldSet(s, D, c)
  OBVIOUS
<1>4. PICK A : A = HeldSet(s, I, c)
  OBVIOUS
<1>5. IsFiniteSet(S)
  BY <1>2, <1>3, FS_Subset DEF HeldSet
<1>6. A \subseteq S /\ S \ A = HeldSet(s, D \ I, c)
  BY <1>3, <1>4 DEF HeldSet
<1>7. Cardinality(A) \in Nat /\ Cardinality(S \ A) \in Nat /\ Cardinality(S) = Cardinality(A) + Cardinality(S \ A)
  BY <1>5, <1>6, Parts
<1> QED BY <1>3, <1>4, <1>6, <1>7 DEF Held, HeldSet

(* They depend on these weights only.                                      *)
LEMMA HeldAgree ==
    ASSUME NEW s, NEW t, NEW c, NEW I, \A i \in I : s.wt[i] = t.wt[i]
    PROVE  Held(s, I, c) = Held(t, I, c)
<1>1. HeldSet(s, I, c) = HeldSet(t, I, c)
  BY DEF HeldSet
<1> QED BY <1>1 DEF Held, HeldSet

(* The buffers of one weight are all in its domain.                        *)
LEMMA HeldOne ==
    ASSUME RequestAssumption, NEW s, NEW c, NEW i, s.wt[i].own \subseteq Fds
    PROVE  /\ Cardinality(Buffers(s.wt[i])) \in Nat
           /\ Held(s, {i}, c) = (IF s.wt[i].dom = c THEN Cardinality(Buffers(s.wt[i])) ELSE 0)
<1>1. PICK B : B = Buffers(s.wt[i])
  OBVIOUS
<1>2. B \subseteq Fds \cup {NoFd}
  BY <1>1 DEF Buffers
<1>3. IsFiniteSet(B) /\ IsFiniteSet({i}) /\ Cardinality({i}) = 1
  BY <1>2, Finite, FS_Subset, FS_AddElement, FS_Singleton
<1>4. Cardinality({i} \X B) = Cardinality({i}) * Cardinality(B) /\ Cardinality(B) \in Nat
  BY <1>3, FS_Product, FS_CardinalityType
<1>5. Cardinality({i} \X B) = Cardinality(B)
  <2>1. PICK n \in Nat : n = Cardinality(B)
    BY <1>4
  <2>2. 1 * n = n
    OBVIOUS
  <2> QED BY <1>3, <1>4, <2>1, <2>2
<1>6. CASE s.wt[i].dom = c
  <2>1. HeldSet(s, {i}, c) = {i} \X B
    BY <1>1, <1>2, <1>6 DEF HeldSet
  <2> QED BY <1>1, <1>4, <1>5, <1>6, <2>1 DEF Held, HeldSet
<1>7. CASE s.wt[i].dom # c
  <2>1. HeldSet(s, {i}, c) = {}
    BY <1>7 DEF HeldSet
  <2> QED BY <1>1, <1>4, <1>7, <2>1, FS_EmptySet DEF Held, HeldSet
<1> QED BY <1>6, <1>7

(* Min of naturals is one of them and the least.                           *)
LEMMA MinIn ==
    ASSUME NEW S, S \subseteq Nat, S # {}
    PROVE  Min(S) \in S /\ \A y \in S : Min(S) <= y
<1>1. PICK x \in S : \A y \in S : ~ (<<y, x>> \in OpToRel(<, Nat))
  <2>1. \E x \in S : \A y \in S : ~ (<<y, x>> \in OpToRel(<, Nat))
    BY NatLessThanWellFounded, WFMin
  <2> QED BY <2>1
<1>2. ASSUME NEW y \in S PROVE x <= y
  <2>1. ~ (<<y, x>> \in OpToRel(<, Nat))
    BY <1>1
  <2>2. y \in Nat /\ x \in Nat
    OBVIOUS
  <2>3. ~ (y < x)
    BY <2>1, <2>2 DEF OpToRel
  <2> QED BY <2>2, <2>3
<1> QED BY <1>2 DEF Min

(* The weight takes its descriptors from the handler, and its buffers from *)
(* those that are only mapped.                                             *)
(* One number of the table less is free.                                   *)
Fills(s, t) == \E i \in Room(s) : Room(t) = Room(s) \ {i}

(* A weight takes what it owns from the handler, and its buffers with it.  *)
LEMMA RegisterKeeps ==
    ASSUME RequestAssumption, NEW s, NEW P, NEW T, NEW d \in Doms, NEW k \in Nat, Sound(s, P, T, d, k),
           NEW own, own \subseteq P, own \subseteq Fds,
           NEW n, n = Cardinality(IF own = {} THEN {NoFd} ELSE own), n <= k,
           Room(s) # {}, NEW t, t = Register(s, d, own)
    PROVE  Sound(t, P \ own, T, d, k - n) /\ SameRest(s, t) /\ Fills(s, t)
<1>1. s \in Server /\ Mine(s, P) /\ DOMAIN s.tab = T /\ s.ebadf = FALSE
      /\ s.iova \in [Doms -> Nat] /\ s.lost \in [Doms -> Nat]
  BY DEF Sound, Server, Mine
<1>2. PICK D \in SUBSET Weights : s.wt \in [D -> Weight]
  BY <1>1 DEF Server, Residents
<1>3. DOMAIN s.wt = D
  BY <1>2
<1>4. PICK i : i = Min(Room(s))
  OBVIOUS
<1>5. i \in Weights /\ i \notin D /\ i \in Room(s)
  <2>1. Room(s) \subseteq Nat
    BY DEF Room, Weights
  <2> QED BY <1>3, <1>4, <2>1, MinIn DEF Room
<1>6. PICK w : w = [dom |-> d, own |-> own]
  OBVIOUS
<1>7. PICK wt : wt = With(s.wt, i, w)
  OBVIOUS
<1>8. w \in Weight /\ w.dom = d /\ w.own = own
  BY <1>6 DEF Weight
<1>9. wt \in [D \cup {i} -> Weight] /\ wt[i] = w /\ \A j \in D : wt[j] = s.wt[j]
  BY <1>2, <1>3, <1>5, <1>7, <1>8 DEF With
<1>10. wt \in Residents
  <2>1. D \cup {i} \in SUBSET Weights
    BY <1>5
  <2> QED BY <1>9, <2>1 DEF Residents
<1>11. t = [s EXCEPT !.wt = wt]
  BY <1>1, <1>4, <1>6, <1>7 DEF Register, Server
<1>12. /\ t \in Server /\ t.wt = wt /\ t.tab = s.tab /\ SameRest(s, t) /\ t.open = s.open
       /\ t.ebadf = s.ebadf /\ t.iova = s.iova /\ t.lost = s.lost
  BY <1>1, <1>10, <1>11 DEF Server, SameRest
<1>13. DOMAIN t.wt = D \cup {i}
  BY <1>9, <1>12
<1>14. OwnOf(t) = OwnOf(s) \cup own /\ RingOf(t) = RingOf(s)
  BY <1>3, <1>8, <1>9, <1>12, <1>13 DEF OwnOf, RingOf, SameRest
<1>15. \A j \in D : s.wt[j].own \subseteq OwnOf(s)
  BY <1>3 DEF OwnOf
<1>16. \A j, l \in DOMAIN t.wt : j # l => t.wt[j].own \cap t.wt[l].own = {}
  <2>1. \A j, l \in D : j # l => t.wt[j].own \cap t.wt[l].own = {}
    BY <1>1, <1>3, <1>9, <1>12 DEF Mine
  <2>2. \A j \in D : t.wt[j].own \cap own = {}
    BY <1>1, <1>9, <1>12, <1>15 DEF Mine
  <2>3. t.wt[i].own = own
    BY <1>8, <1>9, <1>12
  <2> QED BY <1>13, <2>1, <2>2, <2>3
<1>17. Mine(t, P \ own)
  BY <1>1, <1>12, <1>14, <1>16 DEF Mine
<1>19. n = Cardinality(Buffers(w)) /\ n \in Nat /\ n <= k
       /\ \A c : Held(t, {i}, c) = (IF d = c THEN n ELSE 0)
  <2>1. t.wt[i] = w
    BY <1>9, <1>12
  <2>2. t.wt[i].own \subseteq Fds /\ Buffers(w) = Buffers(t.wt[i])
        /\ Buffers(w) = (IF own = {} THEN {NoFd} ELSE own)
    BY <1>8, <2>1 DEF Buffers
  <2>3. ASSUME NEW c
        PROVE  Cardinality(Buffers(t.wt[i])) \in Nat
               /\ Held(t, {i}, c) = (IF t.wt[i].dom = c THEN Cardinality(Buffers(t.wt[i])) ELSE 0)
    BY <2>2, HeldOne
  <2>4. n = Cardinality(Buffers(w)) /\ n \in Nat
    BY <2>2, <2>3
  <2> QED BY <1>8, <2>1, <2>2, <2>3, <2>4
<1>20. ASSUME NEW c \in Doms
       PROVE  /\ t.iova[c] <= CEIL
              /\ t.iova[c] = t.lost[c] + Imports(t, c) + Held(t, DOMAIN t.wt, c) + (IF c = d THEN k - n ELSE 0)
  <2>1. PICK a : a = Imports(s, c)
    OBVIOUS
  <2>2. PICK h : h = Held(s, D, c)
    OBVIOUS
  <2>3. a \in Nat /\ h \in Nat /\ Imports(t, c) = a
    BY <1>1, <1>2, <1>12, <2>1, <2>2, CountsTyped DEF Imports
  <2>4. Held(t, D, c) = h
    BY <1>9, <1>12, <2>2, HeldAgree
  <2>5. PICK D2 \in SUBSET Weights : D2 = D \cup {i}
    BY <1>5
  <2>6. PICK one : one = {i}
    OBVIOUS
  <2>7. Held(t, D2, c) = Held(t, one, c) + Held(t, D2 \ one, c) /\ D2 \ one = D
    <3>1. one \subseteq D2 /\ D2 \ one = D
      BY <1>5, <2>5, <2>6
    <3> QED BY <3>1, HeldParts
  <2>8. Held(t, DOMAIN t.wt, c) = (IF d = c THEN n ELSE 0) + h
    BY <1>13, <1>19, <2>2, <2>4, <2>5, <2>6, <2>7
  <2>9. /\ s.iova[c] <= CEIL /\ s.iova[c] \in Nat /\ s.lost[c] \in Nat
        /\ s.iova[c] = s.lost[c] + a + h + (IF c = d THEN k ELSE 0)
    BY <1>1, <1>3, <2>1, <2>2 DEF Sound, Account
  <2>10. CASE c = d
    BY <1>12, <1>19, <2>3, <2>8, <2>9, <2>10
  <2>11. CASE c # d
    BY <1>12, <1>19, <2>3, <2>8, <2>9, <2>11
  <2> QED BY <2>10, <2>11
<1>21. Account(t, d, k - n)
  BY <1>20 DEF Account
<1>22. Room(t) = Room(s) \ {i}
  BY <1>3, <1>13 DEF Room
<1> QED BY <1>1, <1>5, <1>12, <1>17, <1>21, <1>22 DEF Sound, Fills

(* Weights are freed with their descriptors and their share of the account. *)
LEMMA FreeKeeps ==
    ASSUME RequestAssumption, NEW s, NEW P, NEW T, NEW d, NEW k \in Nat, Sound(s, P, T, d, k),
           NEW I, I \subseteq DOMAIN s.wt, NEW t, t = ork_mm_free(s, I)
    PROVE  Sound(t, P, T, d, k) /\ SameRest(s, t) /\ t.wt = Without(s.wt, I)
<1>1. s \in Server /\ Mine(s, P) /\ DOMAIN s.tab = T /\ s.ebadf = FALSE
      /\ s.iova \in [Doms -> Nat] /\ s.lost \in [Doms -> Nat]
  BY DEF Sound, Server, Mine
<1>2. PICK D \in SUBSET Weights : s.wt \in [D -> Weight]
  BY <1>1 DEF Server, Residents
<1>3. DOMAIN s.wt = D /\ I \subseteq D
  BY <1>2
<1>4. PICK wt : wt = Without(s.wt, I)
  OBVIOUS
<1>5. wt \in [D \ I -> Weight] /\ \A j \in D \ I : wt[j] = s.wt[j]
  BY <1>2, <1>3, <1>4 DEF Without
<1>6. wt \in Residents
  <2>1. D \ I \in SUBSET Weights
    OBVIOUS
  <2> QED BY <1>5, <2>1 DEF Residents
<1>7. PICK F : F = UNION {s.wt[i].own : i \in I}
  OBVIOUS
<1>8. F \subseteq OwnOf(s) /\ F \subseteq s.open
  BY <1>1, <1>3, <1>7 DEF OwnOf, Mine
<1>9. ~ \E i, j \in I : i # j /\ s.wt[i].own \cap s.wt[j].own # {}
  BY <1>1, <1>3 DEF Mine
<1>10. PICK N : N = [c \in Doms |-> Held(s, I, c)]
  OBVIOUS
<1>11. PICK iova : iova = [c \in Doms |-> Less(s.iova[c], N[c])]
  OBVIOUS
<1>12. ASSUME NEW c \in Doms
       PROVE  /\ iova[c] \in Nat /\ iova[c] <= CEIL
              /\ iova[c] = s.lost[c] + Imports(s, c) + Held(s, D \ I, c) + (IF c = d THEN k ELSE 0)
  <2>1. PICK a : a = Imports(s, c)
    OBVIOUS
  <2>2. PICK n : n = Held(s, I, c)
    OBVIOUS
  <2>3. PICK h : h = Held(s, D \ I, c)
    OBVIOUS
  <2>4. a \in Nat /\ n \in Nat /\ h \in Nat /\ Held(s, D, c) = n + h
    BY <1>1, <1>3, <2>1, <2>2, <2>3, CountsTyped, HeldParts
  <2>5. /\ s.iova[c] <= CEIL /\ s.iova[c] \in Nat /\ s.lost[c] \in Nat /\ CEIL \in Nat
        /\ s.iova[c] = s.lost[c] + a + (n + h) + (IF c = d THEN k ELSE 0)
    BY <1>1, <1>3, <2>1, <2>4 DEF Sound, Account, RequestAssumption
  <2>6. iova[c] = Less(s.iova[c], n) /\ n <= s.iova[c]
    BY <1>10, <1>11, <2>2, <2>4, <2>5
  <2>7. iova[c] = s.iova[c] - n /\ iova[c] \in Nat
    BY <2>4, <2>5, <2>6, LessIs
  <2> QED BY <2>1, <2>3, <2>4, <2>5, <2>7
<1>13. iova \in [Doms -> Nat]
  BY <1>11, <1>12
<1>14. t = [s EXCEPT !.open = s.open \ F, !.wt = wt, !.iova = iova]
  <2>1. PICK u : u = [s EXCEPT !.open = s.open \ F]
    OBVIOUS
  <2>2. u = close(s, F) /\ u \in Server /\ u.ebadf = FALSE
    BY <1>1, <1>8, <2>1, CloseIs DEF Server
  <2>3. PICK v : v = [u EXCEPT !.wt = wt]
    OBVIOUS
  <2>4. FreeWeights(s, I) = [u EXCEPT !.wt = Without(@, I), !.ebadf = @ \/ FALSE]
    BY <1>7, <1>9, <2>2 DEF FreeWeights
  <2>5. u.wt = s.wt
    BY <1>1, <2>1 DEF Server
  <2>6. FreeWeights(s, I) = v
    BY <1>4, <2>2, <2>3, <2>4, <2>5 DEF Server
  <2>7. v.iova = s.iova /\ v \in Server
    BY <1>1, <1>6, <2>1, <2>2, <2>3 DEF Server
  <2>8. t = [v EXCEPT !.iova = iova]
    BY <1>10, <1>11, <2>6, <2>7 DEF ork_mm_free, Released, Server
  <2> QED BY <1>1, <1>6, <1>13, <2>1, <2>3, <2>8 DEF Server
<1>15. /\ t \in Server /\ t.wt = wt /\ t.tab = s.tab /\ SameRest(s, t) /\ t.open = s.open \ F
       /\ t.ebadf = s.ebadf /\ t.iova = iova /\ t.lost = s.lost
  BY <1>1, <1>6, <1>13, <1>14 DEF Server, SameRest
<1>16. DOMAIN t.wt = D \ I
  BY <1>5, <1>15
<1>17. RingOf(t) = RingOf(s) /\ OwnOf(t) \subseteq OwnOf(s)
       /\ OwnOf(t) \cap F = {} /\ OwnOf(s) = OwnOf(t) \cup F
  <2>1. \A i \in D \ I : t.wt[i].own = s.wt[i].own
    BY <1>5, <1>15
  <2>2. \A i \in D \ I, j \in I : s.wt[i].own \cap s.wt[j].own = {}
    BY <1>1, <1>3 DEF Mine
  <2>3. OwnOf(t) = UNION {s.wt[i].own : i \in D \ I}
    BY <1>16, <2>1 DEF OwnOf
  <2>4. OwnOf(t) \cap F = {}
    BY <1>7, <2>2, <2>3
  <2> QED BY <1>3, <1>7, <1>15, <2>3, <2>4 DEF OwnOf, RingOf, SameRest
<1>18. \A i, j \in DOMAIN t.wt : i # j => t.wt[i].own \cap t.wt[j].own = {}
  BY <1>1, <1>3, <1>5, <1>15, <1>16 DEF Mine
<1>19. Mine(t, P)
  BY <1>1, <1>8, <1>15, <1>17, <1>18 DEF Mine
<1>20. Account(t, d, k)
  <2>1. ASSUME NEW c \in Doms PROVE Held(t, D \ I, c) = Held(s, D \ I, c) /\ Imports(t, c) = Imports(s, c)
    <3>1. \A i \in D \ I : t.wt[i] = s.wt[i]
      BY <1>5, <1>15
    <3> QED BY <1>15, <3>1, HeldAgree DEF Imports
  <2> QED BY <1>12, <1>15, <1>16, <2>1 DEF Account
<1> QED BY <1>1, <1>4, <1>15, <1>19, <1>20 DEF Sound

-----------------------------------------------------------------------------
(* The drop path.                                                          *)

(* A table with no entry is the empty sequence.                            *)
LEMMA EmptyTable == ASSUME NEW f, NEW S, f \in [{} -> S] PROVE f = <<>>
<1>1. f \in [1 .. 0 -> S]
  OBVIOUS
<1>2. f \in Seq(S) /\ Len(f) = 0
  BY <1>1
<1> QED BY <1>2, EmptySeq

(* The queued run gives its imports back.                                  *)
LEMMA WkFreeKeeps ==
    ASSUME RequestAssumption, NEW s, NEW P, Sound(s, P, s.q.imp, 0, 0), NEW t, t = wk_free(s)
    PROVE  Sound(t, P, {}, 0, 0) /\ t.q = NoWork /\ t.wt = s.wt /\ t.ring = s.ring /\ t.owned = s.owned
<1>1. PICK T : T = s.q.imp
  OBVIOUS
<1>2. PICK u : u = ork_dma_free(s, T)
  OBVIOUS
<1>3. 0 \in Nat /\ T \subseteq T /\ T \ T = {}
  OBVIOUS
<1>4. Sound(u, P, {}, 0, 0) /\ SameRest(s, u) /\ u.wt = s.wt
  BY <1>1, <1>2, <1>3, FreeImports
<1>5. t = [u EXCEPT !.q = NoWork]
  BY <1>1, <1>2 DEF wk_free
<1>6. u \in Server /\ NoWork \in Work
  BY <1>4 DEF Sound, NoWork, Work
<1>7. t \in Server /\ t.q = NoWork /\ t.wt = u.wt /\ t.ring = u.ring /\ t.owned = u.owned
      /\ t.open = u.open /\ t.tab = u.tab /\ t.ebadf = u.ebadf /\ t.iova = u.iova /\ t.lost = u.lost
  BY <1>5, <1>6 DEF Server
<1>8. OwnOf(t) = OwnOf(u) /\ RingOf(t) = RingOf(u)
  BY <1>7 DEF OwnOf, RingOf
<1>9. Mine(t, P)
  BY <1>4, <1>7, <1>8 DEF Sound, Mine
<1>10. Account(t, 0, 0)
  BY <1>4, <1>7, SameAccount DEF Sound
<1> QED BY <1>4, <1>7, <1>9, <1>10 DEF Sound, SameRest

(* What is left of a connection in the daemon: nothing.                    *)
Blank(s) == /\ s.open = {} /\ DOMAIN s.tab = {} /\ s.wt = <<>> /\ s.q = NoWork
            /\ s.ring = NoFd /\ s.owned = {}

(* The drop path leaves nothing of a connection behind.                    *)
LEMMA DropKeeps ==
    ASSUME RequestAssumption, NEW s, Sound(s, {}, s.q.imp, 0, 0), NEW t, t = drop(s)
    PROVE  Sound(t, {}, {}, 0, 0) /\ Blank(t)
<1>1. PICK s1 : s1 = wk_free(s)
  OBVIOUS
<1>2. Sound(s1, {}, {}, 0, 0) /\ s1.q = NoWork
  BY <1>1, WkFreeKeeps
<1>3. PICK I : I = DOMAIN s1.wt
  OBVIOUS
<1>4. PICK s2 : s2 = ork_mm_free(s1, I)
  OBVIOUS
<1>5. Sound(s2, {}, {}, 0, 0) /\ SameRest(s1, s2) /\ s2.wt = Without(s1.wt, I)
  <2>1. I \subseteq DOMAIN s1.wt /\ 0 \in Nat
    BY <1>3
  <2> QED BY <1>2, <1>4, <2>1, FreeKeeps
<1>6. s2.wt = <<>> /\ OwnOf(s2) = {}
  <2>1. s2.wt \in [{} -> {}]
    BY <1>3, <1>5 DEF Without
  <2>2. DOMAIN s2.wt = {}
    BY <2>1
  <2> QED BY <2>1, <2>2, EmptyTable DEF OwnOf
<1>7. PICK R : R = RingOf(s2)
  OBVIOUS
<1>8. PICK s3 : s3 = [s2 EXCEPT !.ring = NoFd]
  OBVIOUS
<1>9. Sound(s3, R, {}, 0, 0) /\ s3.wt = s2.wt /\ s3.q = s2.q /\ s3.ring = NoFd
  <2>1. s2 \in Server
    BY <1>5 DEF Sound
  <2>2. /\ s3 \in Server /\ s3.wt = s2.wt /\ s3.q = s2.q /\ s3.ring = NoFd /\ s3.open = s2.open
        /\ s3.tab = s2.tab /\ s3.ebadf = s2.ebadf /\ s3.iova = s2.iova /\ s3.lost = s2.lost
    BY <1>8, <2>1 DEF Server
  <2>3. OwnOf(s3) = OwnOf(s2) /\ RingOf(s3) = {}
    BY <2>2 DEF OwnOf, RingOf
  <2>4. Mine(s3, R)
    BY <1>5, <1>7, <2>2, <2>3 DEF Sound, Mine
  <2>5. Account(s3, 0, 0)
    BY <1>5, <2>2, SameAccount DEF Sound
  <2> QED BY <1>5, <2>2, <2>4, <2>5 DEF Sound
<1>10. PICK s4 : s4 = close(s3, R)
  OBVIOUS
<1>11. Sound(s4, {}, {}, 0, 0) /\ s4 = [s3 EXCEPT !.open = s3.open \ R]
  <2>1. R \subseteq R /\ R \ R = {}
    OBVIOUS
  <2> QED BY <1>9, <1>10, <2>1, CloseKeeps
<1>12. t = [s4 EXCEPT !.owned = {}]
  <2>1. s1.ring = s2.ring
    BY <1>5 DEF SameRest
  <2> QED BY <1>1, <1>3, <1>4, <1>7, <1>8, <1>10, <2>1 DEF drop, client_reclaim, RingOf
<1>13. s3 \in Server /\ s4 \in Server
  BY <1>9, <1>11 DEF Sound
<1>14. s4.wt = <<>> /\ s4.q = NoWork /\ s4.ring = NoFd
  BY <1>2, <1>5, <1>6, <1>9, <1>11, <1>13 DEF Server, SameRest
<1>15. /\ t \in Server /\ t.wt = <<>> /\ t.q = NoWork /\ t.ring = NoFd /\ t.owned = {}
       /\ t.open = s4.open /\ t.tab = s4.tab /\ t.ebadf = s4.ebadf /\ t.iova = s4.iova /\ t.lost = s4.lost
       /\ t.wt = s4.wt /\ t.ring = s4.ring
  BY <1>12, <1>13, <1>14 DEF Server
<1>16. OwnOf(t) = OwnOf(s4) /\ RingOf(t) = RingOf(s4)
  BY <1>15 DEF OwnOf, RingOf
<1>17. Mine(t, {}) /\ DOMAIN t.tab = {}
  BY <1>11, <1>15, <1>16 DEF Sound, Mine
<1>18. Account(t, 0, 0)
  <2>1. Account(s4, 0, 0)
    BY <1>11 DEF Sound
  <2>2. t.tab = s4.tab /\ t.wt = s4.wt /\ t.iova = s4.iova /\ t.lost = s4.lost
    BY <1>15
  <2> QED BY <2>1, <2>2, SameAccount
<1>19. t.open = {}
  <2>1. OwnOf(s3) = {}
    BY <1>6, <1>9 DEF OwnOf
  <2>2. OwnOf(t) = {} /\ RingOf(t) = {}
    <3>1. s4.wt = s3.wt
      BY <1>11, <1>13 DEF Server
    <3>2. OwnOf(s4) = OwnOf(s3)
      BY <3>1 DEF OwnOf
    <3> QED BY <1>15, <1>16, <2>1, <3>2 DEF RingOf
  <2> QED BY <1>17, <2>2 DEF Mine
<1> QED BY <1>15, <1>17, <1>18, <1>19 DEF Sound, Blank

-----------------------------------------------------------------------------
(* Replies and outcomes.                                                   *)

(* The calls whose answer may wait in the queue, and those whose wrapper   *)
(* does not drain an answer of another type.                               *)
RunOps == {"run", "run_zc", "run_zc2"}
Short == {"ping", "dmabuf", "ring_setup"}

(* What the wrapper of op can be sent, and takes off the stream whole.     *)
Answer(op, r) ==
    /\ r \in Seq(Unit) /\ r # <<>> /\ r[1].hdr
    /\ r[1].type \in {Wrapper[op].ok, "error"}
    /\ Len(r) = 1 + r[1].n
    /\ op \in Short => r[1].type = Wrapper[op].ok
    /\ op = "ring_setup" => r[1].n = 1

(* What every handler leaves: each descriptor has its owner, the account   *)
(* is right, the request was read whole unless the connection ends, and    *)
(* there is an answer, or a run that will be answered.                     *)
Outcome(op, r) ==
    /\ Sound(r.s, {}, r.s.q.imp, 0, 0)
    /\ r.drop \in BOOLEAN
    /\ ~ r.drop => r.eat = 1 + Wrapper[op].body
    /\ \/ r.s.q = NoWork /\ Answer(op, r.reply)
       \/ r.s.q # NoWork /\ r.reply = <<>> /\ op \in RunOps /\ ~ r.drop

IsReply(r, type, n) == /\ r \in Seq(Unit) /\ r # <<>> /\ Len(r) = 2 + n
                       /\ r[1].hdr /\ r[1].type = type /\ r[1].n = 1 + n

(* A reply is a header that tells the length of what follows.              *)
LEMMA ReplyIs ==
    ASSUME NEW type \in Names, NEW rc \in Names, NEW n \in {0, 1, 2}
    PROVE  IsReply(Reply(type, rc, n), type, n)
<1>1. PICK h : h = Header(type, 1 + n)
  OBVIOUS
<1>2. PICK b : b = Body(rc, 0)
  OBVIOUS
<1>3. h \in Unit /\ b \in Unit /\ h.hdr /\ h.type = type /\ h.n = 1 + n
  BY <1>1, <1>2 DEF Unit, Header, Body
<1>4. <<h, b>> \in Seq(Unit) /\ Len(<<h, b>>) = 2
  BY <1>3
<1>5. Data(n) \in Seq(Unit) /\ Len(Data(n)) = n
  <2>1. Body("data", 0) \in Unit
    BY DEF Unit, Body, Names
  <2>2. Data(n) \in [1 .. n -> Unit]
    BY <2>1 DEF Data
  <2> QED BY <2>2
<1>6. PICK q : q = <<h, b>> \o Data(n)
  OBVIOUS
<1>7. q \in Seq(Unit) /\ Len(q) = 2 + n /\ q[1] = h
  <2>1. q \in Seq(Unit) /\ Len(q) = Len(<<h, b>>) + Len(Data(n))
    BY <1>4, <1>5, <1>6, ConcatProperties
  <2>2. q[1] = <<h, b>>[1]
    BY <1>4, <1>5, <1>6, ConcatProperties
  <2> QED BY <1>4, <1>5, <2>1, <2>2
<1>8. q # <<>>
  BY <1>7, EmptySeq
<1>9. Reply(type, rc, n) = q
  BY <1>1, <1>2, <1>6 DEF Reply
<1> QED BY <1>3, <1>7, <1>8, <1>9 DEF IsReply

(* A reply of the right type answers.                                      *)
LEMMA ReplyAnswers ==
    ASSUME NEW op \in Ops, NEW type \in {Wrapper[op].ok, "error"}, NEW rc \in {"ok", "fail"}, NEW n \in {0, 1, 2},
           op \in Short => type = Wrapper[op].ok, op = "ring_setup" => n = 0
    PROVE  Answer(op, Reply(type, rc, n))
<1>1. type \in Names /\ rc \in Names
  BY DEF Names
<1>2. PICK r : r = Reply(type, rc, n)
  OBVIOUS
<1>3. IsReply(r, type, n)
  BY <1>1, <1>2, ReplyIs
<1>4. Len(r) = 1 + r[1].n
  BY <1>3 DEF IsReply
<1> QED BY <1>2, <1>3, <1>4 DEF Answer, IsReply

(* The daemon's state in a handler: the descriptors f are the handler's.   *)
PassedOf(f) == {f[1], f[2]} \ {NoFd}
In(s, f) == /\ f[1] \in Fds \cup {NoFd} /\ f[2] \in Fds \cup {NoFd} /\ (f[1] = f[2] => f[1] = NoFd)
            /\ Sound(s, PassedOf(f), {}, 0, 0) /\ s.q = NoWork

(* A handler that has read its message and answers it.                     *)
LEMMA DoneIs ==
    ASSUME NEW s, Sound(s, {}, {}, 0, 0), s.q = NoWork, NEW op, NEW reply, Answer(op, reply)
    PROVE  Outcome(op, Done(s, 1 + Wrapper[op].body, reply))
<1>1. PICK r : r = Done(s, 1 + Wrapper[op].body, reply)
  OBVIOUS
<1>2. r.s = s /\ r.drop = FALSE /\ r.eat = 1 + Wrapper[op].body /\ r.reply = reply
  BY <1>1 DEF Done
<1>3. NoWork.imp = {}
  BY DEF NoWork
<1> QED BY <1>1, <1>2, <1>3 DEF Outcome

(* A handler that runs its request, whichever way that ends.               *)
LEMMA InlineIs ==
    ASSUME NEW s, Sound(s, {}, {}, 0, 0), s.q = NoWork, NEW op \in Ops \ Short, NEW eat, NEW type, NEW sizes,
           eat = 1 + Wrapper[op].body, type = Wrapper[op].ok, sizes \subseteq {0, 1, 2},
           NEW r \in Inline(s, eat, type, sizes)
    PROVE  Outcome(op, r)
<1>1. CASE r = Done(s, eat, Error)
  BY <1>1, ReplyAnswers, DoneIs DEF Error
<1>2. CASE r = Done(s, eat, Refused(type))
  BY <1>2, ReplyAnswers, DoneIs DEF Refused
<1>3. CASE \E n \in sizes : r = Done(s, eat, Reply(type, "ok", n))
  <2>1. PICK n \in {0, 1, 2} : r = Done(s, eat, Reply(type, "ok", n))
    BY <1>3
  <2>2. Answer(op, Reply(type, "ok", n))
    <3>1. type \in {Wrapper[op].ok, "error"} /\ "ok" \in {"ok", "fail"} /\ op \in Ops
          /\ ~ op \in Short /\ op # "ring_setup"
      BY DEF Short
    <3> QED BY <3>1, ReplyAnswers
  <2> QED BY <2>1, <2>2, DoneIs
<1> QED BY <1>1, <1>2, <1>3 DEF Inline

(* With no buffer in hand the domain does not matter.                      *)
LEMMA AnyDomain == ASSUME NEW s, NEW P, NEW T, NEW d, NEW e, Sound(s, P, T, d, 0) PROVE Sound(s, P, T, e, 0)
<1>1. \A c : (IF c = d THEN 0 ELSE 0) = (IF c = e THEN 0 ELSE 0)
  OBVIOUS
<1>2. Account(s, e, 0)
  BY <1>1 DEF Sound, Account
<1> QED BY <1>2 DEF Sound

(* A run that is queued with the imports it was given.                     *)
LEMMA QueueIs ==
    ASSUME NEW s, NEW imp, Sound(s, {}, imp, 0, 0), imp \subseteq Fds, NEW i \in DOMAIN s.wt,
           NEW op \in RunOps, NEW kind \in RunOps, NEW t \in Queue(s, i, kind, imp)
    PROVE  Outcome(op, Done(t, 1 + Wrapper[op].body, <<>>))
<1>1. PICK r \in Rows : t = [s EXCEPT !.q = [w |-> i, kind |-> kind, imp |-> imp, rows |-> r, rc |-> "ok"]]
  BY DEF Queue
<1>2. PICK q : q = [w |-> i, kind |-> kind, imp |-> imp, rows |-> r, rc |-> "ok"]
  OBVIOUS
<1>3. s \in Server
  BY DEF Sound
<1>4. i \in Nat
  <2>1. DOMAIN s.wt \subseteq Weights
    BY <1>3 DEF Server, Residents
  <2> QED BY <2>1 DEF Weights
<1>5. q \in Work /\ q.imp = imp /\ q # NoWork
  BY <1>2, <1>4 DEF Work, NoWork, RunOps, Rows
<1>6. t = [s EXCEPT !.q = q]
  BY <1>1, <1>2
<1>7. /\ t \in Server /\ t.q = q /\ t.wt = s.wt /\ t.ring = s.ring /\ t.open = s.open
      /\ t.tab = s.tab /\ t.ebadf = s.ebadf /\ t.iova = s.iova /\ t.lost = s.lost
  BY <1>3, <1>5, <1>6 DEF Server
<1>8. OwnOf(t) = OwnOf(s) /\ RingOf(t) = RingOf(s)
  BY <1>7 DEF OwnOf, RingOf
<1>9. Mine(t, {})
  BY <1>7, <1>8 DEF Sound, Mine
<1>10. Account(t, 0, 0)
  BY <1>7, SameAccount DEF Sound
<1>11. Sound(t, {}, t.q.imp, 0, 0)
  BY <1>5, <1>7, <1>9, <1>10 DEF Sound
<1> QED BY <1>5, <1>7, <1>11 DEF Outcome, Done

-----------------------------------------------------------------------------
(* The handlers that are passed no descriptors.                            *)

Plain(s) == Sound(s, {}, {}, 0, 0) /\ s.q = NoWork

(* The handlers that leave no resource behind.                             *)
LEMMA HelloIs == ASSUME NEW s, Plain(s), NEW f, NEW a, NEW r \in orkd_hello(s, f, a) PROVE Outcome("hello", r)
<1>1. "hello" \in Ops /\ Wrapper["hello"].body = 1 /\ Wrapper["hello"].ok = "welcome"
  BY DEF Ops, Wrapper, Call, orkd_connect
<1>2. Answer("hello", Reply("welcome", "ok", 0))
  BY <1>1, ReplyAnswers DEF Short
<1>3. r = Done(s, 1 + Wrapper["hello"].body, Reply("welcome", "ok", 0))
  BY <1>1 DEF orkd_hello
<1> QED BY <1>2, <1>3, DoneIs DEF Plain

LEMMA PongIs == ASSUME NEW s, Plain(s), NEW f, NEW a, NEW r \in orkd_pong(s, f, a) PROVE Outcome("ping", r)
<1>1. "ping" \in Ops /\ Wrapper["ping"].body = 0 /\ Wrapper["ping"].ok = "pong"
  BY DEF Ops, Wrapper, Call, orkd_ping
<1>2. PICK h : h = Header("pong", 0)
  OBVIOUS
<1>3. h \in Unit /\ h.hdr /\ h.type = "pong" /\ h.n = 0
  BY <1>1, <1>2 DEF Unit, Header, Names
<1>4. Answer("ping", <<h>>)
  BY <1>1, <1>3 DEF Answer, Short
<1>5. r = Done(s, 1 + Wrapper["ping"].body, <<h>>)
  BY <1>1, <1>2 DEF orkd_pong
<1> QED BY <1>4, <1>5, DoneIs DEF Plain

LEMMA InlineOps ==
    ASSUME NEW s, Plain(s), NEW f, NEW a, NEW r
    PROVE  /\ r \in orkd_handle_ffn(s, f, a) => Outcome("ffn", r)
           /\ r \in orkd_handle_attn(s, f, a) => Outcome("attn", r)
           /\ r \in orkd_handle_layer(s, f, a) => Outcome("layer", r)
           /\ r \in orkd_handle_sdp(s, f, a) => Outcome("sdp", r)
           /\ r \in orkd_handle_kv_append(s, f, a) => Outcome("kv_append", r)
<1> USE DEF Ops, Wrapper, Call, Short
<1>1. /\ "ffn" \in Ops \ Short /\ Wrapper["ffn"].body = 2 /\ Wrapper["ffn"].ok = "ffn_ok"
      /\ "attn" \in Ops \ Short /\ Wrapper["attn"].body = 2 /\ Wrapper["attn"].ok = "attn_ok"
      /\ "layer" \in Ops \ Short /\ Wrapper["layer"].body = 2 /\ Wrapper["layer"].ok = "layer_ok"
      /\ "sdp" \in Ops \ Short /\ Wrapper["sdp"].body = 2 /\ Wrapper["sdp"].ok = "sdp_ok"
      /\ "kv_append" \in Ops \ Short /\ Wrapper["kv_append"].body = 2
      /\ Wrapper["kv_append"].ok = "kv_append_ok"
  BY DEF orkd_ffn_i8, orkd_attn_i8, orkd_layer_i8, orkd_sdp_call, orkd_kv_append
<1> HIDE DEF Ops, Wrapper, Call, Short
<1>2. PICK one : one = {1}
  OBVIOUS
<1>3. PICK zero : zero = {0}
  OBVIOUS
<1>4. one \subseteq {0, 1, 2} /\ zero \subseteq {0, 1, 2} /\ 3 = 1 + 2
  BY <1>2, <1>3
<1>5. r \in Inline(s, 3, "ffn_ok", one) => Outcome("ffn", r)
  BY <1>1, <1>4, InlineIs DEF Plain
<1>6. r \in Inline(s, 3, "attn_ok", one) => Outcome("attn", r)
  BY <1>1, <1>4, InlineIs DEF Plain
<1>7. r \in Inline(s, 3, "layer_ok", one) => Outcome("layer", r)
  BY <1>1, <1>4, InlineIs DEF Plain
<1>8. r \in Inline(s, 3, "sdp_ok", one) => Outcome("sdp", r)
  BY <1>1, <1>4, InlineIs DEF Plain
<1>9. r \in Inline(s, 3, "kv_append_ok", zero) => Outcome("kv_append", r)
  BY <1>1, <1>4, InlineIs DEF Plain
<1> QED BY <1>2, <1>3, <1>5, <1>6, <1>7, <1>8, <1>9
     DEF orkd_handle_ffn, orkd_handle_attn, orkd_handle_layer, orkd_handle_sdp, orkd_handle_kv_append

(* The handlers that read a list, which may end the connection.            *)
LEMMA ListOps ==
    ASSUME NEW s, Plain(s), NEW f, NEW a, NEW r
    PROVE  /\ r \in orkd_handle_attn_rr(s, f, a) => Outcome("attn_rr", r)
           /\ r \in orkd_handle_chain(s, f, a) => Outcome("chain", r)
           /\ r \in orkd_handle_seq(s, f, a) => Outcome("seq", r)
<1> USE DEF Ops, Wrapper, Call, Short
<1>1. /\ "attn_rr" \in Ops \ Short /\ Wrapper["attn_rr"].body = 3 /\ Wrapper["attn_rr"].ok = "attn_rr_ok"
      /\ "chain" \in Ops \ Short /\ Wrapper["chain"].body = 3 /\ Wrapper["chain"].ok = "chain_ok"
      /\ "seq" \in Ops \ Short /\ Wrapper["seq"].body = 3 /\ Wrapper["seq"].ok = "seq_ok"
  BY DEF orkd_attn_rr_i8, orkd_run_chain_i8, orkd_submit_seq
<1> HIDE DEF Ops, Wrapper, Call, Short
<1>2. PICK one : one = {1}
  OBVIOUS
<1>3. one \subseteq {0, 1, 2} /\ Rows \subseteq {0, 1, 2} /\ 4 = 1 + 3
  BY <1>2 DEF Rows
<1>4. r \in Inline(s, 4, "attn_rr_ok", one) => Outcome("attn_rr", r)
  BY <1>1, <1>3, InlineIs DEF Plain
<1>5. r \in Inline(s, 4, "chain_ok", Rows) => Outcome("chain", r)
  BY <1>1, <1>3, InlineIs DEF Plain
<1>6. r \in Inline(s, 4, "seq_ok", one) => Outcome("seq", r)
  BY <1>1, <1>3, InlineIs DEF Plain
<1>7. Answer("attn_rr", Error) /\ Answer("chain", Error) /\ Answer("seq", Error)
  BY <1>1, ReplyAnswers DEF Error, Short
<1>8. Outcome("attn_rr", Drop(s, 2, Error))
  <2>1. PICK q : q = Drop(s, 2, Error)
    OBVIOUS
  <2>2. q.s = s /\ q.drop = TRUE /\ q.reply = Error
    BY <2>1 DEF Drop
  <2>3. NoWork.imp = {}
    BY DEF NoWork
  <2> QED BY <1>7, <2>1, <2>2, <2>3 DEF Outcome, Plain
<1>9. Outcome("chain", Done(s, 4, Error)) /\ Outcome("seq", Done(s, 4, Error))
  BY <1>1, <1>3, <1>7, DoneIs DEF Plain
<1> QED BY <1>2, <1>4, <1>5, <1>6, <1>8, <1>9 DEF orkd_handle_attn_rr, orkd_handle_chain, orkd_handle_seq

(* A buffer for a new weight, seen from the handler.                       *)
LEMMA OneMapped ==
    ASSUME NEW s, NEW P, NEW T, NEW d, NEW k, NEW m, Mapped(s, P, T, d, k, m)
    PROVE  /\ m.ok \in BOOLEAN /\ Room(m.s) = Room(s) /\ m.s.q = s.q /\ m.s.wt = s.wt
           /\ Sound(m.s, P, T, d, IF m.ok THEN k + 1 ELSE k)
BY DEF Mapped, SameHeld, Room

(* The first free number, for a weight that owns no descriptor.            *)
LEMMA RegisterNative ==
    ASSUME RequestAssumption, NEW s, NEW d \in Doms, NEW k \in Nat, Sound(s, {}, {}, d, k), k >= 1,
           Room(s) # {}, NEW t, t = Register(s, d, {})
    PROVE  /\ Sound(t, {}, {}, d, k - 1) /\ t.q = s.q
           /\ Fills(s, t)
<1>1. PICK none : none = {}
  OBVIOUS
<1>2. Cardinality(IF none = {} THEN {NoFd} ELSE none) = 1
  BY <1>1, FS_Singleton
<1>3. PICK n \in Nat : n = Cardinality(IF none = {} THEN {NoFd} ELSE none) /\ n = 1 /\ n <= k
  BY <1>2
<1>4. PICK P : P = {}
  OBVIOUS
<1>5. PICK T : T = {}
  OBVIOUS
<1>6. none \subseteq P /\ none \subseteq Fds /\ P \ none = {}
  BY <1>1, <1>4
<1>7. Sound(s, P, T, d, k) /\ t = Register(s, d, none)
  BY <1>1, <1>4, <1>5
<1>8. Sound(t, P \ none, T, d, k - n) /\ SameRest(s, t) /\ Fills(s, t)
  BY <1>3, <1>6, <1>7, RegisterKeeps
<1> QED BY <1>3, <1>5, <1>6, <1>8 DEF SameRest

(* A weight that is copied in: a buffer for it, and room in the table.     *)
LEMMA PackIs ==
    ASSUME RequestAssumption, NEW s, Plain(s), NEW f, NEW d \in Doms, NEW r \in orkd_handle_pack(s, f, d)
    PROVE  Outcome("pack", r)
<1>1. "pack" \in Ops /\ Wrapper["pack"].body = 2 /\ Wrapper["pack"].ok = "pack_ok"
  BY DEF Ops, Wrapper, Call, orkd_pack
<1>2. Answer("pack", Error) /\ Answer("pack", Refused("pack_ok")) /\ Answer("pack", Reply("pack_ok", "ok", 0))
  BY <1>1, ReplyAnswers DEF Error, Refused, Short
<1>3. \A t, a : Sound(t, {}, {}, 0, 0) /\ t.q = NoWork /\ Answer("pack", a) => Outcome("pack", Done(t, 3, a))
  BY <1>1, DoneIs
<1>4. CASE r = Done(s, 3, Error)
  BY <1>2, <1>3, <1>4 DEF Plain
<1>5. ASSUME NEW m \in orki_bimport_fd(s, d),
             r = IF ~ m.ok THEN Done(m.s, 3, Refused("pack_ok"))
                 ELSE IF Room(s) = {} THEN Done(ork_iova_release(m.s, d, 1), 3, Refused("pack_ok"))
                 ELSE Done(Register(m.s, d, {}), 3, Reply("pack_ok", "ok", 0))
      PROVE  Outcome("pack", r)
  <2>1. Mapped(s, {}, {}, d, 0, m)
    BY ImportKeeps, AnyDomain DEF Plain
  <2>2. /\ m.ok \in BOOLEAN /\ Room(m.s) = Room(s) /\ m.s.q = NoWork
        /\ Sound(m.s, {}, {}, d, IF m.ok THEN 0 + 1 ELSE 0)
    BY <2>1, OneMapped DEF Plain
  <2>3. CASE ~ m.ok
    BY <1>2, <1>3, <1>5, <2>2, <2>3, AnyDomain
  <2>4. CASE m.ok /\ Room(s) = {}
    <3>1. PICK t : t = ork_iova_release(m.s, d, 1)
      OBVIOUS
    <3>2. Sound(m.s, {}, {}, d, 1)
      BY <2>2, <2>4
    <3>3. Sound(t, {}, {}, d, 1 - 1) /\ SameHeld(m.s, t)
      BY <3>1, <3>2, ReleaseKeeps
    <3>4. Sound(t, {}, {}, 0, 0) /\ t.q = NoWork
      BY <2>2, <3>3, AnyDomain DEF SameHeld
    <3> QED BY <1>2, <1>3, <1>5, <2>4, <3>1, <3>4
  <2>5. CASE m.ok /\ Room(s) # {}
    <3>1. PICK t : t = Register(m.s, d, {})
      OBVIOUS
    <3>2. Sound(m.s, {}, {}, d, 1)
      BY <2>2, <2>5
    <3>3. Sound(t, {}, {}, d, 1 - 1) /\ t.q = m.s.q
      BY <2>2, <2>5, <3>1, <3>2, RegisterNative
    <3>4. Sound(t, {}, {}, 0, 0) /\ t.q = NoWork
      BY <2>2, <3>3, AnyDomain
    <3> QED BY <1>2, <1>3, <1>5, <2>5, <3>1, <3>4
  <2> QED BY <2>2, <2>3, <2>4, <2>5
<1> QED BY <1>4, <1>5 DEF orkd_handle_pack

(* Buffers nobody owns any more stay mapped for ever.                      *)
LEMMA LostKeeps ==
    ASSUME RequestAssumption, NEW s, NEW n \in Nat, Sound(s, {}, {}, 0, n), NEW t, t = ork_w_free(s, n)
    PROVE  Sound(t, {}, {}, 0, 0) /\ t.q = s.q
<1>1. s \in Server /\ s.iova \in [Doms -> Nat] /\ s.lost \in [Doms -> Nat] /\ Mine(s, {})
      /\ DOMAIN s.tab = {} /\ 0 \in Doms
  BY Finite DEF Sound, Server
<1>2. PICK lost : lost = [s.lost EXCEPT ![0] = @ + n]
  OBVIOUS
<1>3. lost \in [Doms -> Nat]
  BY <1>1, <1>2
<1>4. t = [s EXCEPT !.lost = lost]
  BY <1>1, <1>2 DEF ork_w_free, Server
<1>5. t \in Server /\ SameHeld(s, t) /\ t.lost = lost /\ t.iova = s.iova
  BY <1>1, <1>3, <1>4 DEF Server, SameHeld
<1>6. ASSUME NEW c \in Doms
      PROVE  /\ t.iova[c] <= CEIL
             /\ t.iova[c] = t.lost[c] + Imports(t, c) + Held(t, DOMAIN t.wt, c) + (IF c = 0 THEN 0 ELSE 0)
  <2>1. PICK a : a = Imports(s, c)
    OBVIOUS
  <2>2. PICK h : h = Held(s, DOMAIN s.wt, c)
    OBVIOUS
  <2>3. a \in Nat /\ h \in Nat
    BY <1>1, <2>1, <2>2, CountsTyped
  <2>4. Imports(t, c) = a /\ Held(t, DOMAIN t.wt, c) = h
    BY <1>1, <1>5, <2>1, <2>2, HeldStays
  <2>5. /\ s.iova[c] <= CEIL /\ s.iova[c] \in Nat /\ s.lost[c] \in Nat
        /\ s.iova[c] = s.lost[c] + a + h + (IF c = 0 THEN n ELSE 0)
    BY <1>1, <2>1, <2>2 DEF Sound, Account
  <2>6. lost[c] = IF c = 0 THEN s.lost[c] + n ELSE s.lost[c]
    BY <1>1, <1>2
  <2>7. CASE c = 0
    BY <1>5, <2>3, <2>4, <2>5, <2>6, <2>7
  <2>8. CASE c # 0
    BY <1>5, <2>3, <2>4, <2>5, <2>6, <2>8
  <2> QED BY <2>7, <2>8
<1>7. Account(t, 0, 0)
  BY <1>6 DEF Account
<1>8. Mine(t, {}) /\ DOMAIN t.tab = {}
  BY <1>1, <1>5, HeldStays
<1> QED BY <1>5, <1>7, <1>8 DEF Sound, SameHeld

(* How many of two buffers there are.                                      *)
LEMMA PairCount ==
    ASSUME NEW m, NEW n, m.ok \in BOOLEAN, n.ok \in BOOLEAN
    PROVE  Cardinality({x \in {1, 2} : <<m, n>>[x].ok}) = (IF m.ok THEN 1 ELSE 0) + (IF n.ok THEN 1 ELSE 0)
<1>1. PICK S : S = {x \in {1, 2} : <<m, n>>[x].ok}
  OBVIOUS
<1>2. \A x : x \in S <=> (x = 1 /\ m.ok) \/ (x = 2 /\ n.ok)
  BY <1>1
<1>3. CASE m.ok /\ n.ok
  <2>1. PICK one : one = {1}
    OBVIOUS
  <2>2. IsFiniteSet(one) /\ Cardinality(one) = 1 /\ 2 \notin one
    <3>1. IsFiniteSet({1}) /\ Cardinality({1}) = 1
      BY FS_Singleton
    <3>2. 2 \notin {1}
      OBVIOUS
    <3> QED BY <2>1, <3>1, <3>2
  <2>3. S = one \cup {2}
    BY <1>2, <1>3, <2>1
  <2>4. Cardinality(one \cup {2}) = Cardinality(one) + 1
    BY <2>2, FS_AddElement
  <2> QED BY <1>1, <1>3, <2>2, <2>3, <2>4
<1>4. CASE m.ok /\ ~ n.ok
  <2>1. S = {1}
    BY <1>2, <1>4
  <2>2. Cardinality({1}) = 1
    BY FS_Singleton
  <2> QED BY <1>1, <1>4, <2>1, <2>2
<1>5. CASE ~ m.ok /\ n.ok
  <2>1. S = {2}
    BY <1>2, <1>5
  <2>2. Cardinality({2}) = 1
    BY FS_Singleton
  <2> QED BY <1>1, <1>5, <2>1, <2>2
<1>6. CASE ~ m.ok /\ ~ n.ok
  <2>1. S = {}
    BY <1>2, <1>6
  <2> QED BY <1>1, <1>6, <2>1, FS_EmptySet
<1> QED BY <1>3, <1>4, <1>5, <1>6

(* Two weights or neither, what was mapped for one of them being lost.     *)
LEMMA KvAllocIs ==
    ASSUME RequestAssumption, NEW s, Plain(s), NEW f, NEW a, NEW r \in orkd_handle_kv_alloc(s, f, a)
    PROVE  Outcome("kv_alloc", r)
<1>1. "kv_alloc" \in Ops /\ Wrapper["kv_alloc"].body = 1 /\ Wrapper["kv_alloc"].ok = "kv_alloc_ok"
  BY DEF Ops, Wrapper, Call, orkd_kv_alloc
<1>2. Answer("kv_alloc", Refused("kv_alloc_ok")) /\ Answer("kv_alloc", Reply("kv_alloc_ok", "ok", 0))
  BY <1>1, ReplyAnswers DEF Refused, Short
<1>3. \A t, b : Sound(t, {}, {}, 0, 0) /\ t.q = NoWork /\ Answer("kv_alloc", b)
                  => Outcome("kv_alloc", Done(t, 2, b))
  BY <1>1, DoneIs
<1>4. PICK m \in orki_bimport_fd(s, 0) : \E n \in orki_bimport_fd(m.s, 0) :
        r = LET packed == Cardinality({x \in {1, 2} : <<m, n>>[x].ok}) IN
            IF packed = 2 /\ Cardinality(Room(s)) >= 2
            THEN Done(Register(Register(n.s, 0, {}), 0, {}), 2, Reply("kv_alloc_ok", "ok", 0))
            ELSE Done(ork_w_free(n.s, packed), 2, Refused("kv_alloc_ok"))
  BY DEF orkd_handle_kv_alloc
<1>5. PICK n \in orki_bimport_fd(m.s, 0) :
        r = LET packed == Cardinality({x \in {1, 2} : <<m, n>>[x].ok}) IN
            IF packed = 2 /\ Cardinality(Room(s)) >= 2
            THEN Done(Register(Register(n.s, 0, {}), 0, {}), 2, Reply("kv_alloc_ok", "ok", 0))
            ELSE Done(ork_w_free(n.s, packed), 2, Refused("kv_alloc_ok"))
  BY <1>4
<1>6. 0 \in Doms /\ 0 \in Nat
  BY Finite
<1>7. /\ m.ok \in BOOLEAN /\ Room(m.s) = Room(s) /\ m.s.q = NoWork
      /\ Sound(m.s, {}, {}, 0, IF m.ok THEN 0 + 1 ELSE 0)
  BY <1>6, ImportKeeps, OneMapped DEF Plain
<1>8. PICK k \in Nat : k = IF m.ok THEN 1 ELSE 0
  BY <1>7
<1>9. /\ n.ok \in BOOLEAN /\ Room(n.s) = Room(s) /\ n.s.q = NoWork
      /\ Sound(n.s, {}, {}, 0, IF n.ok THEN k + 1 ELSE k)
  BY <1>6, <1>7, <1>8, ImportKeeps, OneMapped
<1>10. PICK packed \in Nat : packed = IF n.ok THEN k + 1 ELSE k
  BY <1>8
<1>11. Cardinality({x \in {1, 2} : <<m, n>>[x].ok}) = packed
  BY <1>7, <1>8, <1>9, <1>10, PairCount
<1>12. Sound(n.s, {}, {}, 0, packed)
  BY <1>9, <1>10
<1>13. CASE packed = 2 /\ Cardinality(Room(s)) >= 2
  <2>1. PICK t : t = Register(n.s, 0, {})
    OBVIOUS
  <2>2. PICK u : u = Register(t, 0, {})
    OBVIOUS
  <2>3. r = Done(u, 2, Reply("kv_alloc_ok", "ok", 0))
    BY <1>5, <1>11, <1>13, <2>1, <2>2
  <2>4. Room(s) \subseteq Weights /\ IsFiniteSet(Room(s))
    BY Finite, FS_Subset DEF Room
  <2>5. Room(n.s) # {} /\ \A i : Room(n.s) \ {i} # {}
    <3>1. Room(s) # {}
      BY <1>13, FS_EmptySet
    <3>2. ASSUME NEW i, Room(s) \ {i} = {} PROVE FALSE
      <4>1. Room(s) = {i}
        BY <3>1, <3>2
      <4> QED BY <1>13, <4>1, FS_Singleton
    <3> QED BY <1>9, <3>1, <3>2
  <2>6. Sound(t, {}, {}, 0, 2 - 1) /\ t.q = NoWork /\ Room(t) # {}
    BY <1>6, <1>9, <1>12, <1>13, <2>1, <2>5, RegisterNative DEF Fills
  <2>7. Sound(t, {}, {}, 0, 1)
    BY <2>6
  <2>8. Sound(u, {}, {}, 0, 1 - 1) /\ u.q = NoWork
    BY <1>6, <2>2, <2>6, <2>7, RegisterNative
  <2> QED BY <1>2, <1>3, <2>3, <2>8
<1>14. CASE ~ (packed = 2 /\ Cardinality(Room(s)) >= 2)
  <2>1. PICK t : t = ork_w_free(n.s, packed)
    OBVIOUS
  <2>2. r = Done(t, 2, Refused("kv_alloc_ok"))
    BY <1>5, <1>11, <1>14, <2>1
  <2>3. Sound(t, {}, {}, 0, 0) /\ t.q = NoWork
    BY <1>9, <1>12, <2>1, LostKeeps
  <2> QED BY <1>2, <1>3, <2>2, <2>3
<1> QED BY <1>13, <1>14

(* A weight the client gives back.                                         *)
LEMMA FreeIs ==
    ASSUME RequestAssumption, NEW s, Plain(s), NEW f, NEW i, NEW r \in orkd_handle_free(s, f, i)
    PROVE  Outcome("free", r)
<1>1. "free" \in Ops /\ Wrapper["free"].body = 1 /\ Wrapper["free"].ok = "pack_ok"
  BY DEF Ops, Wrapper, Call, orkd_free_weight
<1>2. Answer("free", Refused("pack_ok")) /\ Answer("free", Reply("pack_ok", "ok", 0))
  BY <1>1, ReplyAnswers DEF Refused, Short
<1>3. \A t, a : Sound(t, {}, {}, 0, 0) /\ t.q = NoWork /\ Answer("free", a) => Outcome("free", Done(t, 2, a))
  BY <1>1, DoneIs
<1>4. CASE i \in DOMAIN s.wt
  <2>1. PICK I : I = {i}
    OBVIOUS
  <2>2. PICK t : t = ork_mm_free(s, I)
    OBVIOUS
  <2>3. I \subseteq DOMAIN s.wt /\ 0 \in Nat
    BY <1>4, <2>1
  <2>4. Sound(t, {}, {}, 0, 0) /\ t.q = NoWork
    BY <2>2, <2>3, FreeKeeps DEF Plain, SameRest
  <2> QED BY <1>2, <1>3, <1>4, <2>1, <2>2, <2>4 DEF orkd_handle_free
<1>5. CASE i \notin DOMAIN s.wt
  BY <1>2, <1>3, <1>5 DEF orkd_handle_free, Plain
<1> QED BY <1>4, <1>5

(* Domains granted and returned.                                           *)
LEMMA OwnedChange ==
    ASSUME NEW s, Plain(s), NEW D \in SUBSET (Doms \ {0}), NEW t, t = [s EXCEPT !.owned = D]
    PROVE  Plain(t)
<1>1. s \in Server
  BY DEF Plain, Sound
<1>2. /\ t \in Server /\ t.q = s.q /\ t.wt = s.wt /\ t.ring = s.ring /\ t.open = s.open
      /\ t.tab = s.tab /\ t.ebadf = s.ebadf /\ t.iova = s.iova /\ t.lost = s.lost
  BY <1>1 DEF Server
<1>3. OwnOf(t) = OwnOf(s) /\ RingOf(t) = RingOf(s)
  BY <1>2 DEF OwnOf, RingOf
<1>4. Mine(t, {})
  BY <1>2, <1>3 DEF Plain, Sound, Mine
<1>5. Account(t, 0, 0)
  BY <1>2, SameAccount DEF Plain, Sound
<1> QED BY <1>2, <1>4, <1>5 DEF Plain, Sound

(* The pool of domains.                                                    *)
LEMMA DomainOps ==
    ASSUME RequestAssumption, NEW s, Plain(s), NEW f, NEW a, NEW r
    PROVE  /\ r \in orkd_handle_dom_req(s, f, a) => Outcome("dom_req", r)
           /\ r \in orkd_handle_dom_rel(s, f, a) => Outcome("dom_rel", r)
<1>1. /\ "dom_req" \in Ops /\ Wrapper["dom_req"].body = 0 /\ Wrapper["dom_req"].ok = "dom_ok"
      /\ "dom_rel" \in Ops /\ Wrapper["dom_rel"].body = 1 /\ Wrapper["dom_rel"].ok = "dom_ok"
  BY DEF Ops, Wrapper, Call, orkd_domain_alloc, orkd_domain_free
<1>2. /\ Answer("dom_req", Refused("dom_ok")) /\ Answer("dom_req", Reply("dom_ok", "ok", 0))
      /\ Answer("dom_rel", Refused("dom_ok")) /\ Answer("dom_rel", Reply("dom_ok", "ok", 0))
  BY <1>1, ReplyAnswers DEF Refused, Short
<1>3. \A t, b : Plain(t) /\ Answer("dom_req", b) => Outcome("dom_req", Done(t, 1, b))
  BY <1>1, DoneIs DEF Plain
<1>4. \A t, b : Plain(t) /\ Answer("dom_rel", b) => Outcome("dom_rel", Done(t, 2, b))
  BY <1>1, DoneIs DEF Plain
<1>5. s.owned \in SUBSET (Doms \ {0}) /\ s \in Server
  BY DEF Plain, Sound, Server
<1>6. ASSUME NEW d \in (Doms \ {0}) \ s.owned, NEW t, t = [s EXCEPT !.owned = @ \cup {d}] PROVE Plain(t)
  <2>1. PICK D \in SUBSET (Doms \ {0}) : D = s.owned \cup {d}
    BY <1>5
  <2>2. t = [s EXCEPT !.owned = D]
    BY <1>6, <2>1
  <2> QED BY <2>2, OwnedChange
<1>7. ASSUME NEW d, NEW t, t = [s EXCEPT !.owned = @ \ {d}] PROVE Plain(t)
  <2>1. PICK D \in SUBSET (Doms \ {0}) : D = s.owned \ {d}
    BY <1>5
  <2>2. t = [s EXCEPT !.owned = D]
    BY <1>7, <2>1
  <2> QED BY <2>2, OwnedChange
<1>8. ASSUME r \in orkd_handle_dom_req(s, f, a) PROVE Outcome("dom_req", r)
  <2>1. CASE r = Done(s, 1, Refused("dom_ok"))
    BY <1>2, <1>3, <2>1
  <2>2. CASE \E d \in (Doms \ {0}) \ s.owned :
               r = Done([s EXCEPT !.owned = @ \cup {d}], 1, Reply("dom_ok", "ok", 0))
    BY <1>2, <1>3, <1>6, <2>2
  <2> QED BY <1>8, <2>1, <2>2 DEF orkd_handle_dom_req
<1>9. ASSUME r \in orkd_handle_dom_rel(s, f, a) PROVE Outcome("dom_rel", r)
  <2>1. CASE r = Done(s, 2, Refused("dom_ok"))
    BY <1>2, <1>4, <2>1
  <2>2. CASE r = Done([s EXCEPT !.owned = @ \ {a}], 2, Reply("dom_ok", "ok", 0))
    BY <1>2, <1>4, <1>7, <2>2
  <2> QED BY <1>9, <2>1, <2>2 DEF orkd_handle_dom_rel
<1> QED BY <1>8, <1>9

(* A close of descriptors the handler was passed changes nothing else.     *)
LEMMA CloseDoes ==
    ASSUME NEW s, NEW P, NEW T, NEW d, NEW k, Sound(s, P, T, d, k), NEW F, F \subseteq P,
           NEW t, t = close(s, F)
    PROVE  Sound(t, P \ F, T, d, k) /\ SameRest(s, t) /\ t.wt = s.wt
<1>1. Sound(t, P \ F, T, d, k) /\ t = [s EXCEPT !.open = s.open \ F]
  BY CloseKeeps
<1>2. s \in Server
  BY DEF Sound
<1>3. t.q = s.q /\ t.owned = s.owned /\ t.ring = s.ring /\ t.wt = s.wt
  BY <1>1, <1>2 DEF Server
<1> QED BY <1>1, <1>3 DEF SameRest

(* The descriptors of a handler, taken all together.                       *)
LEMMA PassedIs ==
    ASSUME RequestAssumption, NEW s, NEW f, In(s, f), NEW F, F = {f[1], f[2]} \ {NoFd}
    PROVE  /\ F \subseteq Fds /\ NoFd \notin F /\ Sound(s, F, {}, 0, 0) /\ s.q = NoWork
           /\ F = PassedOf(f)
BY Finite DEF In, PassedOf

(* A handler that closes all it was passed.                                *)
LEMMA CloseAll ==
    ASSUME NEW s, NEW F, Sound(s, F, {}, 0, 0), s.q = NoWork, NEW t, t = close(s, F)
    PROVE  Plain(t)
<1>1. F \subseteq F /\ F \ F = {}
  OBVIOUS
<1>2. Sound(t, F \ F, {}, 0, 0) /\ SameRest(s, t)
  BY <1>1, CloseDoes
<1> QED BY <1>1, <1>2 DEF Plain, SameRest

(* The tiles of an adopted weight: what the weight owns is what is left to *)
(* account for, and the rest is closed.                                    *)
Adopted(s, F, d, w) ==
    /\ SameRest(s, w.s) /\ w.s.wt = s.wt
    /\ w.own = {NoFd} => Sound(w.s, {}, {}, d, 0)
    /\ w.own # {NoFd} => w.own \subseteq F /\ Sound(w.s, w.own, {}, d, Cardinality(Buffers(w)))

(* Adopted, with what the weight owns.                                     *)
LEMMA AdoptedIs ==
    ASSUME NEW s, NEW F, NEW d, NEW t, NEW own, SameRest(s, t), t.wt = s.wt, own # {NoFd}, own \subseteq F,
           Sound(t, own, {}, d, Cardinality(IF own = {} THEN {NoFd} ELSE own)),
           NEW w, w = [s |-> t, own |-> own]
    PROVE  Adopted(s, F, d, w)
<1>1. Buffers(w) = (IF own = {} THEN {NoFd} ELSE own)
  BY DEF Buffers
<1> QED BY <1>1 DEF Adopted

(* Each path of ork_i8_mm_adopt_imported.                                  *)
LEMMA AdoptKeeps ==
    ASSUME RequestAssumption, NEW s, NEW F, F \subseteq Fds, NoFd \notin F, Sound(s, F, {}, 0, 0),
           NEW bb \in F, NEW bf, F = {bb, bf} \ {NoFd}, NEW d \in Doms,
           NEW w \in ork_i8_mm_adopt_imported(s, F, bb, d)
    PROVE  Adopted(s, F, d, w)
<1>1. PICK none : none = {}
  OBVIOUS
<1>2. Sound(s, F, none, d, 0) /\ 0 \in Nat
  BY <1>1, AnyDomain
<1>3. \A m \in orki_bimport_fd(s, d) : Mapped(s, F, none, d, 0, m)
  BY <1>2, ImportKeeps
<1>4. ASSUME NEW m \in orki_bimport_fd(s, d), NEW t, t = close(m.s, F)
      PROVE  /\ m.ok \in BOOLEAN /\ SameRest(s, t) /\ t.wt = s.wt
             /\ Sound(t, none, none, d, IF m.ok THEN 1 ELSE 0)
  <2>1. Mapped(s, F, none, d, 0, m)
    BY <1>3
  <2>2. PICK k : k = IF m.ok THEN 0 + 1 ELSE 0
    OBVIOUS
  <2>3. Sound(m.s, F, none, d, k) /\ m.ok \in BOOLEAN
    BY <2>1, <2>2, OneMapped
  <2>4. PICK u : u = m.s
    OBVIOUS
  <2>5. Sound(t, F \ F, none, d, k) /\ SameRest(u, t) /\ t.wt = u.wt
    BY <1>4, <2>3, <2>4, CloseDoes
  <2>6. SameRest(s, u) /\ u.wt = s.wt
    BY <2>1, <2>4 DEF Mapped, SameHeld, SameRest
  <2>7. F \ F = none /\ k = IF m.ok THEN 1 ELSE 0
    BY <1>1, <2>2
  <2> QED BY <2>3, <2>5, <2>6, <2>7 DEF SameRest
<1>5. Cardinality(IF none = {} THEN {NoFd} ELSE none) = 1 /\ none # {NoFd} /\ none \subseteq F
  BY <1>1, FS_Singleton
<1>6. CASE ~ s.adopt_zc
  <2>1. PICK m \in orki_bimport_fd(s, d) : w = [s |-> close(m.s, F), own |-> IF m.ok THEN {} ELSE {NoFd}]
    BY <1>6 DEF ork_i8_mm_adopt_imported
  <2>2. PICK t : t = close(m.s, F)
    OBVIOUS
  <2>3. m.ok \in BOOLEAN /\ SameRest(s, t) /\ t.wt = s.wt /\ Sound(t, none, none, d, IF m.ok THEN 1 ELSE 0)
    BY <1>4, <2>2
  <2>4. CASE m.ok
    <3>1. w = [s |-> t, own |-> none]
      BY <1>1, <2>1, <2>2, <2>4
    <3>2. Sound(t, none, {}, d, Cardinality(IF none = {} THEN {NoFd} ELSE none))
      BY <1>1, <1>5, <2>3, <2>4
    <3> QED BY <1>5, <2>3, <3>1, <3>2, AdoptedIs
  <2>5. CASE ~ m.ok
    BY <1>1, <2>1, <2>2, <2>3, <2>5 DEF Adopted
  <2> QED BY <2>3, <2>4, <2>5
<1>7. CASE s.adopt_zc
  <2>1. PICK m \in orki_bimport_fd(s, d) :
          w \in IF ~ m.ok THEN {[s |-> close(m.s, F), own |-> {NoFd}]}
                ELSE {IF n.ok THEN [s |-> n.s, own |-> F]
                      ELSE [s |-> close(n.s, F \ {bb}), own |-> {bb}] :
                        n \in IF F = {bb} THEN {m} ELSE orki_bimport_fd(m.s, d)}
    BY <1>7 DEF ork_i8_mm_adopt_imported
  <2>2. Mapped(s, F, none, d, 0, m)
    BY <1>3
  <2>3. m.ok \in BOOLEAN /\ SameRest(s, m.s) /\ m.s.wt = s.wt
    BY <2>2 DEF Mapped, SameHeld, SameRest
  <2>4. CASE ~ m.ok
    <3>1. PICK t : t = close(m.s, F)
      OBVIOUS
    <3>2. SameRest(s, t) /\ t.wt = s.wt /\ Sound(t, none, none, d, 0)
      BY <1>4, <2>4, <3>1
    <3> QED BY <1>1, <2>1, <2>4, <3>1, <3>2 DEF Adopted
  <2>5. CASE m.ok
    <3>1. PICK n \in (IF F = {bb} THEN {m} ELSE orki_bimport_fd(m.s, d)) :
            w = IF n.ok THEN [s |-> n.s, own |-> F]
                ELSE [s |-> close(n.s, F \ {bb}), own |-> {bb}]
      BY <2>1, <2>5
    <3>2. Sound(m.s, F, none, d, 1)
      BY <2>2, <2>5 DEF Mapped
    <3>3. F # {} /\ F # {NoFd} /\ F \subseteq F
      OBVIOUS
    <3>4. CASE F = {bb}
      <4>1. n = m
        BY <3>1, <3>4
      <4>2. Cardinality({bb}) = 1
        BY FS_Singleton
      <4>3. Cardinality(IF F = {} THEN {NoFd} ELSE F) = 1
        BY <3>3, <3>4, <4>2
      <4>4. w = [s |-> m.s, own |-> F]
        BY <2>5, <3>1, <4>1
      <4>5. PICK t : t = m.s
        OBVIOUS
      <4>6. Sound(t, F, {}, d, Cardinality(IF F = {} THEN {NoFd} ELSE F))
        BY <1>1, <3>2, <4>3, <4>5
      <4> QED BY <2>3, <3>3, <4>4, <4>5, <4>6, AdoptedIs
    <3>5. CASE F # {bb}
      <4>1. PICK u : u = m.s
        OBVIOUS
      <4>2. Mapped(u, F, none, d, 1, n)
        <5>1. n \in orki_bimport_fd(u, d) /\ 1 \in Nat /\ Sound(u, F, none, d, 1)
          BY <3>1, <3>2, <3>5, <4>1
        <5> QED BY <5>1, ImportKeeps
      <4>3. n.ok \in BOOLEAN /\ SameRest(s, n.s) /\ n.s.wt = s.wt
        BY <2>3, <4>1, <4>2 DEF Mapped, SameHeld, SameRest
      <4>4. PICK one : one = {bb}
        OBVIOUS
      <4>5. IsFiniteSet(one) /\ Cardinality(one) = 1
        <5>1. IsFiniteSet({bb}) /\ Cardinality({bb}) = 1
          BY FS_Singleton
        <5> QED BY <4>4, <5>1
      <4>6. CASE n.ok
        <5>1. bf \notin one /\ F = one \cup {bf}
          BY <3>5, <4>4
        <5>2. Cardinality(one \cup {bf}) = Cardinality(one) + 1
          BY <4>5, <5>1, FS_AddElement
        <5>3. Cardinality(IF F = {} THEN {NoFd} ELSE F) = 1 + 1
          BY <3>3, <4>5, <5>1, <5>2
        <5>4. PICK t : t = n.s
          OBVIOUS
        <5>5. Sound(t, F, {}, d, Cardinality(IF F = {} THEN {NoFd} ELSE F))
          BY <1>1, <4>2, <4>6, <5>3, <5>4 DEF Mapped
        <5>6. w = [s |-> t, own |-> F]
          BY <3>1, <4>6, <5>4
        <5> QED BY <3>3, <4>3, <5>4, <5>5, <5>6, AdoptedIs
      <4>7. CASE ~ n.ok
        <5>1. PICK G : G = F \ {bb}
          OBVIOUS
        <5>2. PICK v : v = n.s
          OBVIOUS
        <5>3. PICK t : t = close(v, G)
          OBVIOUS
        <5>4. Sound(v, F, none, d, 1) /\ G \subseteq F /\ F \ G = one
          BY <4>2, <4>4, <4>7, <5>1, <5>2 DEF Mapped
        <5>5. Sound(t, F \ G, none, d, 1) /\ SameRest(v, t) /\ t.wt = v.wt
          BY <5>3, <5>4, CloseDoes
        <5>6. one # {} /\ one # {NoFd} /\ one \subseteq F
          BY <4>4
        <5>7. Sound(t, one, {}, d, Cardinality(IF one = {} THEN {NoFd} ELSE one))
          BY <1>1, <4>5, <5>4, <5>5, <5>6
        <5>8. SameRest(s, t) /\ t.wt = s.wt
          BY <4>3, <5>2, <5>5 DEF SameRest
        <5>9. w = [s |-> t, own |-> one]
          BY <3>1, <4>4, <4>7, <5>1, <5>2, <5>3
        <5> QED BY <5>6, <5>7, <5>8, <5>9, AdoptedIs
      <4> QED BY <4>3, <4>6, <4>7
    <3> QED BY <3>4, <3>5
  <2> QED BY <2>3, <2>4, <2>5
<1>8. s.adopt_zc \in BOOLEAN
  BY DEF Sound, Server
<1> QED BY <1>6, <1>7, <1>8

(* The handlers that are passed descriptors.                               *)
LEMMA ImportIs ==
    ASSUME RequestAssumption, NEW s, NEW f, In(s, f), NEW d \in Doms, NEW r \in orkd_handle_import(s, f, d)
    PROVE  Outcome("import", r)
<1>1. "import" \in Ops /\ Wrapper["import"].body = 1 /\ Wrapper["import"].ok = "import_ok"
  BY DEF Ops, Wrapper, Call, orkd_import_i8
<1>2. /\ Answer("import", Error) /\ Answer("import", Refused("import_ok"))
      /\ Answer("import", Reply("import_ok", "ok", 0))
  BY <1>1, ReplyAnswers DEF Error, Refused, Short
<1>3. \A t, a : Plain(t) /\ Answer("import", a) => Outcome("import", Done(t, 2, a))
  BY <1>1, DoneIs DEF Plain
<1>4. PICK F : F = {f[1], f[2]} \ {NoFd}
  OBVIOUS
<1>5. F \subseteq Fds /\ NoFd \notin F /\ Sound(s, F, {}, 0, 0) /\ s.q = NoWork
  BY <1>4, PassedIs
<1>6. CASE r = Done(close(s, F), 2, Error)
  BY <1>2, <1>3, <1>5, <1>6, CloseAll
<1>7. ASSUME f[1] # NoFd, NEW w \in ork_i8_mm_adopt_imported(s, F, f[1], d),
             r = IF w.own = {NoFd} THEN Done(w.s, 2, Refused("import_ok"))
                 ELSE IF Room(s) = {}
                 THEN Done(close(ork_iova_release(w.s, d, Cardinality(Buffers(w))), w.own), 2, Refused("import_ok"))
                 ELSE Done(Register(w.s, d, w.own), 2, Reply("import_ok", "ok", 0))
      PROVE  Outcome("import", r)
  <2>1. PICK bb : bb = f[1]
    OBVIOUS
  <2>2. PICK bf : bf = f[2]
    OBVIOUS
  <2>3. bb \in F /\ F = {bb, bf} \ {NoFd} /\ w \in ork_i8_mm_adopt_imported(s, F, bb, d)
    BY <1>4, <1>7, <2>1, <2>2
  <2>4. Adopted(s, F, d, w)
    BY <1>5, <2>3, AdoptKeeps
  <2>5. SameRest(s, w.s) /\ w.s.wt = s.wt /\ w.s.q = NoWork /\ Room(w.s) = Room(s)
    BY <1>5, <2>4 DEF Adopted, SameRest, Room
  <2>6. CASE w.own = {NoFd}
    <3>1. PICK t : t = w.s
      OBVIOUS
    <3>2. Sound(t, {}, {}, d, 0)
      BY <2>4, <2>6, <3>1 DEF Adopted
    <3>3. Plain(t)
      BY <2>5, <3>1, <3>2, AnyDomain DEF Plain
    <3> QED BY <1>2, <1>3, <1>7, <2>6, <3>1, <3>3
  <2>7. CASE w.own # {NoFd}
    <3>1. PICK u : u = w.s
      OBVIOUS
    <3>2. PICK own : own = w.own
      OBVIOUS
    <3>3. PICK k : k = Cardinality(Buffers(w))
      OBVIOUS
    <3>4. PICK none : none = {}
      OBVIOUS
    <3>5. Sound(u, own, none, d, k) /\ own \subseteq F /\ own \subseteq Fds
      BY <1>5, <2>4, <2>7, <3>1, <3>2, <3>3, <3>4 DEF Adopted
    <3>6. k = Cardinality(IF own = {} THEN {NoFd} ELSE own)
      BY <3>2, <3>3 DEF Buffers
    <3>7. k \in Nat /\ k <= k /\ k - k = 0
      <4>1. IsFiniteSet(Buffers(w))
        BY <3>2, <3>5, Finite, FS_Subset, FS_AddElement DEF Buffers
      <4>2. k \in Nat
        BY <3>3, <4>1, FS_CardinalityType
      <4> QED BY <4>2
    <3>8. CASE Room(s) = {}
      <4>1. PICK v : v = ork_iova_release(u, d, k)
        OBVIOUS
      <4>2. Sound(v, own, none, d, k - k) /\ SameHeld(u, v)
        BY <3>5, <3>7, <4>1, ReleaseKeeps
      <4>3. PICK t : t = close(v, own)
        OBVIOUS
      <4>4. Sound(v, own, {}, d, 0)
        BY <3>4, <3>7, <4>2
      <4>5. Sound(v, own, {}, 0, 0) /\ v.q = NoWork
        BY <2>5, <3>1, <4>2, <4>4, AnyDomain DEF SameHeld
      <4>6. Plain(t)
        BY <4>3, <4>5, CloseAll
      <4>7. r = Done(t, 2, Refused("import_ok"))
        BY <1>7, <2>7, <3>1, <3>2, <3>3, <3>8, <4>1, <4>3
      <4> QED BY <1>2, <1>3, <4>6, <4>7
    <3>9. CASE Room(s) # {}
      <4>1. PICK t : t = Register(u, d, own)
        OBVIOUS
      <4>2. own \subseteq own /\ Room(u) # {} /\ own \ own = {}
        BY <2>5, <3>1, <3>9
      <4>3. Sound(t, own \ own, none, d, k - k) /\ SameRest(u, t)
        BY <3>5, <3>6, <3>7, <4>1, <4>2, RegisterKeeps
      <4>4. Sound(t, {}, {}, d, 0)
        BY <3>4, <3>7, <4>2, <4>3
      <4>5. Plain(t)
        BY <2>5, <3>1, <4>3, <4>4, AnyDomain DEF Plain, SameRest
      <4>6. r = Done(t, 2, Reply("import_ok", "ok", 0))
        BY <1>7, <2>7, <3>1, <3>2, <3>9, <4>1
      <4> QED BY <1>2, <1>3, <4>5, <4>6
    <3> QED BY <3>8, <3>9
  <2> QED BY <2>6, <2>7
<1> QED BY <1>4, <1>6, <1>7 DEF orkd_handle_import

(* A run of a resident weight.                                             *)
LEMMA RunIs ==
    ASSUME NEW s, Plain(s), NEW f, NEW i, NEW r \in orkd_handle_run(s, f, i)
    PROVE  Outcome("run", r)
<1>1. "run" \in Ops /\ Wrapper["run"].body = 2 /\ Wrapper["run"].ok = "run_ok" /\ "run" \in RunOps
  BY DEF Ops, Wrapper, Call, orkd_run, RunOps
<1>2. Answer("run", Error)
  BY <1>1, ReplyAnswers DEF Error, Short
<1>3. CASE r = Done(s, 3, Error)
  BY <1>1, <1>2, <1>3, DoneIs DEF Plain
<1>4. CASE i \in DOMAIN s.wt /\ \E t \in Queue(s, i, "run", {}) : r = Done(t, 3, <<>>)
  <2>1. PICK imp : imp = {}
    OBVIOUS
  <2>2. PICK t \in Queue(s, i, "run", imp) : r = Done(t, 3, <<>>)
    BY <1>4, <2>1
  <2>3. Sound(s, {}, imp, 0, 0) /\ imp \subseteq Fds
    BY <2>1 DEF Plain
  <2>4. Outcome("run", Done(t, 1 + Wrapper["run"].body, <<>>))
    BY <1>1, <1>4, <2>3, QueueIs
  <2> QED BY <1>1, <2>2, <2>4
<1> QED BY <1>3, <1>4 DEF orkd_handle_run

(* One descriptor: the table's after its import, the handler's otherwise.  *)
LEMMA OneImport ==
    ASSUME RequestAssumption, NEW s, NEW x \in Fds, NEW F, F = {x}, Sound(s, F, {}, 0, 0), s.q = NoWork,
           NEW m \in ork_dma_import_fd(s, x)
    PROVE  /\ m.ok \in BOOLEAN /\ m.s.q = NoWork /\ m.s.wt = s.wt
           /\ m.ok => Sound(m.s, {}, F, 0, 0) /\ Plain(ork_dma_free(m.s, F))
           /\ ~ m.ok => Plain(close(m.s, F))
<1>1. PICK none : none = {}
  OBVIOUS
<1>2. x \in F /\ Sound(s, F, none, 0, 0)
  BY <1>1
<1>3. /\ m.ok \in BOOLEAN
      /\ m.ok => Sound(m.s, F \ {x}, none \cup {x}, 0, 0)
      /\ ~ m.ok => Sound(m.s, F, none, 0, 0)
      /\ SameRest(s, m.s) /\ m.s.wt = s.wt
  BY <1>2, DmaImportKeeps
<1>4. F \ {x} = none /\ none \cup {x} = F /\ F \ F = none
  BY <1>1
<1>5. m.s.q = NoWork
  BY <1>3 DEF SameRest
<1>6. CASE m.ok
  <2>1. PICK u : u = m.s
    OBVIOUS
  <2>2. PICK t : t = ork_dma_free(u, F)
    OBVIOUS
  <2>3. Sound(u, none, F, 0, 0) /\ F \subseteq F /\ 0 \in Nat
    BY <1>3, <1>4, <1>6, <2>1
  <2>4. Sound(t, none, F \ F, 0, 0) /\ SameRest(u, t)
    BY <2>2, <2>3, FreeImports
  <2>5. Plain(t)
    BY <1>1, <1>4, <1>5, <2>1, <2>4 DEF Plain, SameRest
  <2> QED BY <1>1, <1>3, <1>4, <1>5, <1>6, <2>1, <2>2, <2>5
<1>7. CASE ~ m.ok
  <2>1. PICK u : u = m.s
    OBVIOUS
  <2>2. PICK t : t = close(u, F)
    OBVIOUS
  <2>3. Sound(u, F, {}, 0, 0) /\ u.q = NoWork
    BY <1>1, <1>3, <1>5, <1>7, <2>1
  <2>4. Plain(t)
    BY <2>2, <2>3, CloseAll
  <2> QED BY <1>3, <1>5, <1>7, <2>1, <2>2, <2>4
<1> QED BY <1>3, <1>6, <1>7

(* A run on the client's buffer.                                           *)
LEMMA RunZcIs ==
    ASSUME RequestAssumption, NEW s, NEW f, In(s, f), f[2] = NoFd, NEW i, NEW r \in orkd_handle_run_zc(s, f, i)
    PROVE  Outcome("run_zc", r)
<1>1. "run_zc" \in Ops /\ Wrapper["run_zc"].body = 1 /\ Wrapper["run_zc"].ok = "run_ok" /\ "run_zc" \in RunOps
  BY DEF Ops, Wrapper, Call, orkd_run_i8_zc, RunOps
<1>2. Answer("run_zc", Error)
  BY <1>1, ReplyAnswers DEF Error, Short
<1>3. \A t : Plain(t) => Outcome("run_zc", Done(t, 2, Error))
  BY <1>1, <1>2, DoneIs DEF Plain
<1>4. PICK F : F = {f[1], f[2]} \ {NoFd}
  OBVIOUS
<1>5. F \subseteq Fds /\ NoFd \notin F /\ Sound(s, F, {}, 0, 0) /\ s.q = NoWork
  BY <1>4, PassedIs
<1>6. F = {f[1]} \ {NoFd}
  BY <1>4
<1>7. CASE r = Done(close(s, F), 2, Error)
  BY <1>3, <1>5, <1>7, CloseAll
<1>8. ASSUME i \in DOMAIN s.wt, f[1] # NoFd, NEW m \in ork_dma_import_fd(s, f[1]),
             r \in IF ~ m.ok THEN {Done(close(m.s, {f[1]}), 2, Error)}
                   ELSE {Done(ork_dma_free(m.s, {f[1]}), 2, Error)} \cup
                        {Done(t, 2, <<>>) : t \in Queue(m.s, i, "run_zc", {f[1]})}
      PROVE  Outcome("run_zc", r)
  <2>1. PICK x : x = f[1]
    OBVIOUS
  <2>2. F = {x} /\ x \in Fds /\ F = {f[1]} /\ m \in ork_dma_import_fd(s, x)
    BY <1>5, <1>6, <1>8, <2>1
  <2>3. /\ m.ok \in BOOLEAN /\ m.s.q = NoWork /\ m.s.wt = s.wt
        /\ m.ok => Sound(m.s, {}, F, 0, 0) /\ Plain(ork_dma_free(m.s, F))
        /\ ~ m.ok => Plain(close(m.s, F))
    BY <1>5, <2>2, OneImport
  <2>4. CASE r = Done(close(m.s, F), 2, Error) /\ ~ m.ok
    BY <1>3, <2>3, <2>4
  <2>5. CASE r = Done(ork_dma_free(m.s, F), 2, Error) /\ m.ok
    BY <1>3, <2>3, <2>5
  <2>6. CASE m.ok /\ \E t \in Queue(m.s, i, "run_zc", F) : r = Done(t, 2, <<>>)
    <3>1. PICK u : u = m.s
      OBVIOUS
    <3>2. PICK t \in Queue(u, i, "run_zc", F) : r = Done(t, 2, <<>>)
      BY <2>6, <3>1
    <3>3. Sound(u, {}, F, 0, 0) /\ i \in DOMAIN u.wt
      BY <1>8, <2>3, <2>6, <3>1
    <3>4. Outcome("run_zc", Done(t, 1 + Wrapper["run_zc"].body, <<>>))
      BY <1>1, <1>5, <3>3, QueueIs
    <3> QED BY <1>1, <3>2, <3>4
  <2> QED BY <1>8, <2>2, <2>3, <2>4, <2>5, <2>6
<1>9. CASE i \notin DOMAIN s.wt \/ f[1] = NoFd
  <2>1. r \in {Done(close(s, {f[1]} \ {NoFd}), 2, Error)}
    BY <1>9 DEF orkd_handle_run_zc
  <2> QED BY <1>6, <1>7, <2>1
<1>10. CASE ~ (i \notin DOMAIN s.wt \/ f[1] = NoFd)
  <2>1. PICK m \in ork_dma_import_fd(s, f[1]) :
             r \in IF ~ m.ok THEN {Done(close(m.s, {f[1]}), 2, Error)}
                   ELSE {Done(ork_dma_free(m.s, {f[1]}), 2, Error)} \cup
                        {Done(t, 2, <<>>) : t \in Queue(m.s, i, "run_zc", {f[1]})}
    BY <1>10 DEF orkd_handle_run_zc
  <2> QED BY <1>8, <1>10, <2>1
<1> QED BY <1>9, <1>10

(* A run from and into the client's buffers: two imports, either of which  *)
(* may fail.                                                               *)
LEMMA RunZc2Is ==
    ASSUME RequestAssumption, NEW s, NEW f, In(s, f), NEW i, NEW r \in orkd_handle_run_zc2(s, f, i)
    PROVE  Outcome("run_zc2", r)
<1>1. "run_zc2" \in Ops /\ Wrapper["run_zc2"].body = 1 /\ Wrapper["run_zc2"].ok = "run_ok" /\ "run_zc2" \in RunOps
  BY DEF Ops, Wrapper, Call, orkd_run_i8_zc2, RunOps
<1>2. Answer("run_zc2", Error)
  BY <1>1, ReplyAnswers DEF Error, Short
<1>3. \A t : Plain(t) => Outcome("run_zc2", Done(t, 2, Error))
  BY <1>1, <1>2, DoneIs DEF Plain
<1>4. PICK F : F = {f[1], f[2]} \ {NoFd}
  OBVIOUS
<1>5. F \subseteq Fds /\ NoFd \notin F /\ Sound(s, F, {}, 0, 0) /\ s.q = NoWork
  BY <1>4, PassedIs
<1>6. CASE i \notin DOMAIN s.wt \/ NoFd \in {f[1], f[2]}
  <2>1. r = Done(close(s, F), 2, Error)
    BY <1>4, <1>6 DEF orkd_handle_run_zc2
  <2> QED BY <1>3, <1>5, <2>1, CloseAll
<1>7. CASE ~ (i \notin DOMAIN s.wt \/ NoFd \in {f[1], f[2]})
  <2>1. PICK x : x = f[1]
    OBVIOUS
  <2>2. PICK y : y = f[2]
    OBVIOUS
  <2>3. i \in DOMAIN s.wt /\ x \in F /\ y \in F /\ x # y /\ F = {x, y}
    BY <1>4, <1>7, <2>1, <2>2 DEF In
  <2>4. PICK m \in ork_dma_import_fd(s, x) :
          r \in IF ~ m.ok THEN {Done(close(m.s, F), 2, Error)}
                ELSE UNION {IF ~ n.ok
                            THEN {Done(close(ork_dma_free(n.s, {f[1]}), {f[2]}), 2, Error)}
                            ELSE {Done(ork_dma_free(n.s, F), 2, Error)} \cup
                                 {Done(t, 2, <<>>) : t \in Queue(n.s, i, "run_zc2", F)} :
                              n \in ork_dma_import_fd(m.s, f[2])}
    <3>1. orkd_handle_run_zc2(s, f, i) =
            UNION {IF ~ m.ok THEN {Done(close(m.s, F), 2, Error)}
                   ELSE UNION {IF ~ n.ok
                               THEN {Done(close(ork_dma_free(n.s, {f[1]}), {f[2]}), 2, Error)}
                               ELSE {Done(ork_dma_free(n.s, F), 2, Error)} \cup
                                    {Done(t, 2, <<>>) : t \in Queue(n.s, i, "run_zc2", F)} :
                                 n \in ork_dma_import_fd(m.s, f[2])} :
                     m \in ork_dma_import_fd(s, f[1])}
      BY <1>4, <1>7 DEF orkd_handle_run_zc2
    <3> QED BY <2>1, <3>1
  <2>5. PICK none : none = {}
    OBVIOUS
  <2>6. PICK A : A = {x}
    OBVIOUS
  <2>7. PICK B : B = {y}
    OBVIOUS
  <2>8. /\ m.ok \in BOOLEAN
        /\ m.ok => Sound(m.s, F \ {x}, none \cup {x}, 0, 0)
        /\ ~ m.ok => Sound(m.s, F, none, 0, 0)
        /\ SameRest(s, m.s) /\ m.s.wt = s.wt
    <3>1. x \in F /\ x \in Fds /\ Sound(s, F, none, 0, 0)
      BY <1>5, <2>3, <2>5
    <3> QED BY <3>1, DmaImportKeeps
  <2>9. PICK u : u = m.s
    OBVIOUS
  <2>10. CASE ~ m.ok
    <3>1. Sound(u, F, {}, 0, 0) /\ u.q = NoWork
      BY <1>5, <2>5, <2>8, <2>9, <2>10 DEF SameRest
    <3>2. r = Done(close(u, F), 2, Error)
      BY <2>4, <2>9, <2>10
    <3> QED BY <1>3, <3>1, <3>2, CloseAll
  <2>11. CASE m.ok
    <3>1. PICK n \in ork_dma_import_fd(u, y) :
            r \in IF ~ n.ok THEN {Done(close(ork_dma_free(n.s, A), B), 2, Error)}
                  ELSE {Done(ork_dma_free(n.s, F), 2, Error)} \cup
                       {Done(t, 2, <<>>) : t \in Queue(n.s, i, "run_zc2", F)}
      BY <2>1, <2>2, <2>4, <2>6, <2>7, <2>9, <2>11
    <3>2. Sound(u, B, A, 0, 0) /\ u.q = NoWork /\ u.wt = s.wt
      <4>1. F \ {x} = B /\ none \cup {x} = A
        BY <2>3, <2>5, <2>6, <2>7
      <4> QED BY <1>5, <2>8, <2>9, <2>11, <4>1 DEF SameRest
    <3>3. /\ n.ok \in BOOLEAN
          /\ n.ok => Sound(n.s, B \ {y}, A \cup {y}, 0, 0)
          /\ ~ n.ok => Sound(n.s, B, A, 0, 0)
          /\ SameRest(u, n.s) /\ n.s.wt = u.wt
      <4>1. y \in B /\ y \in Fds
        BY <1>5, <2>3, <2>7
      <4> QED BY <3>2, <4>1, DmaImportKeeps
    <3>4. PICK v : v = n.s
      OBVIOUS
    <3>5. v.q = NoWork /\ v.wt = s.wt
      BY <3>2, <3>3, <3>4 DEF SameRest
    <3>6. CASE ~ n.ok
      <4>1. PICK t : t = ork_dma_free(v, A)
        OBVIOUS
      <4>2. Sound(v, B, A, 0, 0) /\ A \subseteq A /\ 0 \in Nat /\ A \ A = {}
        BY <3>3, <3>4, <3>6
      <4>3. Sound(t, B, A \ A, 0, 0) /\ SameRest(v, t)
        BY <4>1, <4>2, FreeImports
      <4>4. Sound(t, B, {}, 0, 0) /\ t.q = NoWork
        BY <3>5, <4>2, <4>3 DEF SameRest
      <4>5. r = Done(close(t, B), 2, Error)
        BY <3>1, <3>4, <3>6, <4>1
      <4> QED BY <1>3, <4>4, <4>5, CloseAll
    <3>7. CASE n.ok
      <4>1. Sound(v, {}, F, 0, 0) /\ F \subseteq F /\ 0 \in Nat /\ F \ F = {}
        <5>1. B \ {y} = {} /\ A \cup {y} = F
          BY <2>3, <2>6, <2>7
        <5> QED BY <3>3, <3>4, <3>7, <5>1
      <4>2. CASE r = Done(ork_dma_free(v, F), 2, Error)
        <5>1. PICK t : t = ork_dma_free(v, F)
          OBVIOUS
        <5>2. Sound(v, none, F, 0, 0)
          BY <2>5, <4>1
        <5>3. Sound(t, none, F \ F, 0, 0) /\ SameRest(v, t)
          BY <4>1, <5>1, <5>2, FreeImports
        <5>4. Plain(t)
          BY <2>5, <3>5, <4>1, <5>3 DEF Plain, SameRest
        <5> QED BY <1>3, <4>2, <5>1, <5>4
      <4>3. CASE \E t \in Queue(v, i, "run_zc2", F) : r = Done(t, 2, <<>>)
        <5>1. PICK t \in Queue(v, i, "run_zc2", F) : r = Done(t, 2, <<>>)
          BY <4>3
        <5>2. i \in DOMAIN v.wt
          BY <2>3, <3>5
        <5>3. Outcome("run_zc2", Done(t, 1 + Wrapper["run_zc2"].body, <<>>))
          BY <1>1, <1>5, <4>1, <5>2, QueueIs
        <5> QED BY <1>1, <5>1, <5>3
      <4> QED BY <3>1, <3>4, <3>7, <4>2, <4>3
    <3> QED BY <3>3, <3>6, <3>7
  <2> QED BY <2>8, <2>10, <2>11
<1> QED BY <1>6, <1>7

(* The probe gives back what it mapped.                                    *)
LEMMA DmabufIs ==
    ASSUME RequestAssumption, NEW s, NEW f, In(s, f), f[2] = NoFd, NEW a, NEW r \in orkd_handle_dmabuf(s, f, a)
    PROVE  Outcome("dmabuf", r)
<1>1. "dmabuf" \in Ops /\ Wrapper["dmabuf"].body = 1 /\ Wrapper["dmabuf"].ok = "dmabuf_ok"
  BY DEF Ops, Wrapper, Call, orkd_dmabuf_probe
<1>2. \A rc \in {"ok", "fail"} : Answer("dmabuf", Reply("dmabuf_ok", rc, 0))
  <2>1. ASSUME NEW rc \in {"ok", "fail"} PROVE Answer("dmabuf", Reply("dmabuf_ok", rc, 0))
    <3>1. PICK type : type = "dmabuf_ok"
      OBVIOUS
    <3>2. type \in {Wrapper["dmabuf"].ok, "error"} /\ type = Wrapper["dmabuf"].ok /\ "dmabuf" # "ring_setup"
      BY <1>1, <3>1
    <3>3. Answer("dmabuf", Reply(type, rc, 0))
      BY <1>1, <3>2, ReplyAnswers
    <3> QED BY <3>1, <3>3
  <2> QED BY <2>1
<1>3. \A t : Plain(t) => \A rc \in {"ok", "fail"} : Outcome("dmabuf", Done(t, 2, Reply("dmabuf_ok", rc, 0)))
  BY <1>1, <1>2, DoneIs DEF Plain
<1>4. PICK F : F = {f[1], f[2]} \ {NoFd}
  OBVIOUS
<1>5. F \subseteq Fds /\ NoFd \notin F /\ Sound(s, F, {}, 0, 0) /\ s.q = NoWork
  BY <1>4, PassedIs
<1>6. CASE f[1] = NoFd
  <2>1. F = {}
    BY <1>4, <1>6
  <2>2. Plain(s)
    BY <1>5, <2>1 DEF Plain
  <2>3. r = Done(s, 2, Reply("dmabuf_ok", "fail", 0))
    BY <1>6 DEF orkd_handle_dmabuf, Refused
  <2> QED BY <1>3, <2>2, <2>3
<1>7. CASE f[1] # NoFd
  <2>1. PICK x : x = f[1]
    OBVIOUS
  <2>2. F = {x} /\ x \in Fds /\ F = {f[1]}
    BY <1>4, <1>5, <1>7, <2>1
  <2>3. PICK m \in ork_dma_import_fd(s, x) : \E rc \in {"ok", "fail"} :
          r = Done(IF m.ok THEN ork_dma_free(m.s, F) ELSE close(m.s, F), 2, Reply("dmabuf_ok", rc, 0))
    BY <1>7, <2>1, <2>2 DEF orkd_handle_dmabuf
  <2>4. /\ m.ok \in BOOLEAN
        /\ m.ok => Plain(ork_dma_free(m.s, F))
        /\ ~ m.ok => Plain(close(m.s, F))
    BY <1>5, <2>2, OneImport
  <2>5. CASE m.ok
    BY <1>3, <2>3, <2>4, <2>5
  <2>6. CASE ~ m.ok
    BY <1>3, <2>3, <2>4, <2>6
  <2> QED BY <2>4, <2>5, <2>6
<1> QED BY <1>6, <1>7

(* The ring keeps its descriptor, the first time.                          *)
LEMMA RingSetupIs ==
    ASSUME RequestAssumption, NEW s, NEW f, In(s, f), f[2] = NoFd, NEW a, NEW r \in orkd_handle_ring_setup(s, f, a)
    PROVE  Outcome("ring_setup", r)
<1>1. "ring_setup" \in Ops /\ Wrapper["ring_setup"].body = 1 /\ Wrapper["ring_setup"].ok = "ring_ok"
  BY DEF Ops, Wrapper, Call, orkd_ring_setup
<1>2. Answer("ring_setup", Refused("ring_ok")) /\ Answer("ring_setup", Reply("ring_ok", "ok", 0))
  BY <1>1, ReplyAnswers DEF Refused
<1>3. \A t, b : Plain(t) /\ Answer("ring_setup", b) => Outcome("ring_setup", Done(t, 2, b))
  BY <1>1, DoneIs DEF Plain
<1>4. PICK F : F = {f[1], f[2]} \ {NoFd}
  OBVIOUS
<1>5. F \subseteq Fds /\ NoFd \notin F /\ Sound(s, F, {}, 0, 0) /\ s.q = NoWork /\ F = {f[1]} \ {NoFd}
  BY <1>4, PassedIs
<1>6. CASE r = Done(close(s, F), 2, Refused("ring_ok"))
  BY <1>2, <1>3, <1>5, <1>6, CloseAll
<1>7. ASSUME f[1] # NoFd, s.ring = NoFd, NEW t, t = [s EXCEPT !.ring = f[1]] PROVE Plain(t)
  <2>1. PICK x : x = f[1]
    OBVIOUS
  <2>2. F = {x} /\ x \in Fds /\ s \in Server /\ t = [s EXCEPT !.ring = x] /\ x # NoFd
    BY <1>5, <1>7, <2>1 DEF Sound
  <2>3. /\ t \in Server /\ t.ring = x /\ t.q = s.q /\ t.wt = s.wt /\ t.open = s.open /\ t.tab = s.tab
        /\ t.ebadf = s.ebadf /\ t.iova = s.iova /\ t.lost = s.lost
    BY <2>2 DEF Server
  <2>4. OwnOf(t) = OwnOf(s) /\ RingOf(t) = {x} /\ RingOf(s) = {}
    BY <1>7, <2>2, <2>3 DEF OwnOf, RingOf
  <2>5. Mine(t, {})
    BY <1>5, <2>2, <2>3, <2>4 DEF Sound, Mine
  <2>6. Account(t, 0, 0)
    BY <1>5, <2>3, SameAccount DEF Sound
  <2> QED BY <1>5, <2>3, <2>5, <2>6 DEF Plain, Sound
<1>8. CASE f[1] # NoFd /\ s.ring = NoFd /\ r = Done([s EXCEPT !.ring = f[1]], 2, Reply("ring_ok", "ok", 0))
  BY <1>2, <1>3, <1>7, <1>8
<1> QED BY <1>5, <1>6, <1>8 DEF orkd_handle_ring_setup

-----------------------------------------------------------------------------
(* The streams.                                                            *)

(* What the daemon has not read of a request: the message, or a first part. *)
Coming(op, q) ==
    /\ q \in Seq(Unit) /\ q # <<>> /\ q[1].hdr
    /\ op \in Ops /\ q[1].type = op /\ q[1].n \in Wrapper[op].fds
    /\ Len(q) <= 1 + Wrapper[op].body
    /\ Len(q) >= 2 => q[2].n \in Wrapper[op].args

IsBye(q) == q \in Seq(Unit) /\ Len(q) = 1 /\ q[1] = Header("bye", 0)

IsCall(c) == c = NoCall \/ c \in [op : Ops, todo : Seq(Unit)]

(* What is written of a call and what is not make up its message.          *)
Asking(c, u) ==
    /\ Coming(c.op, u) /\ Len(u) + Len(c.todo) = 1 + Wrapper[c.op].body
    /\ Len(u) = 1 /\ c.todo # <<>> => c.todo[1].n \in Wrapper[c.op].args

(* A client that is connected is between two calls, is asking, has been    *)
(* answered, or waits for a run that is queued; one that is gone has left  *)
(* a run, a goodbye or the first part of a message.                        *)
Idle(c, u, d, q) == c = NoCall /\ u = <<>> /\ d = <<>> /\ q = NoWork
Asked(c, u, d, q) == c # NoCall /\ Asking(c, u) /\ d = <<>> /\ q = NoWork
Answered(c, u, d, q) == c # NoCall /\ c.todo = <<>> /\ u = <<>> /\ Answer(c.op, d) /\ q = NoWork
Waiting(c, u, d, q) ==
    c # NoCall /\ c.todo = <<>> /\ u = <<>> /\ d = <<>> /\ c.op \in RunOps /\ q # NoWork
Left(c, u, d, q) ==
    /\ c = NoCall /\ d = <<>>
    /\ \/ u = <<>>
       \/ q = NoWork /\ IsBye(u)
       \/ q = NoWork /\ Coming(u[1].type, u)
Dropped(c, u, d, q) == u = <<>> /\ q = NoWork /\ (d # <<>> => c # NoCall /\ Answer(c.op, d))

Flow(l, c, u, d, q) ==
    /\ l \in {"off", "up", "cut", "shut"} /\ IsCall(c)
    /\ l = "off" => Idle(c, u, d, q)
    /\ l = "up" => Idle(c, u, d, q) \/ Asked(c, u, d, q) \/ Answered(c, u, d, q) \/ Waiting(c, u, d, q)
    /\ l = "cut" => Left(c, u, d, q)
    /\ l = "shut" => Dropped(c, u, d, q)

IInv ==
    /\ Flow(link, call, up, down, srv.q)
    /\ Sound(srv, {}, srv.q.imp, 0, 0)
    /\ link \in {"off", "shut"} => Blank(srv)

(* The wrappers, typed.                                                    *)
LEMMA WrapperTyped ==
    ASSUME RequestAssumption, NEW op \in Ops
    PROVE  /\ Wrapper[op].body \in {0, 1, 2, 3} /\ Wrapper[op].fds \subseteq {0, 1, 2}
           /\ Wrapper[op].args \subseteq Nat /\ op \in Names /\ op # "none" /\ op # "bye"
<1>1. Doms \subseteq Nat /\ Ids \subseteq Nat /\ Counts \subseteq Nat
  BY DEF Doms, Ids, Counts, RequestAssumption
<1>2. /\ Wrapper[op].body \in {0, 1, 2, 3} /\ Wrapper[op].fds \subseteq {0, 1, 2}
      /\ Wrapper[op].args \in {{0}, Doms, Doms \ {0}, Ids, Counts} /\ op # "none" /\ op # "bye"
  <2>1. op # "none" /\ op # "bye"
    BY DEF Ops, Wrapper
  <2>2. PICK w \in
          {orkd_connect, orkd_ping, orkd_domain_alloc, orkd_domain_free, orkd_ring_setup,
           orkd_pack, orkd_kv_alloc, orkd_kv_append, orkd_import_i8, orkd_ffn_i8, orkd_attn_i8,
           orkd_attn_rr_i8, orkd_layer_i8, orkd_run, orkd_sdp_call, orkd_run_chain_i8, orkd_submit_seq,
           orkd_free_weight, orkd_dmabuf_probe, orkd_run_i8_zc, orkd_run_i8_zc2} :
            w = Wrapper[op]
    BY DEF Ops, Wrapper
  <2>3. w.body \in {0, 1, 2, 3}
    BY <2>2 DEF Call, orkd_connect, orkd_ping, orkd_domain_alloc, orkd_domain_free, orkd_ring_setup,
         orkd_pack, orkd_kv_alloc, orkd_kv_append, orkd_import_i8, orkd_ffn_i8, orkd_attn_i8,
         orkd_attn_rr_i8, orkd_layer_i8, orkd_run, orkd_sdp_call, orkd_run_chain_i8, orkd_submit_seq,
         orkd_free_weight, orkd_dmabuf_probe, orkd_run_i8_zc, orkd_run_i8_zc2
  <2>4. w.fds \subseteq {0, 1, 2}
    BY <2>2 DEF Call, orkd_connect, orkd_ping, orkd_domain_alloc, orkd_domain_free, orkd_ring_setup,
         orkd_pack, orkd_kv_alloc, orkd_kv_append, orkd_import_i8, orkd_ffn_i8, orkd_attn_i8,
         orkd_attn_rr_i8, orkd_layer_i8, orkd_run, orkd_sdp_call, orkd_run_chain_i8, orkd_submit_seq,
         orkd_free_weight, orkd_dmabuf_probe, orkd_run_i8_zc, orkd_run_i8_zc2
  <2>5. w.args \in {{0}, Doms, Doms \ {0}, Ids, Counts}
    BY <2>2 DEF Call, orkd_connect, orkd_ping, orkd_domain_alloc, orkd_domain_free, orkd_ring_setup,
         orkd_pack, orkd_kv_alloc, orkd_kv_append, orkd_import_i8, orkd_ffn_i8, orkd_attn_i8,
         orkd_attn_rr_i8, orkd_layer_i8, orkd_run, orkd_sdp_call, orkd_run_chain_i8, orkd_submit_seq,
         orkd_free_weight, orkd_dmabuf_probe, orkd_run_i8_zc, orkd_run_i8_zc2
  <2> QED BY <2>1, <2>2, <2>3, <2>4, <2>5
<1>3. Wrapper[op].args \subseteq Nat
  <2>1. {0} \subseteq Nat /\ Doms \ {0} \subseteq Nat
    BY <1>1
  <2>2. \A A \in {{0}, Doms, Doms \ {0}, Ids, Counts} : A \subseteq Nat
    BY <1>1, <2>1
  <2>3. Wrapper[op].args \in {{0}, Doms, Doms \ {0}, Ids, Counts}
    BY <1>2
  <2> QED BY <2>2, <2>3
<1> QED BY <1>2, <1>3 DEF Names

(* A record of the two fields is a call.                                   *)
LEMMA CallIs ==
    ASSUME NEW O, NEW S, NEW op \in O, NEW todo \in S, NEW c, c = [op |-> op, todo |-> todo]
    PROVE  c \in [op : O, todo : S]
OBVIOUS

(* Begin puts the header of a message on an empty stream.                  *)
LEMMA BeginFlow ==
    ASSUME RequestAssumption, NEW op \in Ops, NEW n \in Wrapper[op].fds, NEW a \in Wrapper[op].args,
           NEW u, u = Append(<<>>, Header(op, n)),
           NEW c, c = [op |-> op,
                       todo |-> [i \in 1 .. Wrapper[op].body |-> Body(op, IF i = 1 THEN a ELSE 0)]]
    PROVE  Flow("up", c, u, <<>>, NoWork)
<1>1. PICK b : b = Wrapper[op].body
  OBVIOUS
<1>2. b \in Nat /\ n \in Nat /\ a \in Nat /\ op \in Names /\ op # "none"
  BY <1>1, WrapperTyped
<1>3. PICK todo : todo = [i \in 1 .. b |-> Body(op, IF i = 1 THEN a ELSE 0)]
  OBVIOUS
<1>4. \A i \in 1 .. b : Body(op, IF i = 1 THEN a ELSE 0) \in Unit
  BY <1>2 DEF Unit, Body
<1>5. todo \in Seq(Unit) /\ Len(todo) = b
  BY <1>2, <1>3, <1>4
<1>6. todo # <<>> => todo[1].n = a
  <2>1. ASSUME todo # <<>> PROVE 1 \in 1 .. b
    BY <1>2, <1>5, <2>1
  <2> QED BY <1>3, <2>1 DEF Body
<1>7. PICK h \in Unit : h = Header(op, n) /\ h.hdr /\ h.type = op /\ h.n = n
  <2>1. Header(op, n) \in Unit /\ Header(op, n).hdr /\ Header(op, n).type = op /\ Header(op, n).n = n
    BY <1>2 DEF Unit, Header
  <2> QED BY <2>1
<1>8. u = <<h>>
  BY <1>7
<1>9. u \in Seq(Unit) /\ Len(u) = 1 /\ u # <<>> /\ u[1] = h
  BY <1>8
<1>10. Coming(op, u)
  BY <1>1, <1>2, <1>7, <1>9 DEF Coming
<1>11. c = [op |-> op, todo |-> todo]
  BY <1>1, <1>3
<1>12. c.op = op /\ c.todo = todo /\ c \in [op : Ops, todo : Seq(Unit)] /\ c # NoCall
  <2>1. c.op = op /\ c.todo = todo
    BY <1>11
  <2>2. c \in [op : Ops, todo : Seq(Unit)]
    BY <1>5, <1>11, CallIs
  <2>3. NoCall.op = "none"
    BY DEF NoCall
  <2> QED BY <1>2, <2>1, <2>2, <2>3
<1>13. Asking(c, u)
  BY <1>1, <1>2, <1>5, <1>6, <1>9, <1>10, <1>12 DEF Asking
<1> QED BY <1>12, <1>13 DEF Flow, Asked, IsCall

(* Write moves the next part of the message from the call to the stream.   *)
LEMMA WriteFlow ==
    ASSUME RequestAssumption, NEW c, NEW u, NEW d, NEW q, Flow("up", c, u, d, q), c.todo # <<>>,
           NEW u2, u2 = Append(u, Head(c.todo)), NEW c2, c2 = [c EXCEPT !.todo = Tail(@)]
    PROVE  Flow("up", c2, u2, d, q)
<1>1. c # NoCall /\ Asking(c, u) /\ d = <<>> /\ q = NoWork
  BY DEF Flow, Idle, Asked, Answered, Waiting, NoCall
<1>2. c \in [op : Ops, todo : Seq(Unit)]
  BY <1>1 DEF Flow, IsCall
<1>3. PICK todo \in Seq(Unit) : todo = c.todo /\ todo # <<>>
  BY <1>2
<1>4. PICK b \in Nat : b = Wrapper[c.op].body
  BY <1>2, WrapperTyped
<1>5. /\ u \in Seq(Unit) /\ u # <<>> /\ u[1].hdr /\ c.op \in Ops /\ u[1].type = c.op
      /\ u[1].n \in Wrapper[c.op].fds /\ Len(u) + Len(todo) = 1 + b
      /\ Len(u) >= 2 => u[2].n \in Wrapper[c.op].args
      /\ Len(u) = 1 => todo[1].n \in Wrapper[c.op].args
  BY <1>1, <1>3, <1>4 DEF Asking, Coming
<1>6. PICK x \in Unit : x = Head(todo) /\ x = todo[1]
  BY <1>3
<1>7. PICK rest \in Seq(Unit) : rest = Tail(todo) /\ Len(rest) = Len(todo) - 1
  <2>1. Tail(todo) \in Seq(Unit) /\ Len(Tail(todo)) = Len(todo) - 1
    BY <1>3, HeadTailProperties
  <2> QED BY <2>1
<1>8. Len(u) \in Nat \ {0} /\ Len(todo) \in Nat \ {0} /\ Len(rest) \in Nat
  BY <1>3, <1>5, <1>7, EmptySeq, LenProperties
<1>9. u2 \in Seq(Unit) /\ Len(u2) = Len(u) + 1 /\ u2 # <<>>
  BY <1>3, <1>5, <1>6, AppendProperties
<1>10. u2[1] = u[1] /\ (Len(u) >= 2 => u2[2] = u[2]) /\ (Len(u) = 1 => u2[2] = x)
  <2>1. (\A i \in 1 .. Len(u) : u2[i] = u[i]) /\ u2[Len(u) + 1] = x
    BY <1>3, <1>5, <1>6, AppendProperties
  <2> QED BY <1>8, <2>1
<1>11. Coming(c.op, u2)
  <2>1. u2[1].hdr /\ u2[1].type = c.op /\ u2[1].n \in Wrapper[c.op].fds
    BY <1>5, <1>10
  <2>2. Len(u2) <= 1 + Wrapper[c.op].body
    BY <1>4, <1>5, <1>8, <1>9
  <2>3. u2[2].n \in Wrapper[c.op].args
    <3>1. CASE Len(u) = 1
      BY <1>5, <1>6, <1>10, <3>1
    <3>2. CASE Len(u) >= 2
      BY <1>5, <1>10, <3>2
    <3>3. \A k \in Nat \ {0} : k = 1 \/ k >= 2
      OBVIOUS
    <3>4. Len(u) \in Nat \ {0}
      BY <1>8
    <3> QED BY <3>1, <3>2, <3>3, <3>4
  <2> QED BY <1>5, <1>9, <2>1, <2>2, <2>3 DEF Coming
<1>12. c2 = [op |-> c.op, todo |-> rest]
  BY <1>2, <1>3, <1>7
<1>13. c2.op = c.op /\ c2.todo = rest /\ c2 \in [op : Ops, todo : Seq(Unit)] /\ c2 # NoCall
  <2>1. c.op # "none" /\ NoCall.op = "none"
    BY <1>2, WrapperTyped DEF NoCall
  <2>2. c2.op = c.op /\ c2.todo = rest
    BY <1>12
  <2>3. c2 \in [op : Ops, todo : Seq(Unit)]
    BY <1>2, <1>7, <1>12, CallIs
  <2> QED BY <2>1, <2>2, <2>3
<1>14. Asking(c2, u2)
  <2>1. Len(u2) + Len(rest) = 1 + Wrapper[c.op].body /\ Len(u2) # 1
    BY <1>4, <1>5, <1>7, <1>8, <1>9
  <2> QED BY <1>11, <1>13, <2>1 DEF Asking
<1> QED BY <1>1, <1>13, <1>14 DEF Flow, Asked, IsCall

(* The wrapper takes the whole answer.                                     *)
LEMMA TakenAll ==
    ASSUME NEW op, NEW d, Answer(op, d)
    PROVE  Taken(op, d) = Len(d) /\ SubSeq(d, Taken(op, d) + 1, Len(d)) = <<>>
<1>1. d \in Seq(Unit) /\ Len(d) = 1 + d[1].n /\ Len(d) \in Nat
  BY DEF Answer
<1>2. Taken(op, d) = Len(d)
  BY <1>1 DEF Answer, Taken, Short
<1> QED BY <1>1, <1>2

(* The client's moves.                                                     *)
LEMMA ReceiveFlow ==
    ASSUME NEW l \in {"up", "shut"}, NEW c, NEW u, NEW d, NEW q, Flow(l, c, u, d, q), c # NoCall, d # <<>>,
           NEW d2, d2 = SubSeq(d, Taken(c.op, d) + 1, Len(d))
    PROVE  Flow(l, NoCall, u, d2, q)
<1>1. u = <<>> /\ q = NoWork /\ Answer(c.op, d)
  BY DEF Flow, Idle, Asked, Answered, Waiting, Dropped
<1>2. d2 = <<>>
  BY <1>1, TakenAll
<1> QED BY <1>1, <1>2 DEF Flow, Idle, Dropped, IsCall

(* A client that dies leaves a first part of its message, or nothing.      *)
LEMMA LeaveFlow ==
    ASSUME NEW c, NEW u, NEW d, NEW q, Flow("up", c, u, d, q)
    PROVE  Flow("cut", NoCall, u, <<>>, q)
<1>1. CASE Idle(c, u, d, q)
  BY <1>1 DEF Flow, Idle, Left, IsCall
<1>2. CASE Asked(c, u, d, q)
  <2>1. Coming(c.op, u) /\ q = NoWork
    BY <1>2 DEF Asked, Asking
  <2>2. u[1].type = c.op
    BY <2>1 DEF Coming
  <2> QED BY <2>1, <2>2 DEF Flow, Left, IsCall
<1>3. CASE Answered(c, u, d, q)
  BY <1>3 DEF Flow, Answered, Left, IsCall
<1>4. CASE Waiting(c, u, d, q)
  BY <1>4 DEF Flow, Waiting, Left, IsCall
<1> QED BY <1>1, <1>2, <1>3, <1>4 DEF Flow

(* A client that disconnects leaves a header.                              *)
LEMMA GoodbyeFlow ==
    ASSUME NEW u, NEW d, NEW q, Flow("up", NoCall, u, d, q), NEW u2, u2 = Append(u, Header("bye", 0))
    PROVE  Flow("cut", NoCall, u2, <<>>, q)
<1>1. u = <<>> /\ q = NoWork
  BY DEF Flow, Idle, Asked, Answered, Waiting
<1>2. PICK h \in Unit : h = Header("bye", 0)
  BY DEF Unit, Header, Names
<1>4. u \in Seq(Unit) /\ Len(u) = 0 /\ u2 = Append(u, h)
  BY <1>1, <1>2, EmptySeq
<1>5. IsBye(u2)
  <2>1. u2 \in Seq(Unit) /\ Len(u2) = 0 + 1 /\ u2[0 + 1] = h
    BY <1>4, AppendProperties
  <2> QED BY <1>2, <2>1 DEF IsBye
<1> QED BY <1>1, <1>5 DEF Flow, Left, IsCall

(* The invariant, part by part, in the next state.                         *)
LEMMA ByParts ==
    ASSUME Flow(link', call', up', down', srv'.q), Sound(srv', {}, srv'.q.imp, 0, 0),
           link' \in {"off", "shut"} => Blank(srv')
    PROVE  IInv'
BY DEF IInv

(* Each action keeps the invariant: the client's, then the daemon's.       *)
LEMMA BeginKeeps == ASSUME RequestAssumption, IInv, NEW op \in Ops, Begin(op) PROVE IInv'
<1>1. call = NoCall /\ srv' = srv /\ down' = down /\ link' = "up"
  BY DEF Begin
<1>2. PICK n \in Wrapper[op].fds, a \in Wrapper[op].args :
        /\ up' = Append(up, Header(op, n))
        /\ call' = [op |-> op,
                    todo |-> [i \in 1 .. Wrapper[op].body |-> Body(op, IF i = 1 THEN a ELSE 0)]]
  BY DEF Begin
<1>3. link = "off" \/ link = "up"
  BY DEF Begin
<1>4. up = <<>> /\ down = <<>> /\ srv.q = NoWork
  BY <1>1, <1>3 DEF IInv, Flow, Idle, Asked, Answered, Waiting
<1>5. PICK u : u = up'
  OBVIOUS
<1>6. PICK c : c = call'
  OBVIOUS
<1>7. Flow("up", c, u, <<>>, NoWork)
  BY <1>2, <1>4, <1>5, <1>6, BeginFlow
<1>8. Flow(link', call', up', down', srv'.q)
  BY <1>1, <1>4, <1>5, <1>6, <1>7
<1>9. Sound(srv', {}, srv'.q.imp, 0, 0)
  BY <1>1 DEF IInv
<1> QED BY <1>1, <1>8, <1>9, ByParts

(* The five other moves of the client.                                     *)
LEMMA ClientKeeps == ASSUME RequestAssumption, IInv, Client PROVE IInv'
<1>1. CASE \E op \in Ops : Begin(op)
  BY <1>1, BeginKeeps
<1>2. CASE Write
  <2>1. link = "up" /\ call.todo # <<>> /\ up' = Append(up, Head(call.todo))
        /\ call' = [call EXCEPT !.todo = Tail(@)] /\ link' = link /\ down' = down /\ srv' = srv
    BY <1>2 DEF Write
  <2>2. Flow("up", call, up, down, srv.q)
    BY <2>1 DEF IInv
  <2>3. Flow("up", call', up', down, srv.q)
    BY <2>1, <2>2, WriteFlow
  <2>4. Flow(link', call', up', down', srv'.q) /\ Sound(srv', {}, srv'.q.imp, 0, 0)
    BY <2>1, <2>3 DEF IInv
  <2> QED BY <2>1, <2>4, ByParts
<1>3. CASE Receive
  <2>1. link \in {"up", "shut"} /\ call # NoCall /\ down # <<>>
        /\ down' = SubSeq(down, Taken(call.op, down) + 1, Len(down)) /\ call' = NoCall
        /\ link' = link /\ up' = up /\ srv' = srv
    BY <1>3 DEF Receive
  <2>2. Flow(link, call, up, down, srv.q)
    BY DEF IInv
  <2>3. Flow(link, NoCall, up, down', srv.q)
    BY <2>1, <2>2, ReceiveFlow
  <2>4. Flow(link', call', up', down', srv'.q) /\ Sound(srv', {}, srv'.q.imp, 0, 0)
    BY <2>1, <2>3 DEF IInv
  <2>5. link' \in {"off", "shut"} => Blank(srv')
    BY <2>1 DEF IInv
  <2> QED BY <2>4, <2>5, ByParts
<1>4. CASE Fail
  <2>1. link = "shut" /\ link' = "off" /\ call' = NoCall /\ down' = <<>> /\ up' = up /\ srv' = srv
    BY <1>4 DEF Fail
  <2>2. up = <<>> /\ srv.q = NoWork
    BY <2>1 DEF IInv, Flow, Dropped
  <2>3. Flow(link', call', up', down', srv'.q)
    BY <2>1, <2>2 DEF Flow, Idle, IsCall
  <2>4. Sound(srv', {}, srv'.q.imp, 0, 0) /\ Blank(srv')
    BY <2>1 DEF IInv
  <2> QED BY <2>3, <2>4, ByParts
<1>5. CASE Disconnect
  <2>1. link = "up" /\ call = NoCall /\ up' = Append(up, Header("bye", 0)) /\ link' = "cut"
        /\ down' = <<>> /\ call' = call /\ srv' = srv
    BY <1>5 DEF Disconnect
  <2>2. Flow("up", NoCall, up, down, srv.q)
    BY <2>1 DEF IInv
  <2>3. Flow("cut", NoCall, up', <<>>, srv.q)
    BY <2>1, <2>2, GoodbyeFlow
  <2>4. Flow(link', call', up', down', srv'.q) /\ Sound(srv', {}, srv'.q.imp, 0, 0)
    BY <2>1, <2>3 DEF IInv
  <2> QED BY <2>1, <2>4, ByParts
<1>6. CASE Die
  <2>1. link = "up" /\ link' = "cut" /\ call' = NoCall /\ down' = <<>> /\ up' = up /\ srv' = srv
    BY <1>6 DEF Die
  <2>2. Flow("up", call, up, down, srv.q)
    BY <2>1 DEF IInv
  <2>3. Flow("cut", NoCall, up, <<>>, srv.q)
    BY <2>2, LeaveFlow
  <2>4. Flow(link', call', up', down', srv'.q) /\ Sound(srv', {}, srv'.q.imp, 0, 0)
    BY <2>1, <2>3 DEF IInv
  <2> QED BY <2>1, <2>4, ByParts
<1> QED BY <1>1, <1>2, <1>3, <1>4, <1>5, <1>6 DEF Client

-----------------------------------------------------------------------------
(* The daemon's moves.                                                     *)

(* A descriptor is installed in a place that is free.                      *)
LEMMA LowestIn == ASSUME NEW S, S \subseteq Fds PROVE Lowest(S) \in S \cup {NoFd} /\ (Lowest(S) = NoFd => S = {})
<1>1. S \subseteq Nat /\ NoFd \notin S
  BY DEF Fds, NoFd
<1>2. CASE S = {}
  BY <1>2 DEF Lowest
<1>3. CASE S # {}
  BY <1>1, <1>3, MinIn DEF Lowest
<1> QED BY <1>2, <1>3

(* The descriptors of a header are in places nobody has.                   *)
LEMMA Receives ==
    ASSUME RequestAssumption, NEW s, Plain(s), NEW n \in {0, 1, 2}, NEW f, f = orkd_recv_hdr_fds(s, n),
           NEW t, t = [s EXCEPT !.open = @ \cup ({f[1], f[2]} \ {NoFd})]
    PROVE  In(t, f) /\ (n = 0 => Plain(t)) /\ (n <= 1 => f[2] = NoFd)
<1>1. PICK a : a = IF n >= 1 THEN Lowest(Fds \ s.open) ELSE NoFd
  OBVIOUS
<1>2. PICK b : b = IF n = 2 THEN Lowest(Fds \ (s.open \cup {a})) ELSE NoFd
  OBVIOUS
<1>3. f[1] = a /\ f[2] = b
  BY <1>1, <1>2 DEF orkd_recv_hdr_fds
<1>4. a \in (Fds \ s.open) \cup {NoFd}
  BY <1>1, LowestIn
<1>5. b \in (Fds \ (s.open \cup {a})) \cup {NoFd}
  BY <1>2, LowestIn
<1>6. PICK P : P = {a, b} \ {NoFd}
  OBVIOUS
<1>7. P \subseteq Fds /\ P \cap s.open = {} /\ P = PassedOf(f) /\ (a = b => a = NoFd)
  BY <1>3, <1>4, <1>5, <1>6 DEF PassedOf
<1>8. s \in Server /\ Mine(s, {}) /\ DOMAIN s.tab = {} /\ Account(s, 0, 0) /\ s.q = NoWork
  BY DEF Plain, Sound
<1>9. PICK open \in SUBSET Fds : open = s.open \cup P
  BY <1>7, <1>8 DEF Server
<1>10. t = [s EXCEPT !.open = open]
  BY <1>3, <1>6, <1>9
<1>11. /\ t \in Server /\ t.open = open /\ t.tab = s.tab /\ t.wt = s.wt /\ t.iova = s.iova
       /\ t.lost = s.lost /\ t.ring = s.ring /\ t.q = s.q /\ t.ebadf = s.ebadf
  BY <1>8, <1>10 DEF Server
<1>12. OwnOf(t) = OwnOf(s) /\ RingOf(t) = RingOf(s)
  BY <1>11 DEF OwnOf, RingOf
<1>13. Mine(t, P)
  BY <1>7, <1>8, <1>9, <1>11, <1>12 DEF Mine
<1>14. Account(t, 0, 0)
  BY <1>8, <1>11, SameAccount
<1>15. Sound(t, P, {}, 0, 0) /\ t.q = NoWork
  BY <1>8, <1>11, <1>13, <1>14 DEF Sound
<1>16. In(t, f)
  BY <1>3, <1>4, <1>5, <1>7, <1>15 DEF In
<1>17. ASSUME n = 0 PROVE Plain(t)
  <2>1. P = {}
    BY <1>1, <1>2, <1>6, <1>17
  <2> QED BY <1>15, <2>1 DEF Plain
<1>18. n <= 1 => f[2] = NoFd
  BY <1>2, <1>3
<1> QED BY <1>16, <1>17, <1>18

(* A message at the head of the stream, its descriptors installed.         *)
Arrived(op) ==
    /\ link \in {"up", "cut"} /\ up # <<>> /\ Head(up).type = op

(* A message at the head of the stream is the one of the client's call.    *)
LEMMA Arrives ==
    ASSUME RequestAssumption, IInv, NEW op \in Ops, Arrived(op)
    PROVE  /\ Coming(op, up) /\ down = <<>> /\ srv.q = NoWork
           /\ link = "up" => Asking(call, up) /\ call.op = op /\ call # NoCall
           /\ link = "cut" => call = NoCall
<1>1. link \in {"up", "cut"} /\ up # <<>> /\ Head(up).type = op
  BY DEF Arrived
<1>2. up \in Seq(Unit) => up[1].type = op
  BY <1>1
<1>3. CASE link = "up"
  <2>1. Asked(call, up, down, srv.q)
    BY <1>1, <1>3 DEF IInv, Flow, Idle, Asked, Answered, Waiting
  <2>2. Asking(call, up) /\ down = <<>> /\ srv.q = NoWork /\ call # NoCall
    BY <2>1 DEF Asked
  <2>3. Coming(call.op, up)
    BY <2>2 DEF Asking
  <2>4. call.op = op
    BY <1>2, <2>3 DEF Coming
  <2> QED BY <1>3, <2>2, <2>3, <2>4
<1>4. CASE link = "cut"
  <2>1. Left(call, up, down, srv.q)
    BY <1>4 DEF IInv, Flow
  <2>2. op # "bye"
    BY WrapperTyped
  <2>3. ~ IsBye(up)
    BY <1>2, <2>2 DEF IsBye, Header
  <2>4. Coming(up[1].type, up) /\ srv.q = NoWork /\ call = NoCall /\ down = <<>>
    BY <1>1, <2>1, <2>3 DEF Left
  <2>5. up[1].type = op
    BY <1>2, <2>4 DEF Coming
  <2> QED BY <1>4, <2>4, <2>5
<1> QED BY <1>1, <1>3, <1>4

(* The descriptors it came with are the handler's, and no one else's.      *)
LEMMA Installs ==
    ASSUME RequestAssumption, IInv, NEW op \in Ops, Arrived(op)
    PROVE  /\ In(Opened, HdrFds) /\ Passed = PassedOf(HdrFds)
           /\ Wrapper[op].fds \subseteq {0, 1} => HdrFds[2] = NoFd
           /\ Wrapper[op].fds = {0} => Plain(Opened)
           /\ Len(up) >= 2 => Field \in Wrapper[op].args
<1>1. Coming(op, up) /\ srv.q = NoWork
  BY Arrives
<1>2. NoWork.imp = {}
  BY DEF NoWork
<1>3. Plain(srv)
  BY <1>1, <1>2 DEF IInv, Plain
<1>4. up[1].n \in Wrapper[op].fds /\ Wrapper[op].fds \subseteq {0, 1, 2} /\ Head(up) = up[1]
  BY <1>1, WrapperTyped DEF Coming
<1>5. PICK n \in {0, 1, 2} : n = up[1].n /\ n \in Wrapper[op].fds
  BY <1>4
<1>6. PICK f : f = orkd_recv_hdr_fds(srv, n)
  OBVIOUS
<1>7. HdrFds = f
  BY <1>4, <1>5, <1>6 DEF HdrFds
<1>8. PICK t : t = [srv EXCEPT !.open = @ \cup ({f[1], f[2]} \ {NoFd})]
  OBVIOUS
<1>9. Opened = t /\ Passed = PassedOf(f)
  BY <1>7, <1>8 DEF Opened, Passed, PassedOf
<1>10. In(t, f) /\ (n = 0 => Plain(t)) /\ (n <= 1 => f[2] = NoFd)
  BY <1>3, <1>6, <1>8, Receives
<1>11. Wrapper[op].fds \subseteq {0, 1} => n <= 1
  BY <1>5
<1>12. Wrapper[op].fds = {0} => n = 0
  BY <1>5
<1>13. Len(up) >= 2 => Field \in Wrapper[op].args
  BY <1>1 DEF Coming, Field
<1> QED BY <1>7, <1>9, <1>10, <1>11, <1>12, <1>13

(* The end of a connection.                                                *)
LEMMA HangupKeeps ==
    ASSUME RequestAssumption, NEW s, Sound(s, {}, s.q.imp, 0, 0), Hangup(s), call' = call, IsCall(call),
           link = "cut" => call = NoCall /\ down' = <<>>,
           link # "cut" /\ down' # <<>> => call # NoCall /\ Answer(call.op, down')
    PROVE  IInv'
<1>1. PICK t : t = drop(s)
  OBVIOUS
<1>2. Sound(t, {}, {}, 0, 0) /\ Blank(t)
  BY <1>1, DropKeeps
<1>3. srv' = t /\ up' = <<>> /\ link' = IF link = "cut" THEN "off" ELSE "shut"
  BY <1>1 DEF Hangup
<1>4. t.q = NoWork /\ NoWork.imp = {}
  BY <1>2 DEF Blank, NoWork
<1>5. Sound(srv', {}, srv'.q.imp, 0, 0) /\ Blank(srv') /\ srv'.q = NoWork
  BY <1>2, <1>3, <1>4
<1>6. CASE link = "cut"
  <2>1. Flow("off", call', up', down', srv'.q)
    BY <1>3, <1>5, <1>6 DEF Flow, Idle
  <2> QED BY <1>3, <1>5, <1>6, <2>1, ByParts
<1>7. CASE link # "cut"
  <2>1. Flow("shut", call', up', down', srv'.q)
    BY <1>3, <1>5, <1>7 DEF Flow, Dropped
  <2> QED BY <1>3, <1>5, <1>7, <2>1, ByParts
<1> QED BY <1>6, <1>7

(* A handler that reads its whole message and answers it, or queues it.    *)
LEMMA HandledKeeps ==
    ASSUME RequestAssumption, IInv, NEW op \in Ops, Arrived(op), NEW r, Outcome(op, r),
           Len(up) >= r.eat, Send(r.reply), call' = call,
           IF r.drop THEN Hangup(r.s)
           ELSE srv' = r.s /\ up' = SubSeq(up, r.eat + 1, Len(up)) /\ link' = link
    PROVE  IInv'
<1>1. /\ Coming(op, up) /\ down = <<>> /\ srv.q = NoWork
      /\ link = "up" => Asking(call, up) /\ call.op = op /\ call # NoCall
      /\ link = "cut" => call = NoCall
  BY Arrives
<1>2. link \in {"up", "cut"} /\ IsCall(call)
  BY DEF IInv, Flow, Arrived
<1>3. r.reply = <<>> \/ (r.reply \in Seq(Unit) /\ r.reply # <<>>)
  BY DEF Outcome, Answer
<1>4. down' = IF link = "cut" THEN <<>> ELSE r.reply
  <2>1. <<>> \o r.reply = r.reply
    BY <1>3
  <2> QED BY <1>1, <2>1 DEF Send
<1>5. Sound(r.s, {}, r.s.q.imp, 0, 0) /\ r.drop \in BOOLEAN
  BY DEF Outcome
<1>6. CASE r.drop
  <2>1. Hangup(r.s)
    BY <1>6
  <2>2. Answer(op, r.reply)
    BY <1>6 DEF Outcome
  <2>3. link # "cut" /\ down' # <<>> => call # NoCall /\ Answer(call.op, down')
    BY <1>1, <1>2, <1>4, <2>2
  <2> QED BY <1>1, <1>2, <1>4, <1>5, <2>1, <2>3, HangupKeeps
<1>7. CASE ~ r.drop
  <2>1. srv' = r.s /\ up' = SubSeq(up, r.eat + 1, Len(up)) /\ link' = link
    BY <1>7
  <2>2. PICK b \in Nat : b = Wrapper[op].body
    BY WrapperTyped
  <2>3. r.eat = 1 + b
    BY <1>7, <2>2 DEF Outcome
  <2>4. Len(up) <= 1 + b /\ Len(up) \in Nat
    BY <1>1, <2>2 DEF Coming
  <2>5. Len(up) = 1 + b
    BY <2>3, <2>4
  <2>6. up' = <<>>
    BY <2>1, <2>3, <2>5, SubSeqEmpty
  <2>7. Sound(srv', {}, srv'.q.imp, 0, 0)
    BY <1>5, <2>1
  <2>8. CASE link = "cut"
    <3>1. Left(call, <<>>, <<>>, srv'.q)
      BY <1>1, <2>8 DEF Left
    <3>2. Flow("cut", call', up', down', srv'.q)
      BY <1>2, <1>4, <2>6, <2>8, <3>1 DEF Flow
    <3> QED BY <2>1, <2>7, <2>8, <3>2, ByParts
  <2>9. CASE link = "up"
    <3>1. Asking(call, up) /\ call.op = op /\ call # NoCall /\ down' = r.reply
      BY <1>1, <1>4, <2>9
    <3>2. call.todo = <<>>
      <4>1. call.todo \in Seq(Unit)
        BY <1>2, <3>1 DEF IsCall
      <4>2. PICK k \in Nat : k = Len(call.todo)
        BY <4>1
      <4>3. k = 0
        BY <2>2, <2>5, <3>1, <4>2 DEF Asking
      <4> QED BY <4>1, <4>2, <4>3, EmptySeq
    <3>3. CASE r.s.q = NoWork /\ Answer(op, r.reply)
      <4>1. Answered(call, <<>>, r.reply, r.s.q)
        BY <3>1, <3>2, <3>3 DEF Answered
      <4>2. Flow("up", call', up', down', srv'.q)
        BY <1>2, <2>1, <2>6, <3>1, <4>1 DEF Flow
      <4> QED BY <2>1, <2>7, <2>9, <4>2, ByParts
    <3>4. CASE r.s.q # NoWork /\ r.reply = <<>> /\ op \in RunOps
      <4>1. Waiting(call, <<>>, <<>>, r.s.q)
        BY <3>1, <3>2, <3>4 DEF Waiting
      <4>2. Flow("up", call', up', down', srv'.q)
        BY <1>2, <2>1, <2>6, <3>1, <3>4, <4>1 DEF Flow
      <4> QED BY <2>1, <2>7, <2>9, <4>2, ByParts
    <3> QED BY <3>3, <3>4 DEF Outcome
  <2> QED BY <1>2, <2>8, <2>9
<1> QED BY <1>5, <1>6, <1>7

(* A handler whose every outcome is sound, its message being whole or not. *)
LEMMA HandleKeeps ==
    ASSUME RequestAssumption, IInv, NEW op \in Ops, NEW results, Handle(op, Wrapper[op].body, results),
           Arrived(op) /\ Len(up) >= 1 + Min({1, Wrapper[op].body}) => \A r \in results : Outcome(op, r)
    PROVE  IInv'
<1>1. Arrived(op) /\ call' = call
  BY DEF Handle, Arrived
<1>2. CASE Len(up) >= 1 + Min({1, Wrapper[op].body}) /\ \E r \in results :
               /\ Len(up) >= r.eat
               /\ Send(r.reply)
               /\ IF r.drop THEN Hangup(r.s)
                  ELSE /\ srv' = r.s
                       /\ up' = SubSeq(up, r.eat + 1, Len(up))
                       /\ UNCHANGED link
  <2>1. PICK r \in results :
               /\ Len(up) >= r.eat
               /\ Send(r.reply)
               /\ IF r.drop THEN Hangup(r.s)
                  ELSE /\ srv' = r.s
                       /\ up' = SubSeq(up, r.eat + 1, Len(up))
                       /\ UNCHANGED link
    BY <1>2
  <2>2. Outcome(op, r)
    BY <1>1, <1>2
  <2> QED BY <1>1, <2>1, <2>2, HandledKeeps
<1>3. CASE link = "cut" /\ Hangup(close(Opened, Passed)) /\ down' = down
  <2>1. In(Opened, HdrFds) /\ Passed = PassedOf(HdrFds)
    BY <1>1, Installs
  <2>2. PICK s : s = Opened
    OBVIOUS
  <2>3. PICK F : F = Passed
    OBVIOUS
  <2>4. Sound(s, F, {}, 0, 0) /\ s.q = NoWork
    BY <2>1, <2>2, <2>3 DEF In
  <2>5. PICK t : t = close(s, F)
    OBVIOUS
  <2>6. Plain(t)
    BY <2>4, <2>5, CloseAll
  <2>7. NoWork.imp = {}
    BY DEF NoWork
  <2>8. Sound(t, {}, t.q.imp, 0, 0) /\ Hangup(t)
    BY <1>3, <2>2, <2>3, <2>5, <2>6, <2>7 DEF Plain
  <2>9. down = <<>> /\ call = NoCall /\ IsCall(call)
    BY <1>1, <1>3, Arrives DEF IsCall
  <2> QED BY <1>1, <1>3, <2>8, <2>9, HangupKeeps
<1> QED BY <1>2, <1>3 DEF Handle

(* A handler with a body reads one unit of it at least.                    *)
LEMMA MinOne == ASSUME NEW b \in {1, 2, 3} PROVE 1 + Min({1, b}) = 2
<1>1. {1, b} \subseteq Nat /\ {1, b} # {}
  OBVIOUS
<1>2. Min({1, b}) \in {1, b} /\ \A y \in {1, b} : Min({1, b}) <= y
  BY <1>1, MinIn
<1>3. Min({1, b}) = 1
  BY <1>2
<1> QED BY <1>3

(* So the field it decides on is one the client has written.               *)
LEMMA HasField ==
    ASSUME RequestAssumption, IInv, NEW op \in Ops, Arrived(op), Len(up) >= 1 + Min({1, Wrapper[op].body}),
           Wrapper[op].body >= 1
    PROVE  Field \in Wrapper[op].args
<1>1. PICK b \in {1, 2, 3} : b = Wrapper[op].body
  BY WrapperTyped
<1>2. 1 + Min({1, b}) = 2
  BY MinOne
<1>3. Len(up) >= 2
  BY <1>1, <1>2
<1> QED BY <1>3, Installs

(* A handler that gets no descriptor, and one that may.                    *)
LEMMA PlainHandle ==
    ASSUME RequestAssumption, IInv, NEW op \in Ops, Wrapper[op].fds = {0}, NEW results, NEW body,
           body = Wrapper[op].body, Handle(op, body, results),
           Plain(Opened) /\ (body >= 1 => Field \in Wrapper[op].args) => \A r \in results : Outcome(op, r)
    PROVE  IInv'
<1>1. ASSUME Arrived(op), Len(up) >= 1 + Min({1, Wrapper[op].body}) PROVE \A r \in results : Outcome(op, r)
  <2>1. Plain(Opened)
    BY <1>1, Installs
  <2>2. body >= 1 => Field \in Wrapper[op].args
    BY <1>1, HasField
  <2> QED BY <2>1, <2>2
<1> QED BY <1>1, HandleKeeps

(* One that may.                                                           *)
LEMMA PassedHandle ==
    ASSUME RequestAssumption, IInv, NEW op \in Ops, NEW results, NEW body,
           body = Wrapper[op].body, body >= 1, Handle(op, body, results),
           In(Opened, HdrFds) /\ (Wrapper[op].fds \subseteq {0, 1} => HdrFds[2] = NoFd)
             /\ Field \in Wrapper[op].args => \A r \in results : Outcome(op, r)
    PROVE  IInv'
<1>1. ASSUME Arrived(op), Len(up) >= 1 + Min({1, Wrapper[op].body}) PROVE \A r \in results : Outcome(op, r)
  <2>1. In(Opened, HdrFds) /\ (Wrapper[op].fds \subseteq {0, 1} => HdrFds[2] = NoFd)
    BY <1>1, Installs
  <2>2. Field \in Wrapper[op].args
    BY <1>1, HasField
  <2> QED BY <2>1, <2>2
<1> QED BY <1>1, HandleKeeps

(* The handlers, one by one.                                               *)
LEMMA HelloKeeps == ASSUME RequestAssumption, IInv, Hello PROVE IInv'
<1>1. "hello" \in Ops /\ Wrapper["hello"].body = 1 /\ Wrapper["hello"].fds = {0}
  BY DEF Ops, Wrapper, Call, orkd_connect
<1>2. PICK s : s = Opened
  OBVIOUS
<1>3. PICK f : f = HdrFds
  OBVIOUS
<1>4. PICK a : a = Field
  OBVIOUS
<1>5. PICK R : R = orkd_hello(s, f, a)
  OBVIOUS
<1>6. Handle("hello", 1, R)
  BY <1>2, <1>3, <1>4, <1>5 DEF Hello
<1>7. ASSUME Plain(s) PROVE \A r \in R : Outcome("hello", r)
  BY <1>5, <1>7, HelloIs
<1> QED BY <1>1, <1>2, <1>4, <1>6, <1>7, PlainHandle

LEMMA PingKeeps == ASSUME RequestAssumption, IInv, Ping PROVE IInv'
<1>1. "ping" \in Ops /\ Wrapper["ping"].body = 0 /\ Wrapper["ping"].fds = {0}
  BY DEF Ops, Wrapper, Call, orkd_ping
<1>2. PICK s : s = Opened
  OBVIOUS
<1>3. PICK f : f = HdrFds
  OBVIOUS
<1>4. PICK a : a = 0
  OBVIOUS
<1>5. PICK R : R = orkd_pong(s, f, a)
  OBVIOUS
<1>6. Handle("ping", 0, R)
  BY <1>2, <1>3, <1>4, <1>5 DEF Ping
<1>7. ASSUME Plain(s) PROVE \A r \in R : Outcome("ping", r)
  BY <1>5, <1>7, PongIs
<1> QED BY <1>1, <1>2, <1>4, <1>6, <1>7, PlainHandle

LEMMA PackKeeps == ASSUME RequestAssumption, IInv, Pack PROVE IInv'
<1>1. "pack" \in Ops /\ Wrapper["pack"].body = 2 /\ Wrapper["pack"].fds = {0} /\ Wrapper["pack"].args = Doms
  BY DEF Ops, Wrapper, Call, orkd_pack
<1>2. PICK s : s = Opened
  OBVIOUS
<1>3. PICK f : f = HdrFds
  OBVIOUS
<1>4. PICK a : a = Field
  OBVIOUS
<1>5. PICK R : R = orkd_handle_pack(s, f, a)
  OBVIOUS
<1>6. Handle("pack", 2, R)
  BY <1>2, <1>3, <1>4, <1>5 DEF Pack
<1>7. ASSUME Plain(s), a \in Doms PROVE \A r \in R : Outcome("pack", r)
  BY <1>5, <1>7, PackIs
<1> QED BY <1>1, <1>2, <1>4, <1>6, <1>7, PlainHandle

LEMMA KvAllocKeeps == ASSUME RequestAssumption, IInv, KvAlloc PROVE IInv'
<1>1. "kv_alloc" \in Ops /\ Wrapper["kv_alloc"].body = 1 /\ Wrapper["kv_alloc"].fds = {0}
  BY DEF Ops, Wrapper, Call, orkd_kv_alloc
<1>2. PICK s : s = Opened
  OBVIOUS
<1>3. PICK f : f = HdrFds
  OBVIOUS
<1>4. PICK a : a = Field
  OBVIOUS
<1>5. PICK R : R = orkd_handle_kv_alloc(s, f, a)
  OBVIOUS
<1>6. Handle("kv_alloc", 1, R)
  BY <1>2, <1>3, <1>4, <1>5 DEF KvAlloc
<1>7. ASSUME Plain(s) PROVE \A r \in R : Outcome("kv_alloc", r)
  BY <1>5, <1>7, KvAllocIs
<1> QED BY <1>1, <1>2, <1>4, <1>6, <1>7, PlainHandle

LEMMA KvAppendKeeps == ASSUME RequestAssumption, IInv, KvAppend PROVE IInv'
<1>1. "kv_append" \in Ops /\ Wrapper["kv_append"].body = 2 /\ Wrapper["kv_append"].fds = {0}
  BY DEF Ops, Wrapper, Call, orkd_kv_append
<1>2. PICK s : s = Opened
  OBVIOUS
<1>3. PICK f : f = HdrFds
  OBVIOUS
<1>4. PICK a : a = Field
  OBVIOUS
<1>5. PICK R : R = orkd_handle_kv_append(s, f, a)
  OBVIOUS
<1>6. Handle("kv_append", 2, R)
  BY <1>2, <1>3, <1>4, <1>5 DEF KvAppend
<1>7. ASSUME Plain(s) PROVE \A r \in R : Outcome("kv_append", r)
  BY <1>5, <1>7, InlineOps
<1> QED BY <1>1, <1>2, <1>4, <1>6, <1>7, PlainHandle

LEMMA FfnKeeps == ASSUME RequestAssumption, IInv, Ffn PROVE IInv'
<1>1. "ffn" \in Ops /\ Wrapper["ffn"].body = 2 /\ Wrapper["ffn"].fds = {0}
  BY DEF Ops, Wrapper, Call, orkd_ffn_i8
<1>2. PICK s : s = Opened
  OBVIOUS
<1>3. PICK f : f = HdrFds
  OBVIOUS
<1>4. PICK a : a = Field
  OBVIOUS
<1>5. PICK R : R = orkd_handle_ffn(s, f, a)
  OBVIOUS
<1>6. Handle("ffn", 2, R)
  BY <1>2, <1>3, <1>4, <1>5 DEF Ffn
<1>7. ASSUME Plain(s) PROVE \A r \in R : Outcome("ffn", r)
  BY <1>5, <1>7, InlineOps
<1> QED BY <1>1, <1>2, <1>4, <1>6, <1>7, PlainHandle

LEMMA AttnKeeps == ASSUME RequestAssumption, IInv, Attn PROVE IInv'
<1>1. "attn" \in Ops /\ Wrapper["attn"].body = 2 /\ Wrapper["attn"].fds = {0}
  BY DEF Ops, Wrapper, Call, orkd_attn_i8
<1>2. PICK s : s = Opened
  OBVIOUS
<1>3. PICK f : f = HdrFds
  OBVIOUS
<1>4. PICK a : a = Field
  OBVIOUS
<1>5. PICK R : R = orkd_handle_attn(s, f, a)
  OBVIOUS
<1>6. Handle("attn", 2, R)
  BY <1>2, <1>3, <1>4, <1>5 DEF Attn
<1>7. ASSUME Plain(s) PROVE \A r \in R : Outcome("attn", r)
  BY <1>5, <1>7, InlineOps
<1> QED BY <1>1, <1>2, <1>4, <1>6, <1>7, PlainHandle

LEMMA AttnRrKeeps == ASSUME RequestAssumption, IInv, AttnRr PROVE IInv'
<1>1. "attn_rr" \in Ops /\ Wrapper["attn_rr"].body = 3 /\ Wrapper["attn_rr"].fds = {0}
  BY DEF Ops, Wrapper, Call, orkd_attn_rr_i8
<1>2. PICK s : s = Opened
  OBVIOUS
<1>3. PICK f : f = HdrFds
  OBVIOUS
<1>4. PICK a : a = Field
  OBVIOUS
<1>5. PICK R : R = orkd_handle_attn_rr(s, f, a)
  OBVIOUS
<1>6. Handle("attn_rr", 3, R)
  BY <1>2, <1>3, <1>4, <1>5 DEF AttnRr
<1>7. ASSUME Plain(s) PROVE \A r \in R : Outcome("attn_rr", r)
  BY <1>5, <1>7, ListOps
<1> QED BY <1>1, <1>2, <1>4, <1>6, <1>7, PlainHandle

LEMMA LayerKeeps == ASSUME RequestAssumption, IInv, Layer PROVE IInv'
<1>1. "layer" \in Ops /\ Wrapper["layer"].body = 2 /\ Wrapper["layer"].fds = {0}
  BY DEF Ops, Wrapper, Call, orkd_layer_i8
<1>2. PICK s : s = Opened
  OBVIOUS
<1>3. PICK f : f = HdrFds
  OBVIOUS
<1>4. PICK a : a = Field
  OBVIOUS
<1>5. PICK R : R = orkd_handle_layer(s, f, a)
  OBVIOUS
<1>6. Handle("layer", 2, R)
  BY <1>2, <1>3, <1>4, <1>5 DEF Layer
<1>7. ASSUME Plain(s) PROVE \A r \in R : Outcome("layer", r)
  BY <1>5, <1>7, InlineOps
<1> QED BY <1>1, <1>2, <1>4, <1>6, <1>7, PlainHandle

LEMMA RunKeeps == ASSUME RequestAssumption, IInv, Run PROVE IInv'
<1>1. "run" \in Ops /\ Wrapper["run"].body = 2 /\ Wrapper["run"].fds = {0}
  BY DEF Ops, Wrapper, Call, orkd_run
<1>2. PICK s : s = Opened
  OBVIOUS
<1>3. PICK f : f = HdrFds
  OBVIOUS
<1>4. PICK a : a = Field
  OBVIOUS
<1>5. PICK R : R = orkd_handle_run(s, f, a)
  OBVIOUS
<1>6. Handle("run", 2, R)
  BY <1>2, <1>3, <1>4, <1>5 DEF Run
<1>7. ASSUME Plain(s) PROVE \A r \in R : Outcome("run", r)
  BY <1>5, <1>7, RunIs
<1> QED BY <1>1, <1>2, <1>4, <1>6, <1>7, PlainHandle

LEMMA FreeWeightKeeps == ASSUME RequestAssumption, IInv, FreeWeight PROVE IInv'
<1>1. "free" \in Ops /\ Wrapper["free"].body = 1 /\ Wrapper["free"].fds = {0}
  BY DEF Ops, Wrapper, Call, orkd_free_weight
<1>2. PICK s : s = Opened
  OBVIOUS
<1>3. PICK f : f = HdrFds
  OBVIOUS
<1>4. PICK a : a = Field
  OBVIOUS
<1>5. PICK R : R = orkd_handle_free(s, f, a)
  OBVIOUS
<1>6. Handle("free", 1, R)
  BY <1>2, <1>3, <1>4, <1>5 DEF FreeWeight
<1>7. ASSUME Plain(s) PROVE \A r \in R : Outcome("free", r)
  BY <1>5, <1>7, FreeIs
<1> QED BY <1>1, <1>2, <1>4, <1>6, <1>7, PlainHandle

LEMMA SdpKeeps == ASSUME RequestAssumption, IInv, Sdp PROVE IInv'
<1>1. "sdp" \in Ops /\ Wrapper["sdp"].body = 2 /\ Wrapper["sdp"].fds = {0}
  BY DEF Ops, Wrapper, Call, orkd_sdp_call
<1>2. PICK s : s = Opened
  OBVIOUS
<1>3. PICK f : f = HdrFds
  OBVIOUS
<1>4. PICK a : a = Field
  OBVIOUS
<1>5. PICK R : R = orkd_handle_sdp(s, f, a)
  OBVIOUS
<1>6. Handle("sdp", 2, R)
  BY <1>2, <1>3, <1>4, <1>5 DEF Sdp
<1>7. ASSUME Plain(s) PROVE \A r \in R : Outcome("sdp", r)
  BY <1>5, <1>7, InlineOps
<1> QED BY <1>1, <1>2, <1>4, <1>6, <1>7, PlainHandle

LEMMA ChainKeeps == ASSUME RequestAssumption, IInv, Chain PROVE IInv'
<1>1. "chain" \in Ops /\ Wrapper["chain"].body = 3 /\ Wrapper["chain"].fds = {0}
  BY DEF Ops, Wrapper, Call, orkd_run_chain_i8
<1>2. PICK s : s = Opened
  OBVIOUS
<1>3. PICK f : f = HdrFds
  OBVIOUS
<1>4. PICK a : a = Field
  OBVIOUS
<1>5. PICK R : R = orkd_handle_chain(s, f, a)
  OBVIOUS
<1>6. Handle("chain", 3, R)
  BY <1>2, <1>3, <1>4, <1>5 DEF Chain
<1>7. ASSUME Plain(s) PROVE \A r \in R : Outcome("chain", r)
  BY <1>5, <1>7, ListOps
<1> QED BY <1>1, <1>2, <1>4, <1>6, <1>7, PlainHandle

LEMMA Seq_Keeps == ASSUME RequestAssumption, IInv, Seq_ PROVE IInv'
<1>1. "seq" \in Ops /\ Wrapper["seq"].body = 3 /\ Wrapper["seq"].fds = {0}
  BY DEF Ops, Wrapper, Call, orkd_submit_seq
<1>2. PICK s : s = Opened
  OBVIOUS
<1>3. PICK f : f = HdrFds
  OBVIOUS
<1>4. PICK a : a = Field
  OBVIOUS
<1>5. PICK R : R = orkd_handle_seq(s, f, a)
  OBVIOUS
<1>6. Handle("seq", 3, R)
  BY <1>2, <1>3, <1>4, <1>5 DEF Seq_
<1>7. ASSUME Plain(s) PROVE \A r \in R : Outcome("seq", r)
  BY <1>5, <1>7, ListOps
<1> QED BY <1>1, <1>2, <1>4, <1>6, <1>7, PlainHandle

LEMMA DomReqKeeps == ASSUME RequestAssumption, IInv, DomReq PROVE IInv'
<1>1. "dom_req" \in Ops /\ Wrapper["dom_req"].body = 0 /\ Wrapper["dom_req"].fds = {0}
  BY DEF Ops, Wrapper, Call, orkd_domain_alloc
<1>2. PICK s : s = Opened
  OBVIOUS
<1>3. PICK f : f = HdrFds
  OBVIOUS
<1>4. PICK a : a = 0
  OBVIOUS
<1>5. PICK R : R = orkd_handle_dom_req(s, f, a)
  OBVIOUS
<1>6. Handle("dom_req", 0, R)
  BY <1>2, <1>3, <1>4, <1>5 DEF DomReq
<1>7. ASSUME Plain(s) PROVE \A r \in R : Outcome("dom_req", r)
  BY <1>5, <1>7, DomainOps
<1> QED BY <1>1, <1>2, <1>4, <1>6, <1>7, PlainHandle

LEMMA DomRelKeeps == ASSUME RequestAssumption, IInv, DomRel PROVE IInv'
<1>1. "dom_rel" \in Ops /\ Wrapper["dom_rel"].body = 1 /\ Wrapper["dom_rel"].fds = {0}
  BY DEF Ops, Wrapper, Call, orkd_domain_free
<1>2. PICK s : s = Opened
  OBVIOUS
<1>3. PICK f : f = HdrFds
  OBVIOUS
<1>4. PICK a : a = Field
  OBVIOUS
<1>5. PICK R : R = orkd_handle_dom_rel(s, f, a)
  OBVIOUS
<1>6. Handle("dom_rel", 1, R)
  BY <1>2, <1>3, <1>4, <1>5 DEF DomRel
<1>7. ASSUME Plain(s) PROVE \A r \in R : Outcome("dom_rel", r)
  BY <1>5, <1>7, DomainOps
<1> QED BY <1>1, <1>2, <1>4, <1>6, <1>7, PlainHandle

LEMMA ImportWeightKeeps == ASSUME RequestAssumption, IInv, ImportWeight PROVE IInv'
<1>1. "import" \in Ops /\ Wrapper["import"].body = 1 /\ Wrapper["import"].fds = {1, 2} /\ Wrapper["import"].args = Doms
  BY DEF Ops, Wrapper, Call, orkd_import_i8
<1>2. PICK s : s = Opened
  OBVIOUS
<1>3. PICK f : f = HdrFds
  OBVIOUS
<1>4. PICK a : a = Field
  OBVIOUS
<1>5. PICK R : R = orkd_handle_import(s, f, a)
  OBVIOUS
<1>6. Handle("import", 1, R)
  BY <1>2, <1>3, <1>4, <1>5 DEF ImportWeight
<1>7. ASSUME In(s, f), a \in Doms PROVE \A r \in R : Outcome("import", r)
  BY <1>5, <1>7, ImportIs
<1> QED BY <1>1, <1>2, <1>3, <1>4, <1>6, <1>7, PassedHandle

LEMMA RunZcKeeps == ASSUME RequestAssumption, IInv, RunZc PROVE IInv'
<1>1. "run_zc" \in Ops /\ Wrapper["run_zc"].body = 1 /\ Wrapper["run_zc"].fds = {1}
  BY DEF Ops, Wrapper, Call, orkd_run_i8_zc
<1>2. PICK s : s = Opened
  OBVIOUS
<1>3. PICK f : f = HdrFds
  OBVIOUS
<1>4. PICK a : a = Field
  OBVIOUS
<1>5. PICK R : R = orkd_handle_run_zc(s, f, a)
  OBVIOUS
<1>6. Handle("run_zc", 1, R)
  BY <1>2, <1>3, <1>4, <1>5 DEF RunZc
<1>7. ASSUME In(s, f), f[2] = NoFd PROVE \A r \in R : Outcome("run_zc", r)
  BY <1>5, <1>7, RunZcIs
<1> QED BY <1>1, <1>2, <1>3, <1>4, <1>6, <1>7, PassedHandle

LEMMA RunZc2Keeps == ASSUME RequestAssumption, IInv, RunZc2 PROVE IInv'
<1>1. "run_zc2" \in Ops /\ Wrapper["run_zc2"].body = 1 /\ Wrapper["run_zc2"].fds = {2}
  BY DEF Ops, Wrapper, Call, orkd_run_i8_zc2
<1>2. PICK s : s = Opened
  OBVIOUS
<1>3. PICK f : f = HdrFds
  OBVIOUS
<1>4. PICK a : a = Field
  OBVIOUS
<1>5. PICK R : R = orkd_handle_run_zc2(s, f, a)
  OBVIOUS
<1>6. Handle("run_zc2", 1, R)
  BY <1>2, <1>3, <1>4, <1>5 DEF RunZc2
<1>7. ASSUME In(s, f) PROVE \A r \in R : Outcome("run_zc2", r)
  BY <1>5, <1>7, RunZc2Is
<1> QED BY <1>1, <1>2, <1>3, <1>4, <1>6, <1>7, PassedHandle

LEMMA DmabufProbeKeeps == ASSUME RequestAssumption, IInv, DmabufProbe PROVE IInv'
<1>1. "dmabuf" \in Ops /\ Wrapper["dmabuf"].body = 1 /\ Wrapper["dmabuf"].fds = {1}
  BY DEF Ops, Wrapper, Call, orkd_dmabuf_probe
<1>2. PICK s : s = Opened
  OBVIOUS
<1>3. PICK f : f = HdrFds
  OBVIOUS
<1>4. PICK a : a = Field
  OBVIOUS
<1>5. PICK R : R = orkd_handle_dmabuf(s, f, a)
  OBVIOUS
<1>6. Handle("dmabuf", 1, R)
  BY <1>2, <1>3, <1>4, <1>5 DEF DmabufProbe
<1>7. ASSUME In(s, f), f[2] = NoFd PROVE \A r \in R : Outcome("dmabuf", r)
  BY <1>5, <1>7, DmabufIs
<1> QED BY <1>1, <1>2, <1>3, <1>4, <1>6, <1>7, PassedHandle

LEMMA RingSetupKeeps == ASSUME RequestAssumption, IInv, RingSetup PROVE IInv'
<1>1. "ring_setup" \in Ops /\ Wrapper["ring_setup"].body = 1 /\ Wrapper["ring_setup"].fds = {1}
  BY DEF Ops, Wrapper, Call, orkd_ring_setup
<1>2. PICK s : s = Opened
  OBVIOUS
<1>3. PICK f : f = HdrFds
  OBVIOUS
<1>4. PICK a : a = Field
  OBVIOUS
<1>5. PICK R : R = orkd_handle_ring_setup(s, f, a)
  OBVIOUS
<1>6. Handle("ring_setup", 1, R)
  BY <1>2, <1>3, <1>4, <1>5 DEF RingSetup
<1>7. ASSUME In(s, f), f[2] = NoFd PROVE \A r \in R : Outcome("ring_setup", r)
  BY <1>5, <1>7, RingSetupIs
<1> QED BY <1>1, <1>2, <1>3, <1>4, <1>6, <1>7, PassedHandle

(* The goodbye, or the end of the stream.                                  *)
LEMMA ByeKeeps == ASSUME RequestAssumption, IInv, Bye PROVE IInv'
<1>1. link = "cut" /\ Hangup(srv) /\ call' = call /\ down' = down
  BY DEF Bye
<1>2. call = NoCall /\ down = <<>> /\ IsCall(call) /\ Sound(srv, {}, srv.q.imp, 0, 0)
  BY <1>1 DEF IInv, Flow, Left
<1> QED BY <1>1, <1>2, HangupKeeps

(* The queued run ends: its imports are freed and its client is answered.  *)
LEMMA EndedKeeps ==
    ASSUME RequestAssumption, IInv, srv.q # NoWork, srv' = wk_free(srv), NEW reply, Send(reply),
           reply \in Seq(Unit), \A op \in RunOps : Answer(op, reply),
           link' = link, call' = call, up' = up
    PROVE  IInv'
<1>1. PICK t : t = wk_free(srv)
  OBVIOUS
<1>2. Sound(srv, {}, srv.q.imp, 0, 0)
  BY DEF IInv
<1>3. Sound(t, {}, {}, 0, 0) /\ t.q = NoWork /\ NoWork.imp = {}
  BY <1>1, <1>2, WkFreeKeeps DEF NoWork
<1>4. Sound(srv', {}, srv'.q.imp, 0, 0) /\ srv'.q = NoWork
  BY <1>1, <1>3
<1>5. CASE link = "up"
  <2>1. Waiting(call, up, down, srv.q) /\ IsCall(call)
    BY <1>5 DEF IInv, Flow, Idle, Asked, Answered
  <2>2. down' = reply
    BY <1>5, <2>1 DEF Waiting, Send
  <2>3. Answered(call', up', down', srv'.q)
    BY <1>4, <2>1, <2>2 DEF Waiting, Answered
  <2>4. Flow(link', call', up', down', srv'.q)
    BY <1>5, <2>1, <2>3 DEF Flow
  <2> QED BY <1>4, <1>5, <2>4, ByParts
<1>6. CASE link = "cut"
  <2>1. Left(call, up, down, srv.q) /\ IsCall(call)
    BY <1>6 DEF IInv, Flow
  <2>2. down' = <<>>
    BY <1>6 DEF Send
  <2>3. Left(call', up', down', srv'.q)
    BY <1>4, <2>1, <2>2 DEF Left
  <2>4. Flow(link', call', up', down', srv'.q)
    BY <1>6, <2>1, <2>3 DEF Flow
  <2> QED BY <1>4, <1>6, <2>4, ByParts
<1>7. link \in {"up", "cut"}
  BY DEF IInv, Flow, Idle, Dropped
<1> QED BY <1>5, <1>6, <1>7

(* A quantum of the queued run.                                            *)
LEMMA DispatchKeeps == ASSUME RequestAssumption, IInv, dispatch_one PROVE IInv'
<1>1. srv.q # NoWork /\ link' = link /\ call' = call /\ up' = up
  BY DEF dispatch_one
<1>2. /\ \A op \in RunOps : op \in Ops /\ op \notin Short /\ Wrapper[op].ok = "run_ok"
      /\ \A op \in RunOps : op # "ring_setup"
  BY DEF RunOps, Short, Ops, Wrapper, Call, orkd_run, orkd_run_i8_zc, orkd_run_i8_zc2
<1>3. \A rc \in {"ok", "fail"}, n \in {0, 1, 2}, op \in RunOps : Answer(op, Reply("run_ok", rc, n))
  BY <1>2, ReplyAnswers
<1>4. \A op \in RunOps : Answer(op, Error)
  BY <1>2, ReplyAnswers DEF Error
<1>5. srv \in Server /\ srv.q \in Work /\ Sound(srv, {}, srv.q.imp, 0, 0)
  BY DEF IInv, Sound, Server
<1>6. CASE srv.q.w \notin DOMAIN srv.wt
  <2>1. srv' = wk_free(srv) /\ Send(Error)
    BY <1>6 DEF dispatch_one
  <2>2. Error \in Seq(Unit)
    BY <1>4 DEF Answer, RunOps
  <2> QED BY <1>1, <1>4, <2>1, <2>2, EndedKeeps
<1>7. CASE srv.q.w \in DOMAIN srv.wt
  <2>1. PICK n \in 1 .. srv.q.rows, rc \in {"ok", "fail"}, got \in Rows :
          LET res == IF srv.q.rc = "ok" THEN rc ELSE srv.q.rc
              size == IF srv.q.kind = "run_zc2" \/ res # "ok" THEN 0 ELSE got
          IN  IF n < srv.q.rows
              THEN srv' = [srv EXCEPT !.q.rows = @ - n, !.q.rc = res] /\ down' = down
              ELSE srv' = wk_free(srv) /\ Send(Reply("run_ok", res, size))
    BY <1>7 DEF dispatch_one
  <2>2. PICK res \in {"ok", "fail"} : res = IF srv.q.rc = "ok" THEN rc ELSE srv.q.rc
    BY <1>5 DEF Work
  <2>3. PICK size \in {0, 1, 2} : size = IF srv.q.kind = "run_zc2" \/ res # "ok" THEN 0 ELSE got
    BY DEF Rows
  <2>4. IF n < srv.q.rows
        THEN srv' = [srv EXCEPT !.q.rows = @ - n, !.q.rc = res] /\ down' = down
        ELSE srv' = wk_free(srv) /\ Send(Reply("run_ok", res, size))
    BY <2>1, <2>2, <2>3
  <2>5. CASE ~ (n < srv.q.rows)
    <3>1. PICK reply : reply = Reply("run_ok", res, size)
      OBVIOUS
    <3>2. \A op \in RunOps : Answer(op, reply)
      BY <1>3, <3>1
    <3>3. reply \in Seq(Unit)
      BY <3>2 DEF Answer, RunOps
    <3>4. srv' = wk_free(srv) /\ Send(reply)
      BY <2>4, <2>5, <3>1
    <3> QED BY <1>1, <3>2, <3>3, <3>4, EndedKeeps
  <2>6. CASE n < srv.q.rows
    <3>1. PICK q : q = [srv.q EXCEPT !.rows = @ - n, !.rc = res]
      OBVIOUS
    <3>2. srv.q.rows - n \in Nat /\ srv.q.rows - n >= 1
      BY <1>5, <2>6 DEF Work
    <3>3. q \in Work /\ q.imp = srv.q.imp /\ q.rows = srv.q.rows - n
      BY <1>5, <3>1, <3>2 DEF Work
    <3>4. q # NoWork
      BY <3>2, <3>3 DEF NoWork
    <3>5. PICK t : t = [srv EXCEPT !.q = q]
      OBVIOUS
    <3>6. srv' = t
      BY <1>5, <2>4, <2>6, <3>1, <3>5 DEF Server, Work
    <3>7. /\ t \in Server /\ t.q = q /\ t.tab = srv.tab /\ t.wt = srv.wt /\ t.iova = srv.iova
          /\ t.lost = srv.lost /\ t.ring = srv.ring /\ t.open = srv.open /\ t.ebadf = srv.ebadf
      BY <1>5, <3>3, <3>5 DEF Server
    <3>8. OwnOf(t) = OwnOf(srv) /\ RingOf(t) = RingOf(srv)
      BY <3>7 DEF OwnOf, RingOf
    <3>9. Mine(t, {})
      BY <1>5, <3>7, <3>8 DEF Sound, Mine
    <3>10. Account(t, 0, 0)
      BY <1>5, <3>7, SameAccount DEF Sound
    <3>11. Sound(srv', {}, srv'.q.imp, 0, 0) /\ srv'.q = q
      BY <1>5, <3>3, <3>6, <3>7, <3>9, <3>10 DEF Sound
    <3>12. down' = down /\ link \in {"up", "cut"}
      BY <1>1, <2>4, <2>6 DEF IInv, Flow, Idle, Dropped
    <3>13. Flow(link', call', up', down', q)
      <4>1. CASE link = "up"
        <5>1. Waiting(call, up, down, srv.q) /\ IsCall(call)
          BY <1>1, <4>1 DEF IInv, Flow, Idle, Asked, Answered
        <5>2. Waiting(call, up, down, q)
          BY <3>4, <5>1 DEF Waiting
        <5> QED BY <1>1, <3>12, <4>1, <5>1, <5>2 DEF Flow
      <4>2. CASE link = "cut"
        <5>1. Left(call, up, down, srv.q) /\ IsCall(call)
          BY <4>2 DEF IInv, Flow
        <5>2. Left(call, up, down, q)
          BY <1>1, <5>1 DEF Left
        <5> QED BY <1>1, <3>12, <4>2, <5>1, <5>2 DEF Flow
      <4> QED BY <3>12, <4>1, <4>2
    <3> QED BY <1>1, <3>11, <3>12, <3>13, ByParts
  <2> QED BY <2>5, <2>6
<1> QED BY <1>6, <1>7

-----------------------------------------------------------------------------
LEMMA EmptyHeld == ASSUME NEW s, NEW c PROVE Held(s, {}, c) = 0
<1>1. {b \in {} \X (Fds \cup {NoFd}) : s.wt[b[1]].dom = c /\ b[2] \in Buffers(s.wt[b[1]])} = {}
  OBVIOUS
<1> QED BY <1>1, FS_EmptySet DEF Held

(* The invariant holds from the start, in every step, and so always.       *)
LEMMA InitInv == ASSUME RequestAssumption, Init PROVE IInv
<1>1. PICK z \in BOOLEAN : srv = Fresh(z)
  BY DEF Init
<1>2. PICK iova \in [Doms -> Nat] : iova = [d \in Doms |-> 0]
  OBVIOUS
<1>3. srv = [open |-> {}, tab |-> <<>>, iova |-> iova, lost |-> iova, wt |-> <<>>, q |-> NoWork,
             ring |-> NoFd, owned |-> {}, ebadf |-> FALSE, adopt_zc |-> z]
  BY <1>1, <1>2 DEF Fresh
<1>4. DOMAIN <<>> = {} /\ <<>> \in [{} -> Doms] /\ <<>> \in [{} -> Weight]
  OBVIOUS
<1>5. {} \in SUBSET Fds /\ {} \in SUBSET Weights /\ NoWork \in Work
  BY DEF NoWork, Work
<1>6. <<>> \in Tables /\ <<>> \in Residents
  BY <1>4, <1>5 DEF Tables, Residents
<1>7. srv \in Server
  BY <1>3, <1>5, <1>6 DEF Server
<1>8. Blank(srv)
  BY <1>3, <1>4 DEF Blank
<1>9. OwnOf(srv) = {} /\ RingOf(srv) = {}
  BY <1>3, <1>4 DEF OwnOf, RingOf
<1>10. Mine(srv, {})
  BY <1>3, <1>4, <1>9 DEF Mine
<1>11. Account(srv, 0, 0)
  <2>1. ASSUME NEW c \in Doms
        PROVE  srv.iova[c] <= CEIL /\ srv.iova[c] = srv.lost[c] + Imports(srv, c) + Held(srv, DOMAIN srv.wt, c)
                                                       + (IF c = 0 THEN 0 ELSE 0)
    <3>1. srv.iova[c] = 0 /\ srv.lost[c] = 0
      BY <1>2, <1>3
    <3>2. {f \in DOMAIN srv.tab : srv.tab[f] = c} = {}
      BY <1>3, <1>4
    <3>3. Imports(srv, c) = 0
      BY <3>2, FS_EmptySet DEF Imports
    <3>4. Held(srv, DOMAIN srv.wt, c) = 0
      BY <1>3, <1>4, EmptyHeld
    <3> QED BY <3>1, <3>3, <3>4 DEF RequestAssumption
  <2> QED BY <2>1 DEF Account
<1>12. srv.q = NoWork /\ srv.q.imp = {} /\ DOMAIN srv.tab = {}
  BY <1>3, <1>4 DEF NoWork
<1>13. Sound(srv, {}, srv.q.imp, 0, 0)
  BY <1>7, <1>10, <1>11, <1>12 DEF Sound
<1>14. Flow(link, call, up, down, srv.q)
  BY <1>12 DEF Init, Flow, Idle, IsCall
<1> QED BY <1>8, <1>13, <1>14 DEF IInv

LEMMA StutterKeeps == ASSUME IInv, UNCHANGED vars PROVE IInv'
<1>1. link' = link /\ call' = call /\ up' = up /\ down' = down /\ srv' = srv
  BY DEF vars
<1>2. Flow(link', call', up', down', srv'.q) /\ Sound(srv', {}, srv'.q.imp, 0, 0)
  BY <1>1 DEF IInv
<1>3. link' \in {"off", "shut"} => Blank(srv')
  BY <1>1 DEF IInv
<1> QED BY <1>2, <1>3, ByParts

LEMMA NextKeeps == ASSUME RequestAssumption, IInv, [Next]_vars PROVE IInv'
<1>1. CASE Client
  BY <1>1, ClientKeeps
<1>2. CASE Hello \/ Ping \/ Bye \/ Pack \/ KvAlloc \/ KvAppend \/ ImportWeight \/ FreeWeight
  BY <1>2, HelloKeeps, PingKeeps, ByeKeeps, PackKeeps, KvAllocKeeps, KvAppendKeeps, ImportWeightKeeps,
     FreeWeightKeeps
<1>3. CASE Ffn \/ Attn \/ AttnRr \/ Layer \/ Sdp \/ Chain \/ Seq_
  BY <1>3, FfnKeeps, AttnKeeps, AttnRrKeeps, LayerKeeps, SdpKeeps, ChainKeeps, Seq_Keeps
<1>4. CASE Run \/ RunZc \/ RunZc2 \/ dispatch_one
  BY <1>4, RunKeeps, RunZcKeeps, RunZc2Keeps, DispatchKeeps
<1>5. CASE DmabufProbe \/ RingSetup \/ DomReq \/ DomRel
  BY <1>5, DmabufProbeKeeps, RingSetupKeeps, DomReqKeeps, DomRelKeeps
<1>6. CASE UNCHANGED vars
  BY <1>6, StutterKeeps
<1> QED BY <1>1, <1>2, <1>3, <1>4, <1>5, <1>6 DEF Next, Daemon

LEMMA Inductive == Spec => []IInv
<1>1. Init => IInv
  BY InitInv, RequestAssumption
<1>2. IInv /\ [Next]_vars => IInv'
  BY NextKeeps, RequestAssumption
<1> QED BY <1>1, <1>2, PTL DEF Spec

-----------------------------------------------------------------------------
(* What follows.                                                           *)

(* The invariant implies each property.                                    *)
LEMMA ShapeHolds == ASSUME RequestAssumption, IInv PROVE TypeOK
<1>1. link \in {"off", "up", "cut", "shut"} /\ IsCall(call) /\ srv \in Server
  BY DEF IInv, Flow, Sound
<1>2. call.op \in Ops \cup {"none"}
  BY <1>1 DEF IsCall, NoCall
<1>3. srv.open \subseteq Fds /\ srv.ring \in Fds \cup {NoFd} /\ srv.owned \subseteq Doms \ {0}
  BY <1>1 DEF Server
<1>4. DOMAIN srv.tab \subseteq Fds /\ DOMAIN srv.wt \subseteq Weights
  BY <1>1 DEF Server, Tables, Residents
<1>5. \A i \in DOMAIN srv.wt : srv.wt[i].dom \in Doms /\ srv.wt[i].own \subseteq Fds
  <2>1. PICK D \in SUBSET Weights : srv.wt \in [D -> Weight]
    BY <1>1 DEF Server, Residents
  <2> QED BY <2>1 DEF Weight
<1> QED BY <1>1, <1>2, <1>3, <1>4, <1>5 DEF TypeOK

LEMMA SyncHolds == ASSUME RequestAssumption, IInv PROVE InSync
<1>1. TypeOK
  BY ShapeHolds
<1>2. ASSUME up # <<>> PROVE Head(up).hdr
  <2>1. IsBye(up) \/ \E op \in Ops : Coming(op, up)
    <3>1. Flow(link, call, up, down, srv.q)
      BY DEF IInv
    <3>2. CASE link = "up"
      BY <1>2, <3>1, <3>2 DEF Flow, Idle, Asked, Asking, Coming, Answered, Waiting
    <3>3. CASE link = "cut"
      BY <1>2, <3>1, <3>3 DEF Flow, Left, Coming
    <3> QED BY <1>2, <3>1, <3>2, <3>3 DEF Flow, Idle, Dropped
  <2>2. up \in Seq(Unit) /\ up[1].hdr
    BY <2>1 DEF IsBye, Coming, Header
  <2> QED BY <1>2, <2>2
<1>3. ASSUME down # <<>>
      PROVE  /\ Head(down).hdr /\ call # NoCall
             /\ Head(down).type \in {Wrapper[call.op].ok, "error"}
             /\ Len(down) = 1 + Head(down).n
  <2>1. call # NoCall /\ Answer(call.op, down)
    BY <1>3 DEF IInv, Flow, Idle, Asked, Answered, Waiting, Left, Dropped
  <2>2. down \in Seq(Unit)
    BY <2>1 DEF Answer
  <2>3. Head(down) = down[1]
    BY <1>3, <2>2
  <2> QED BY <2>1, <2>3 DEF Answer
<1>4. call = NoCall /\ link = "up" => up = <<>>
  BY DEF IInv, Flow, Idle, Asked, Answered, Waiting
<1> QED BY <1>1, <1>2, <1>3, <1>4 DEF InSync

LEMMA AnswerHolds == ASSUME IInv PROVE NoLostCall
<1>1. ASSUME link = "up", call # NoCall, up = <<>>, down = <<>> PROVE srv.q # NoWork
  BY <1>1 DEF IInv, Flow, Idle, Asked, Asking, Coming, Answered, Answer, Waiting
<1> QED BY <1>1 DEF NoLostCall

LEMMA FdsHold == ASSUME IInv PROVE FdsExact
<1>1. Sound(srv, {}, srv.q.imp, 0, 0) /\ (link \in {"off", "shut"} => Blank(srv))
  BY DEF IInv
<1>2. Mine(srv, {}) /\ DOMAIN srv.tab = srv.q.imp
  BY <1>1 DEF Sound
<1>3. link \in {"off", "shut"} => srv.open = {} /\ srv.wt = <<>> /\ srv.q = NoWork
  BY <1>1 DEF Blank
<1> QED BY <1>2, <1>3 DEF FdsExact, Mine, OwnOf, RingOf

LEMMA IovaHolds == ASSUME RequestAssumption, IInv PROVE IovaExact
<1>1. srv \in Server /\ Account(srv, 0, 0)
  BY DEF IInv, Sound
<1>2. ASSUME NEW c \in Doms
      PROVE  /\ srv.iova[c] <= CEIL
             /\ srv.iova[c] = srv.lost[c] + Imports(srv, c) + Held(srv, DOMAIN srv.wt, c)
  <2>1. Imports(srv, c) \in Nat /\ Held(srv, DOMAIN srv.wt, c) \in Nat /\ srv.lost[c] \in Nat
    BY <1>1, CountsTyped DEF Server
  <2>2. /\ srv.iova[c] <= CEIL
        /\ srv.iova[c] = srv.lost[c] + Imports(srv, c) + Held(srv, DOMAIN srv.wt, c) + 0
    BY <1>1 DEF Account
  <2> QED BY <2>1, <2>2
<1> QED BY <1>2 DEF IovaExact, Imports

(* Neither side of a connection parses a body as a header, on any path of  *)
(* any of the handlers and wrappers, however the client ends.              *)
THEOREM StreamsInSync == Spec => []InSync
<1>1. IInv => InSync
  BY SyncHolds, RequestAssumption
<1> QED BY <1>1, Inductive, PTL

(* A call the daemon has taken is answered or queued.                      *)
THEOREM CallsAreOwed == Spec => []NoLostCall
<1>1. IInv => NoLostCall
  BY AnswerHolds
<1> QED BY <1>1, Inductive, PTL

(* Every descriptor a client passes has one owner and is closed once, by   *)
(* the end of the connection at the latest.                                *)
THEOREM FdsAreExact == Spec => []FdsExact
<1>1. IInv => FdsExact
  BY FdsHold
<1> QED BY <1>1, Inductive, PTL

(* The account of each IOMMU domain is what is mapped in it and keeps      *)
(* under the ceiling.                                                      *)
THEOREM IovaIsExact == Spec => []IovaExact
<1>1. IInv => IovaExact
  BY IovaHolds, RequestAssumption
<1> QED BY <1>1, Inductive, PTL
=============================================================================
