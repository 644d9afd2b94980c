----------------------------- MODULE PackedWeight -----------------------------
(* int8 weights in NPU memory: the tile layout a matmul reads (npu.c,      *)
(* orki_pack), the dumps and loads of a .orkpack (npu/i8/pack.c), weights  *)
(* imported from a client's dma-buf, repacking in place, and the resident  *)
(* K/V pair that decode attention appends to one key at a time.            *)
(*                                                                         *)
(* A matrix B[K,N] is cut into K-slices of KS and N-slices of NMAX; each   *)
(* slice is a buffer Bb[ns*Sk+ks] of T x T blocks.  Bf[ns] holds the same  *)
(* columns over the full K: a one-row matmul reads Bf when there is one.   *)
(* The bytes are elements <<version, k, n>> of B, so that a wrong slice,   *)
(* block or order shows; a header is a record, not a page of bytes.        *)
EXTENDS Integers, Sequences, FiniteSets, Functions

CONSTANTS
    T,          \* 32: side of a block
    KS,         \* 1024: rows of a K-slice
    KTILE,      \* ORK_KTILE, 0 when it is unset
    NMAX,       \* [Socs -> Nat] soc->nmax: columns of an N-slice
    Here,       \* the SoC of this machine
    PAGE,       \* 4096: what a buffer's size is rounded up to
    BF_MOD,     \* 512   \ the shapes for which a load rebuilds Bf:
    BF_MAX,     \* 4096  / K % 512 == 0 && K <= 4096
    BF_PACK,    \* 10752: the largest K for which a pack builds Bf
    CHUNK,      \* ORK_IMPORT_CHUNK_MB: size of a chunk of imports
    Ceilings,   \* the room of the IOVA window, in elements
    Shapes,     \* the shapes <<K, N>> of the weights
    KvShape,    \* <<Kp, Lmax, HD>> of a resident K/V pair
    Keys,       \* the keys appended to it
    Versions,   \* contents a weight is packed with, and keys are appended with
    Refills,    \* contents it is repacked with
    MAX_FILES,  \* how many dumps are kept
    Objs        \* GEM objects

Socs == DOMAIN NMAX

(* What a weight can be: whole blocks.  The resident pair is K^T and V.    *)
Shaped(sh) == /\ sh \in (Nat \ {0}) \X (Nat \ {0})
              /\ sh[1] % T = 0 /\ sh[2] % T = 0
KtShape == <<KvShape[1], KvShape[2]>>
VShape == <<KvShape[2], KvShape[3]>>

ASSUME PackedAssumption ==
    /\ \A c \in {T, KS, PAGE, BF_MOD, BF_MAX, BF_PACK, CHUNK} : c \in Nat \ {0}
    /\ KTILE \in Nat /\ KS % T = 0 /\ KTILE % T = 0
    /\ NMAX \in [Socs -> Nat \ {0}] /\ Here \in Socs
    /\ \A s \in Socs : NMAX[s] % T = 0
    /\ \A sh \in Shapes : Shaped(sh)
    /\ KvShape \in Seq(Nat) /\ Shaped(KtShape) /\ Shaped(VShape)
    /\ KvShape[1] <= KS /\ KvShape[1] <= NMAX[Here] /\ KvShape[2] <= NMAX[Here]
    /\ KvShape[3] <= KvShape[1]
    /\ Keys \subseteq 0..(KvShape[2] - 1)
    /\ 0 \notin Versions \cup Refills
    /\ Objs \subseteq Nat /\ IsFiniteSet(Objs) /\ Ceilings \subseteq Nat

VARIABLES
    mem,     \* [live GEM objects -> their elements]
    limbo,   \* objects ork_w_free left to the teardown of the context
    wt,      \* the weight the caller holds, <<>> for none
    kv,      \* <<>>, or <<wkt, wv>>, the resident pair
    file,    \* the dumps
    views,   \* the gates: ORK_CONSOLIDATE_I8, ORK_ADOPT_ZC, and no
             \* ORK_NO_CONSOLIDATE_IMPORT
    ceil,    \* the room of the window
    refused  \* a client's import of a good dump was refused

pkVars == <<mem, limbo, wt, kv, file, views, ceil, refused>>

-----------------------------------------------------------------------------
(* The layout.                                                             *)

CeilDiv(a, b) == (a + b - 1) \div b
Lesser(a, b) == IF a <= b THEN a ELSE b
PgUp(n) == PAGE * CeilDiv(n, PAGE)

(* What buffers of these sizes take, as the number of their pages, and     *)
(* what those before i take.                                               *)
Pages(sizes) == UNION {{i} \X (1..CeilDiv(sizes[i], PAGE)) : i \in DOMAIN sizes}
Total(sizes) == PAGE * Cardinality(Pages(sizes))
Ahead(sizes, i) == Total(SubSeq(sizes, 1, i - 1))

orki_int8_ks == IF KTILE > 0 THEN KTILE ELSE KS

(* A function on 1..n as the sequence it is.                               *)
AsSeq(f) == SubSeq(f, 1, Len(f))

(* A matrix filled with version v, and the elements of a matrix.           *)
Places(sh) == (0..(sh[1] - 1)) \X (0..(sh[2] - 1))
Filled(sh, v) == [at \in Places(sh) |-> v]
Zero == <<0, 0, 0>>
Elements(B) == [at \in DOMAIN B |-> IF B[at] = 0 THEN Zero ELSE <<B[at], at[1], at[2]>>]

(* The slices of a weight, N-slices outermost.                             *)
SlicesOf(sh, ks, nmax) ==
    LET Sk == CeilDiv(sh[1], ks) IN
    AsSeq([i \in 1..(Sk * CeilDiv(sh[2], nmax)) |->
        LET k0 == ((i - 1) % Sk) * ks
            n0 == ((i - 1) \div Sk) * nmax
        IN [k0 |-> k0, n0 |-> n0,
            Kp |-> Lesser(sh[1] - k0, ks), Nc |-> Lesser(sh[2] - n0, nmax)]])

FullK(sh, nmax) == SlicesOf(sh, sh[1], nmax)

(* Row and column of element p, counted from 0, of a tile of Kp rows: T x  *)
(* T blocks, block columns outermost, the columns of a block next; and the *)
(* element in row k, column n.                                             *)
RowOf(p, Kp) == ((p \div (T * T)) % (Kp \div T)) * T + (p % T)
ColOf(p, Kp) == (p \div ((Kp \div T) * T * T)) * T + ((p \div T) % T)
Spot(k, n, Kp) ==
    (n \div T) * ((Kp \div T) * T * T) + (k \div T) * (T * T) + (n % T) * T + (k % T)

(* orki_i8_tile_range: one slice of the matrix E as a tile.                *)
Tiled(E, s) ==
    AsSeq([o \in 1..(s.Kp * s.Nc) |->
        E[<<s.k0 + RowOf(o - 1, s.Kp), s.n0 + ColOf(o - 1, s.Kp)>>]])

(* A buffer is a whole number of pages, zeroed where it is not written.    *)
Padded(c) == AsSeq([p \in 1..PgUp(Len(c)) |-> IF p <= Len(c) THEN c[p] ELSE Zero])
TileSet(E, slices) == AsSeq([i \in DOMAIN slices |-> Padded(Tiled(E, slices[i]))])

(* The rebuild of Bf from the tiles of Bb: the blocks of the K-slices of   *)
(* one N-slice ns, interleaved by block column: what goes to p, from 0.    *)
Interleaved(bb, sh, nmax, ns, p) ==
    LET sl == SlicesOf(sh, KS, nmax)
        KTf == sh[1] \div T
        nt == p \div (KTf * T * T)
        ktf == (p \div (T * T)) % KTf
        ks == (ktf * T) \div KS
        i == ns * CeilDiv(sh[1], KS) + ks + 1
    IN bb[i][nt * ((sl[i].Kp \div T) * T * T)
             + (ktf - ks * (KS \div T)) * (T * T) + (p % (T * T)) + 1]

Rebuilt(bb, sh, nmax) ==
    LET full == FullK(sh, nmax)
    IN AsSeq([j \in DOMAIN full |->
            Padded(AsSeq([o \in 1..(sh[1] * full[j].Nc) |->
                             Interleaved(bb, sh, nmax, j - 1, o - 1)]))])

BfLoaded(sh) == sh[1] % BF_MOD = 0 /\ sh[1] <= BF_MAX

-----------------------------------------------------------------------------
(* Memory.  A set of buffers is laid out as one object each, as one object *)
(* for all, or in chunks that are filled in order; the whole set is there, *)
(* or the objects that were made are destroyed again.                      *)

Lengths(c) == [i \in DOMAIN c |-> Len(c[i])]
Usage(m) == Total(Lengths(m))

Chunks(c) ==
    LET New(n, i) == [at |-> n, off |-> 0,
                      size |-> IF Len(c[i]) > CHUNK THEN Len(c[i]) ELSE CHUNK]
        place[i \in DOMAIN c] ==
            IF i = 1 THEN New(1, 1)
            ELSE LET p == place[i - 1]
                     off == p.off + Len(c[i - 1])
                 IN IF off + Len(c[i]) > p.size THEN New(p.at + 1, i)
                    ELSE [p EXCEPT !.off = off]
    IN AsSeq(place)

One(c) == AsSeq([i \in DOMAIN c |->
              [at |-> 1, off |-> Ahead(Lengths(c), i), size |-> Total(Lengths(c))]])

Each(c) == AsSeq([i \in DOMAIN c |-> [at |-> i, off |-> 0, size |-> Len(c[i])]])

(* The element at p where pieces c[i], i \in in, were put at at[i].off, one *)
(* after the other, over old.                                              *)
Put(c, at, in, p, old) ==
    LET there == {i \in in : p - at[i].off \in DOMAIN c[i]}
        last == CHOOSE i \in there : \A j \in there : j <= i
    IN IF there = {} THEN old ELSE c[last][p - at[last].off]

(* The objects of a layout, by number: the buffers in them, their sizes,   *)
(* and their contents.                                                     *)
Inside(lay, n) == {i \in DOMAIN lay : lay[i].at = n}
Extents(lay) == [n \in {lay[i].at : i \in DOMAIN lay} |-> lay[CHOOSE i \in Inside(lay, n) : TRUE].size]
Contents(c, lay) ==
    [n \in DOMAIN Extents(lay) |->
        LET in == Inside(lay, n) IN
        AsSeq([p \in 1..Extents(lay)[n] |-> Put(c, lay, in, p, Zero)])]

(* Room in the window, and handles for the objects.                        *)
Fits(m, lay) ==
    /\ Usage(m) + Total(Extents(lay)) <= ceil
    /\ Cardinality(DOMAIN Extents(lay)) <= Cardinality(Objs \ DOMAIN m)

(* The handles the kernel gives to the objects of a layout.                *)
NewHandles(m, objs) ==
    LET spare == Objs \ DOMAIN m
    IN AsSeq([n \in objs |-> CHOOSE o \in spare : Cardinality({p \in spare : p < o}) = n - 1])

(* Buffers with the contents c laid out by lay in m: the memory after it,  *)
(* the buffers, and the handles.                                           *)
Laid(m, c, lay) ==
    LET objs == Contents(c, lay)
        h == NewHandles(m, DOMAIN objs)
    IN [mem |-> [o \in DOMAIN m \cup Range(h) |->
                    IF o \in DOMAIN m THEN m[o] ELSE objs[CHOOSE n \in DOMAIN h : h[n] = o]],
        bufs |-> AsSeq([i \in DOMAIN c |-> [obj |-> h[lay[i].at], off |-> lay[i].off,
                                            size |-> Len(c[i]), view |-> FALSE]]),
        objs |-> h]

(* What a matmul reads through a buffer.                                   *)
Read(m, b, n) == SubSeq(m[b.obj], b.off + 1, b.off + n)
Bytes(m, bufs) == AsSeq([i \in DOMAIN bufs |-> Read(m, bufs[i], bufs[i].size)])

(* A weight: its buffers, whether each of Bb is its own (owns), and the    *)
(* objects it owns as a whole (own_buf, own_bufs).  Offline it is the      *)
(* codes.  holds is the matrix the caller means it to be.                  *)
Weight(sh, holds, bb, bf, owns, own) ==
    [sh |-> sh, holds |-> holds, Bb |-> bb, Bf |-> bf, owns |-> owns, own |-> own,
     codes |-> <<>>]
Offline(sh, holds, codes) ==
    [Weight(sh, holds, <<>>, <<>>, TRUE, <<>>) EXCEPT !.codes = codes]

(* The objects that tiles Bb, full copies Bf and the objects it owns as a  *)
(* whole name, by the place where each is named.                           *)
NamedBy(w, bb, bf) ==
    [p \in ({"Bb"} \X bb) \cup ({"Bf"} \X bf) \cup ({"own"} \X DOMAIN w.own) |->
        IF p[1] = "Bb" THEN w.Bb[p[2]].obj
        ELSE IF p[1] = "Bf" THEN w.Bf[p[2]].obj ELSE w.own[p[2]]]

(* Mutant: the tiles are destroyed one by one, views and all.              *)
Destroyed_Views(w) == NamedBy(w, DOMAIN w.Bb, DOMAIN w.Bf)

(* ork_mm_free: the handles it destroys, by where it finds them.           *)
Destroyed(w) == NamedBy(w, IF w.owns THEN DOMAIN w.Bb ELSE {},
                         {i \in DOMAIN w.Bf : ~w.Bf[i].view})

Minus(m, objs) == Restrict(m, DOMAIN m \ objs)
Objects(w) == {w.Bb[i].obj : i \in DOMAIN w.Bb} \cup {w.Bf[i].obj : i \in DOMAIN w.Bf}

-----------------------------------------------------------------------------
(* Making a weight.  Each operator gives the memory after it and the       *)
(* weight, <<>> when the call returns NULL.                                *)

Made(m, w) == [mem |-> m, w |-> <<w>>]
NotMade == [mem |-> mem, w |-> <<>>]

(* Bf, with contents c, is built beside Bb, or given up when it has no room*)
FullCopy(m, wanted, c) ==
    IF wanted /\ Fits(m, Each(c)) THEN Laid(m, c, Each(c))
    ELSE [mem |-> m, bufs |-> <<>>]

(* orki_pack                                                               *)
Packed(m, sh, B) ==
    LET c   == TileSet(Elements(B), SlicesOf(sh, orki_int8_ks, NMAX[Here]))
        lay == IF views THEN One(c) ELSE Each(c)
        bb  == Laid(m, c, lay)
        bf  == FullCopy(bb.mem, sh[1] <= BF_PACK /\ ~(0 < KTILE /\ KTILE < sh[1]),
                        TileSet(Elements(B), FullK(sh, NMAX[Here])))
    IN IF ~Fits(m, lay) THEN [mem |-> m, w |-> <<>>]
       ELSE Made(bf.mem, Weight(sh, B, bb.bufs, bf.bufs, ~views, IF views THEN bb.objs ELSE <<>>))

(* Tiles c brought into memory that is imported: in chunks, or one by one  *)
(* when the chunks do not fit (ork_i8_mm_load_import, ork_i8_mm_pack_import)*)
Imported(sh, B, c) ==
    LET chunked == views /\ Fits(mem, Chunks(c))
        lay == IF chunked THEN Chunks(c) ELSE Each(c)
        bb  == Laid(mem, c, lay)
        bf  == FullCopy(bb.mem, BfLoaded(sh), Rebuilt(Bytes(bb.mem, bb.bufs), sh, NMAX[Here]))
    IN IF ~Fits(mem, lay) THEN NotMade
       ELSE Made(bf.mem, Weight(sh, B, bb.bufs, bf.bufs, ~chunked,
                                IF chunked THEN bb.objs ELSE <<>>))

(* A dump: a header of one page, then the tiles.                           *)
PackHeader(soc, sh) == <<[soc |-> soc, sh |-> sh]>>
Dumped(hdr, holds, c) == [hdr |-> hdr, holds |-> holds, body |-> Contents(c, One(c))[1]]

(* orki_pack_check of a reader on soc that asks for a weight of shape sh.  *)
orki_pack_check(f, soc, sh) == f.hdr = PackHeader(soc, sh)

(* The tiles of a body, cut where a reader with K-slices of ks cuts them.  *)
TileSizes(sh, ks, nmax) ==
    LET sl == SlicesOf(sh, ks, nmax) IN AsSeq([i \in DOMAIN sl |-> PgUp(sl[i].Kp * sl[i].Nc)])
Cut(body, sizes) ==
    AsSeq([i \in DOMAIN sizes |->
        SubSeq(body, Ahead(sizes, i) + 1, Ahead(sizes, i) + sizes[i])])
Exact(f, sh) == Len(f.body) = Total(TileSizes(sh, KS, NMAX[Here]))

(* ork_i8_mm_load, or ork_i8_mm_load_flags, which builds no Bf.            *)
Loaded(f, sh, full) ==
    LET c  == Cut(f.body, TileSizes(sh, KS, NMAX[Here]))
        bb == Laid(mem, c, Each(c))
        bf == FullCopy(bb.mem, full /\ BfLoaded(sh), Rebuilt(c, sh, NMAX[Here]))
    IN IF orki_pack_check(f, Here, sh) /\ Exact(f, sh) /\ Fits(mem, Each(c))
       THEN Made(bf.mem, Weight(sh, f.holds, bb.bufs, bf.bufs, TRUE, <<>>))
       ELSE NotMade

(* orki_i8_untile_blob: the codes of a body, by a reader without a device. *)
Untiled(body, sh, nmax) ==
    LET sl == SlicesOf(sh, orki_int8_ks, nmax)
        c  == Cut(body, TileSizes(sh, orki_int8_ks, nmax))
        Sk == CeilDiv(sh[1], orki_int8_ks)
    IN [at \in Places(sh) |->
          LET i == (at[2] \div nmax) * Sk + (at[1] \div orki_int8_ks) + 1
          IN c[i][Spot(at[1] - sl[i].k0, at[2] - sl[i].n0, sl[i].Kp) + 1]]

(* ork_i8_mm_adopt_imported with ORK_ADOPT_ZC: the client's buffer itself  *)
(* becomes the weight, its tiles views into it.                            *)
Adopted(f, sh) ==
    LET whole == <<Padded(f.body)>>
        bb    == Laid(mem, whole, Each(whole))
        sizes == TileSizes(sh, KS, NMAX[Here])
        tiles == [i \in DOMAIN sizes |->
                    [obj |-> bb.bufs[1].obj, off |-> Ahead(sizes, i),
                     size |-> sizes[i], view |-> TRUE]]
    IN IF Len(f.body) >= Total(sizes) /\ Fits(mem, Each(whole))
       THEN Made(bb.mem, Weight(sh, f.holds, tiles, <<>>, FALSE, bb.objs))
       ELSE NotMade

-----------------------------------------------------------------------------
(* The operations.  A call that returns NULL changes nothing but what its  *)
(* definition says.                                                        *)

PkInit ==
    /\ mem = <<>> /\ limbo = {}
    /\ wt = <<>> /\ kv = <<>> /\ file = {}
    /\ views \in BOOLEAN /\ ceil \in Ceilings
    /\ refused = FALSE

Keep(r) == /\ mem' = r.mem /\ wt' = r.w
           /\ UNCHANGED <<limbo, kv, file, views, ceil, refused>>

ork_i8_mm_pack(sh, v) == wt = <<>> /\ Keep(Packed(mem, sh, Filled(sh, v)))

ork_i8_mm_pack_import(sh, v) ==
    wt = <<>> /\ Keep(Imported(sh, Filled(sh, v),
                     TileSet(Elements(Filled(sh, v)), SlicesOf(sh, KS, NMAX[Here]))))

(* Without a device a weight is its codes, for the SoC it is packed for.   *)
OfflinePack(sh, v, soc) ==
    /\ wt = <<>>
    /\ LET B == Filled(sh, v)
       IN Keep(Made(mem, Offline(sh, B, <<Elements(B), soc>>)))

ork_i8_mm_load(f, sh, full) == wt = <<>> /\ Keep(Loaded(f, sh, full))

OfflineLoad(f, sh, soc) ==
    /\ wt = <<>> /\ orki_pack_check(f, soc, sh)
    /\ Keep(Made(mem, Offline(sh, f.holds, <<Untiled(f.body, sh, NMAX[soc]), soc>>)))

ork_i8_mm_load_import(f, sh) ==
    /\ wt = <<>> /\ orki_pack_check(f, Here, sh) /\ Exact(f, sh)
    /\ Keep(Imported(sh, f.holds, Cut(f.body, TileSizes(sh, KS, NMAX[Here]))))

(* A client hands a dump to the daemon: it checks the header, fills a      *)
(* dma-buf with what follows it, and the daemon adopts the buffer.  By     *)
(* default the daemon loads it; with ORK_ADOPT_ZC it maps it.              *)
ork_i8_mm_import(f, sh) ==
    /\ wt = <<>> /\ orki_pack_check(f, Here, sh)
    /\ LET sent == [f EXCEPT !.hdr = <<>>]
           r == IF views THEN Adopted(sent, sh) ELSE Loaded(sent, sh, TRUE)
       IN /\ mem' = r.mem /\ wt' = r.w
          /\ refused' = (r.w = <<>> /\ Usage(mem) + 2 * Len(f.body) <= ceil)
    /\ UNCHANGED <<limbo, kv, file, views, ceil>>

(* ork_w_dump of the weight, and the dumps that need no device: of a whole *)
(* file, or, single-threaded, of the tiles alone.                          *)
ork_w_dump ==
    /\ wt # <<>> /\ Cardinality(file) < MAX_FILES
    /\ LET w == wt[1]
           Codes(soc) == TileSet(w.codes[1], SlicesOf(w.sh, orki_int8_ks, NMAX[soc]))
       IN file' = file \cup
            {IF w.codes # <<>>
             THEN Dumped(PackHeader(w.codes[2], w.sh), w.holds, Codes(w.codes[2]))
             ELSE Dumped(PackHeader(Here, w.sh), w.holds, Bytes(mem, w.Bb))}
    /\ UNCHANGED <<mem, limbo, wt, kv, views, ceil, refused>>

ork_i8_w_dump_cpu(sh, v, soc, st) ==
    /\ Cardinality(file) < MAX_FILES
    /\ LET B == Filled(sh, v) IN
       file' = file \cup {Dumped(IF st THEN <<>> ELSE PackHeader(soc, sh), B,
                                 TileSet(Elements(B), SlicesOf(sh, orki_int8_ks, NMAX[soc])))}
    /\ UNCHANGED <<mem, limbo, wt, kv, views, ceil, refused>>

Forget(f) == /\ file' = file \ {f}
             /\ UNCHANGED <<mem, limbo, wt, kv, views, ceil, refused>>

(* Elements c[i][o] written through buffers at their offsets o.            *)
WrittenAll(m, bufs, c) ==
    [obj \in DOMAIN m |->
        LET in == {i \in DOMAIN bufs : bufs[i].obj = obj}
            old == m[obj]
        IN IF in = {} THEN old ELSE AsSeq([p \in DOMAIN old |-> Put(c, bufs, in, p, old[p])])]
Written(m, b, at) == WrittenAll(m, <<b>>, <<at>>)

(* The tiles a repack writes over Bb, and over Bf when there is one.       *)
NewTiles(w, B) ==
    AsSeq([i \in DOMAIN w.Bb |-> Tiled(Elements(B), SlicesOf(w.sh, KS, NMAX[Here])[i])])

(* Mutant: a repack leaves Bf, which a one-row matmul reads, as it was.    *)
NewFull_Stale(w, B) == [i \in DOMAIN w.Bf |-> <<>>]
NewFull(w, B) == AsSeq([i \in DOMAIN w.Bf |-> Tiled(Elements(B), FullK(w.sh, NMAX[Here])[i])])

(* ork_i8_mm_repack: new contents of the same shape, in place.             *)
ork_i8_mm_repack(v) ==
    /\ wt # <<>> /\ wt[1].codes = <<>>
    /\ LET w == wt[1]
           B == Filled(w.sh, v)
       IN /\ mem' = WrittenAll(WrittenAll(mem, w.Bb, NewTiles(w, B)), w.Bf, NewFull(w, B))
          /\ wt' = <<[w EXCEPT !.holds = B]>>
    /\ UNCHANGED <<limbo, kv, file, views, ceil, refused>>

ork_mm_free_held ==
    /\ wt # <<>> /\ wt' = <<>>
    /\ mem' = Minus(mem, Range(Destroyed(wt[1])))
    /\ UNCHANGED <<limbo, kv, file, views, ceil, refused>>

(* ork_kv_resident_alloc packs two matrices of zeros; what ork_w_free lets *)
(* go when the second has no room stays until the context is torn down.    *)
ork_kv_resident_alloc ==
    /\ kv = <<>> /\ limbo = {}     \* bound: one pair in a context's life
    /\ LET kt == Packed(mem, KtShape, Filled(KtShape, 0))
           v  == Packed(kt.mem, VShape, Filled(VShape, 0))
       IN /\ kv' = IF kt.w = <<>> \/ v.w = <<>> THEN <<>> ELSE <<kt.w[1], v.w[1]>>
          /\ mem' = v.mem
          /\ limbo' = IF kv' = <<>> THEN limbo \cup (DOMAIN mem' \ DOMAIN mem) ELSE limbo
    /\ UNCHANGED <<wt, file, views, ceil, refused>>

(* ork_kv_append: the key's column of K^T and its row of V, in Bf and in   *)
(* the one tile of Bb each falls into.                                     *)
ork_kv_append(key, v) ==
    /\ kv # <<>>
    /\ LET kt == kv[1]
           va == kv[2]
           HD == KvShape[3]
           Col == [o \in {Spot(k, key, KvShape[1]) + 1 : k \in 0..(HD - 1)} |->
                     <<v, RowOf(o - 1, KvShape[1]), key>>]
           Row(rows, lk) == [o \in {Spot(lk, e, rows) + 1 : e \in 0..(HD - 1)} |->
                     <<v, key, ColOf(o - 1, rows)>>]
           ix == (key \div orki_int8_ks) + 1
           rows == SlicesOf(VShape, orki_int8_ks, NMAX[Here])[ix].Kp
           Full(w, m, at) == IF w.Bf # <<>> THEN Written(m, w.Bf[1], at) ELSE m
           m1 == Written(Full(kt, mem, Col), kt.Bb[1], Col)
       IN /\ mem' = Written(Full(va, m1, Row(KvShape[2], key)), va.Bb[ix],
                            Row(rows, key - (ix - 1) * orki_int8_ks))
          /\ kv' = <<[kt EXCEPT !.holds = [at \in DOMAIN @ |->
                            IF at[2] = key /\ at[1] < HD THEN v ELSE @[at]]],
                     [va EXCEPT !.holds = [at \in DOMAIN @ |->
                            IF at[1] = key THEN v ELSE @[at]]]>>
    /\ UNCHANGED <<limbo, wt, file, views, ceil, refused>>

(* ork_kv_resident_free: ork_w_free destroys nothing.                      *)
ork_kv_resident_free ==
    /\ kv # <<>> /\ kv' = <<>>
    /\ limbo' = limbo \cup Objects(kv[1]) \cup Objects(kv[2])
    /\ UNCHANGED <<mem, wt, file, views, ceil, refused>>

PkNext ==
    \/ \E sh \in Shapes, v \in Versions :
          \/ ork_i8_mm_pack(sh, v)
          \/ ork_i8_mm_pack_import(sh, v)
          \/ \E soc \in Socs : \/ OfflinePack(sh, v, soc)
                               \/ \E st \in BOOLEAN : ork_i8_w_dump_cpu(sh, v, soc, st)
    \/ \E f \in file, sh \in Shapes :
          \/ \E full \in BOOLEAN : ork_i8_mm_load(f, sh, full)
          \/ \E soc \in Socs : OfflineLoad(f, sh, soc)
          \/ ork_i8_mm_load_import(f, sh)
          \/ ork_i8_mm_import(f, sh)
    \/ \E f \in file : Forget(f)
    \/ ork_w_dump \/ ork_mm_free_held
    \/ \E v \in Refills : ork_i8_mm_repack(v)
    \/ ork_kv_resident_alloc \/ ork_kv_resident_free
    \/ \E key \in Keys, v \in Versions : ork_kv_append(key, v)

PkSpec == PkInit /\ [][PkNext]_pkVars

-----------------------------------------------------------------------------
(* The weights there are.                                                  *)
Held == Range(wt) \cup Range(kv)

(* Whichever way it was made, a weight reads as its matrix: each tile      *)
(* where run_i8 looks for it with the slices of orki_int8_ks, and Bf, when *)
(* there is one, as the same matrix over the full K (orki_pack, the loads, *)
(* the imports, repack and ork_kv_append each compute it in their own way) *)
ReadsAs(w) ==
    IF w.codes # <<>>
    THEN w.codes[1] = Elements(w.holds)
    ELSE LET bb == SlicesOf(w.sh, orki_int8_ks, NMAX[Here])
             bf == FullK(w.sh, NMAX[Here])
         IN /\ \A i \in DOMAIN bb :
                  Read(mem, w.Bb[i], bb[i].Kp * bb[i].Nc) = Tiled(Elements(w.holds), bb[i])
            /\ \A i \in DOMAIN w.Bf :
                  Read(mem, w.Bf[i], bf[i].Kp * bf[i].Nc) = Tiled(Elements(w.holds), bf[i])

LayoutExact == \A w \in Held : ReadsAs(w)

(* Every live object is the property of one weight, which destroys it once *)
(* (ork_mm_free, over owns, own_buf, own_bufs and the views of Bf), or was *)
(* left to the teardown of the context by ork_w_free; no call that fails   *)
(* half way leaves anything behind, and the window is never overdrawn.     *)
PkTypeOK ==
    /\ limbo \subseteq DOMAIN mem /\ DOMAIN mem \subseteq Objs
    /\ Len(wt) \in {0, 1} /\ Len(kv) \in {0, 2}
    /\ \A f \in file : Len(f.hdr) \in {0, 1} /\ Len(f.body) % PAGE = 0
    /\ views \in BOOLEAN /\ refused \in BOOLEAN

BuffersExact ==
    /\ PkTypeOK
    /\ Usage(mem) <= ceil
    /\ \A w \in Held : IsInjective(Destroyed(w)) /\ Range(Destroyed(w)) = Objects(w)
    /\ \A w, x \in Held : w # x => Objects(w) \cap Objects(x) = {}
    /\ DOMAIN mem = limbo \cup UNION {Objects(w) : w \in Held}
    /\ \A w \in Held : Objects(w) \cap limbo = {}

(* weights.h:19-30 and npu/i8/pack.c:322-325: a dump handed to the daemon  *)
(* becomes a resident weight, "orkpack loads, NO live-convert".  It does   *)
(* not, by default: the daemon looks for the header the client took off.   *)
ImportServed == ~refused
=============================================================================
