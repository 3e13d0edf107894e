---------------------------- MODULE TileArchive ----------------------------
(***************************************************************************)
(* geo/pmtiles.py: tiles are collected, written to an archive, and looked   *)
(* up in it.  A byte is a number below 2 * TileBase, its upper half meaning  *)
(* that more follows; a compressed stream is a sequence of opaque units that *)
(* only the whole of it, and no more, turns back into bytes.                *)
(***************************************************************************)
EXTENDS Integers, Sequences, SequencesExt, FiniteSetsExt

CONSTANTS
    TileBase,       \* 128 in the code: 7 bits of a byte are digits
    TileHeader,     \* HEADER_LEN
    TileMaxRoot,    \* MAX_ROOT_BYTES
    TileLeaf,       \* LEAF_TARGET_BYTES
    TileRatio,      \* how much shorter a stream is than its bytes,
    TileOverhead,   \* but for its header and trailer
    TilePlaces,     \* the addresses that may have a tile
    TileSize,       \* TileSize[d]: the bytes of payload d
    TileLookups,    \* the addresses that may be looked up
    TileMax,        \* bound: tiles in the input
    TileNone,       \* no tile there
    TileUnreadable  \* a stream that cannot be decompressed: the reader raises

\* 1 << k
TileTwo[k \in Nat] == IF k = 0 THEN 1 ELSE 2 * TileTwo[k - 1]

\* The zooms that an id is for.
TileZooms == 0..26

TileEntrySet == [id : Nat, offset : Nat, length : Nat, run : Nat]

ASSUME TileAssumption ==
    /\ TileBase \in Nat \ {0, 1}
    /\ {TileLeaf, TileMax} \subseteq Nat
    /\ {TileHeader, TileMaxRoot, TileRatio, TileOverhead} \subseteq Nat \ {0}
    /\ TilePlaces \subseteq TileLookups
    /\ TileLookups \subseteq TileZooms \X Nat \X Nat
    /\ \A a \in TileLookups : a[2] < TileTwo[a[1]] /\ a[3] < TileTwo[a[1]]
    /\ \A d \in DOMAIN TileSize : TileSize[d] \in Nat
    /\ TileNone \notin TileEntrySet /\ TileUnreadable \notin TileEntrySet

VARIABLES
    tiles,      \* the input, in the order it comes
    archive     \* the file, TileNone while there is none

tileVars == <<tiles, archive>>

TilePayloads == DOMAIN TileSize

TileInit == tiles = <<>> /\ archive = TileNone

-----------------------------------------------------------------------------
(* Tile ids: the tiles of lower zooms, and the place on a Hilbert curve.     *)

TileLevel(z) == (TileTwo[2 * z] - 1) \div 3

\* The places of the quadrants (rx, ry) on the curve, and the turn in each.
TileQuadrant(rx, ry) == IF rx = 1 THEN 3 - ry ELSE ry
TileTurn(rx, ry, last, p) ==
    IF ry = 1 THEN p ELSE IF rx = 1 THEN <<last - p[2], last - p[1]>> ELSE <<p[2], p[1]>>

TileSquare(z) == (0..TileTwo[z] - 1) \X (0..TileTwo[z] - 1)

\* The loop of zxy_to_tileid: what j rounds add that start from p, s going down.
TileCurve(z) ==
    LET d[j \in 0..z] == [p \in TileSquare(z) |->
            IF j = 0 THEN 0 ELSE
            LET s == TileTwo[j - 1]
                rx == (p[1] \div s) % 2
                ry == (p[2] \div s) % 2
            IN  s * s * TileQuadrant(rx, ry) + d[j - 1][TileTurn(rx, ry, TileTwo[z] - 1, p)]]
    IN  d

TileId(a) == TileLevel(a[1]) + TileCurve(a[1])[a[1]][<<a[2], a[3]>>]

\* The loop of tileid_to_zxy: <<x, y, t>> after k rounds, s going up.
TileWalk(t) ==
    LET at[k \in Nat] ==
            IF k = 0 THEN <<0, 0, t>> ELSE
            LET s == TileTwo[k - 1]
                rx == (at[k - 1][3] \div 2) % 2
                ry == (at[k - 1][3] + rx) % 2
                p == TileTurn(rx, ry, s - 1, <<at[k - 1][1], at[k - 1][2]>>)
            IN  <<p[1] + s * rx, p[2] + s * ry, at[k - 1][3] \div 4>>
    IN  at

TileAddress(id) ==
    LET z == CHOOSE z \in TileZooms : TileLevel(z) <= id /\ id < TileLevel(z + 1)
        p == TileWalk(id - TileLevel(z))[z]
    IN  <<z, p[1], p[2]>>

-----------------------------------------------------------------------------
(* Directories.                                                             *)

Varint[n \in Nat] ==
    IF n < TileBase THEN <<n>> ELSE <<TileBase + (n % TileBase)>> \o Varint[n \div TileBase]

\* The numbers that follow one another in bytes b, as long as they end.
Numbers[b \in Seq(Nat)] ==
    IF b = <<>> THEN <<>> ELSE
    LET rest == Numbers[Tail(b)] IN
    IF b[1] < TileBase THEN <<b[1]>> \o rest
    ELSE IF rest = <<>> THEN <<>>
    ELSE <<b[1] - TileBase + TileBase * rest[1]>> \o Tail(rest)

TileEnd(e) == e.offset + e.length

\* An entry that begins where the one before ends says 0 for its offset.
TileOffsetOut(es, i) ==
    IF i > 1 /\ es[i].offset = TileEnd(es[i - 1]) THEN 0 ELSE es[i].offset + 1

\* What a directory of these entries says, one number after another.
TileNumbers(es) ==
    <<Len(es)>>
    \o [i \in DOMAIN es |-> es[i].id - (IF i = 1 THEN 0 ELSE es[i - 1].id)]
    \o [i \in DOMAIN es |-> es[i].run]
    \o [i \in DOMAIN es |-> es[i].length]
    \o [i \in DOMAIN es |-> TileOffsetOut(es, i)]

SerializeDirectory(es) ==
    FlattenSeq([k \in DOMAIN TileNumbers(es) |-> Varint[TileNumbers(es)[k]]])

\* The ids and the offsets of n entries, each from those before it.
TileIdsIn(ints, n) ==
    LET id[i \in 1..n] == ints[1 + i] + (IF i = 1 THEN 0 ELSE id[i - 1])
    IN  id
TileOffsetsIn(ints, n) ==
    LET offset[i \in 1..n] ==
            IF ints[1 + 3 * n + i] = 0 THEN offset[i - 1] + ints[1 + 2 * n + i - 1]
            ELSE ints[1 + 3 * n + i] - 1
    IN  offset

DeserializeDirectory(b) ==
    LET ints == Numbers[b]
        n == ints[1]
    IN  [i \in 1..n |-> [id |-> TileIdsIn(ints, n)[i], offset |-> TileOffsetsIn(ints, n)[i],
                          length |-> ints[1 + 2 * n + i], run |-> ints[1 + n + i]]]

-----------------------------------------------------------------------------
(* Streams: gzip.                                                           *)

Compress(b) == [i \in 1..(Len(b) \div TileRatio) + TileOverhead |-> <<"gzip", b, i>>]

\* The bytes whose stream u is; any part of a stream, or more than it, raises.
Decompress(u) ==
    IF u # <<>> /\ u[1][1] = "gzip" /\ u = Compress(u[1][2]) THEN u[1][2] ELSE TileUnreadable

-----------------------------------------------------------------------------
(* The writer.                                                              *)

\* norm: the tiles in the order of their ids, when no two have the same.
TileSorted ==
    CHOOSE s \in [DOMAIN tiles -> ToSet(tiles)] :
        /\ ToSet(s) = ToSet(tiles)
        /\ \A i, j \in DOMAIN s : i < j => TileId(s[i].at) < TileId(s[j].at)

\* Where each of sequences of these lengths begins that follow one another.
TileOffsets(lengths) ==
    LET offset[i \in 1..Len(lengths) + 1] == IF i = 1 THEN 0 ELSE offset[i - 1] + lengths[i - 1]
    IN  offset

TileEntries(norm) ==
    LET offset == TileOffsets([i \in DOMAIN norm |-> TileSize[norm[i].data]])
    IN  [i \in DOMAIN norm |-> [id |-> TileId(norm[i].at), offset |-> offset[i],
                                length |-> TileSize[norm[i].data], run |-> 1]]

\* The leaves: entries are taken until they serialize to TileLeaf bytes.
TileChunkAdd(cs, e) ==
    IF cs = <<>> \/ Len(SerializeDirectory(Last(cs))) >= TileLeaf
    THEN Append(cs, <<e>>)
    ELSE [cs EXCEPT ![Len(cs)] = Append(@, e)]
TileChunks(es) ==
    LET taken[m \in 0..Len(es)] == IF m = 0 THEN <<>> ELSE TileChunkAdd(taken[m - 1], es[m])
    IN  taken[Len(es)]

\* The pointers of a root, run 0, to leaves that follow one another.
TilePointers(blobs, chunks) ==
    LET offset == TileOffsets([i \in DOMAIN blobs |-> Len(blobs[i])])
    IN  [i \in DOMAIN chunks |-> [id |-> chunks[i][1].id, offset |-> offset[i],
                                  length |-> Len(blobs[i]), run |-> 0]]

TilePayload(d) == [i \in 1..TileSize[d] |-> <<"data", d, i>>]

TileUnits(norm) == FlattenSeq([k \in DOMAIN norm |-> TilePayload(norm[k].data)])

\* The bytes of the root and of the leaves: of all entries, or of pointers to leaves.
TileDirectories(es) ==
    LET whole == SerializeDirectory(es)
        chunks == TileChunks(es)
        blobs == [i \in DOMAIN chunks |-> SerializeDirectory(chunks[i])]
    IN  IF Len(whole) <= TileMaxRoot THEN [root |-> Compress(whole), leaf |-> <<>>]
        ELSE [root |-> Compress(SerializeDirectory(TilePointers(blobs, chunks))),
              leaf |-> Compress(FlattenSeq(blobs))]

TileHead(root, leaf) ==
    [root |-> TileHeader, rootLength |-> Len(root),
     leaf |-> TileHeader + Len(root), data |-> TileHeader + Len(root) + Len(leaf)]

\* write_pmtiles; the metadata do not matter.
TileFile ==
    LET dirs == TileDirectories(TileEntries(TileSorted))
    IN  [i \in 1..TileHeader |-> <<"header", TileHead(dirs.root, dirs.leaf)>>]
        \o dirs.root \o dirs.leaf \o TileUnits(TileSorted)

TileCollect ==
    /\ archive = TileNone /\ Len(tiles) < TileMax
    /\ \E a \in TilePlaces, d \in TilePayloads : tiles' = Append(tiles, [at |-> a, data |-> d])
    /\ UNCHANGED archive

\* Two tiles of one address raise.
TileDistinct == \A i, j \in DOMAIN tiles : tiles[i].at = tiles[j].at => i = j

TileWrite ==
    /\ archive = TileNone
    /\ TileDistinct
    /\ archive' = TileFile
    /\ UNCHANGED tiles

TileNext == TileCollect \/ TileWrite

TileSpec == TileInit /\ [][TileNext]_tileVars

-----------------------------------------------------------------------------
(* The reader.                                                              *)

\* _read_at: less than asked for at the end of the file.
ReadAt(offset, length) ==
    SubSeq(archive, offset + 1, Min({offset + length, Len(archive)}))

\* read_header: the fields, from the first TileHeader bytes.
ReadHeader == LET u == ReadAt(0, TileHeader) IN u[1][2]

\* Mutant: an entry also stands for the tile after its run.
TileCoversOneMore(e, id) == id - e.id <= e.run
\* Whether an entry stands for a tile.
TileCovers(e, id) == id - e.id < e.run

\* A round of _resolve in a directory with these entries; deeper goes on in a leaf.
TileSearch(id, depth, deeper) ==
    [es \in Seq(TileEntrySet) |->
        LET below == {i \in DOMAIN es : es[i].id <= id} IN
        IF depth = 4 \/ below = {} THEN TileNone ELSE
        LET e == es[Max(below)] IN
        IF e.run > 0 THEN (IF TileCovers(e, id) THEN e ELSE TileNone)
        ELSE LET raw == Decompress(ReadAt(ReadHeader.leaf + e.offset, e.length))
             IN  IF raw = TileUnreadable THEN TileUnreadable
                 ELSE deeper[DeserializeDirectory(raw)]]

\* _resolve, depth leaves below the root.
TileResolve(id) ==
    LET resolve[depth \in 0..4] == TileSearch(id, depth, resolve[depth + 1])
    IN  resolve[0][DeserializeDirectory(Decompress(ReadAt(ReadHeader.root, ReadHeader.rootLength)))]

GetTile(a) ==
    LET e == TileResolve(TileId(a))
    IN  IF e \in {TileNone, TileUnreadable} THEN e ELSE ReadAt(ReadHeader.data + e.offset, e.length)

-----------------------------------------------------------------------------
TileTypeOK ==
    /\ tiles \in Seq([at : TilePlaces, data : TilePayloads])
    /\ Len(tiles) <= TileMax
    /\ archive = TileNone \/
         /\ DOMAIN ReadHeader = {"root", "rootLength", "leaf", "data"}
         /\ ReadHeader.data <= Len(archive)

(* What an archive was made of is what it gives: each tile its payload, and  *)
(* nothing at any other address, in whatever order the tiles came; ids and   *)
(* addresses turn into each other.  A reader relies on it for every map that *)
(* is shown ("leaf directories", docs/system-architecture.md:60-61).         *)
TilesFound ==
    archive # TileNone =>
      \A a \in TileLookups :
        /\ TileAddress(TileId(a)) = a
        /\ GetTile(a) =
             IF \E i \in DOMAIN tiles : tiles[i].at = a
             THEN TilePayload(tiles[CHOOSE i \in DOMAIN tiles : tiles[i].at = a].data)
             ELSE TileNone
=============================================================================
