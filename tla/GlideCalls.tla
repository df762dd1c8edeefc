----------------------------- MODULE GlideCalls -----------------------------
(***************************************************************************)
(* The sizes of the Glide calls, for the command queue of GlideFifo: how   *)
(* many words of arguments and of data the wrappers put into the shared    *)
(* memory for a call, and how many the device takes.  Neither side tells   *)
(* the other: each computes the sizes from the arguments, in code written  *)
(* apart, the wrapper per API function, the device in a switch over all.   *)
(*                                                                         *)
(* A call is a record: the function f, the numbers n and sz its sizes      *)
(* depend on, and whether it has a table t.  "plain" stands for the        *)
(* functions without data, with n arguments.                               *)
(***************************************************************************)
EXTENDS GlideFifo

\* szgrdata.h, and char[64] of the file names.
SIZE_GRVERTEX == 60
SIZE_GRTEXINFO == 20
SIZE_GRLFBINFO == 20
SIZE_GRSSTPERFSTATS == 20
SIZE_GRHWCONFIG == 148
SIZE_GRRESOLUTION == 16
SIZE_GUNCCTABLE == 112
SIZE_GUTEXPALETTE == 1024
FileName == 64

Points    == {"grDrawPoint", "grAADrawPoint"}
Lines     == {"grDrawLine", "grAADrawLine"}
ClipTriangles == {"guDrawTriangleWithClip", "guAADrawTriangleWithClip"}
Triangles == {"grDrawTriangle", "grAADrawTriangle"} \cup ClipTriangles
Polygons  == {"grDrawPolygon", "grAADrawPolygon", "grDrawPlanarPolygon"}
VertexLists == {"grDrawPolygonVertexList", "grAADrawPolygonVertexList",
                "grDrawPlanarPolygonVertexList", "guDrawPolygonVertexListWithClip"}
Levels    == {"grTexDownloadMipMapLevel", "grTexDownloadMipMapLevelPartial"}
Tables    == {"grTexDownloadTable", "grTexDownloadTable3x"}
PartialTables == {"grTexDownloadTablePartial", "grTexDownloadTablePartial3x"}
LfbWrites == {"grLfbWriteRegion", "grLfbWriteRegion3x"}
Hardware  == {"grSstQueryBoards", "grSstQueryHardware"}
Files     == {"gu3dfGetInfo", "gu3dfLoad"}
Reads     == {"grLfbReadRegion", "guFbReadRegion"}

Drawn == Points \cup Lines \cup Triangles
Queued == {"grFogTable", "grTexSource", "grTexDownloadMipMap", "guTexDownloadMipMap",
           "guTexDownloadMipMapLevel", "grDrawVertexArray", "grDrawVertexArrayContiguous"}
Immediate == {"grLfbLock", "grSstPerfStats", "grTexTextureMemRequired",
              "grTriStats", "grLoadGammaTable", "grQueryResolutions", "guFbWriteRegion"}

Function == {"plain"} \cup Drawn \cup Polygons \cup VertexLists \cup Levels \cup Tables
            \cup PartialTables \cup LfbWrites \cup Hardware \cup Files \cup Reads
            \cup Queued \cup Immediate

(* n is the count of vertices, rows or entries, or the bytes of a texture; *)
(* sz is the size of a vertex or the length of a row; t says that a        *)
(* palette is sent, not an NCC table, and for guTexDownloadMipMap that     *)
(* there is one.                                                           *)
ApiCall == [f : Function, n : Nat, sz : Nat, t : BOOLEAN]

-----------------------------------------------------------------------------
(* The wrapper *)

\* Words for cb bytes, as both sides count them.
NumData(cb) == IF cb % 4 # 0 THEN cb \div 4 + 1 ELSE cb \div 4

\* fifoAddData's new index: it is kept even.
NextIndex(from, cb) ==
  IF (from + NumData(cb)) % 2 = 1 THEN from + NumData(cb) + 1 ELSE from + NumData(cb)

\* The words the index moves by, from an even index.
Sent(cb) == NextIndex(0, cb)

\* The second argument of FIFO_GRFUNC; for an immediate call, the words of pt
\* it stores.
ArgWords(c) ==
  CASE c.f = "plain" -> c.n
    [] c.f \in Points \cup Hardware \cup {"grFogTable", "grSstPerfStats"} -> 1
    [] c.f \in Lines \cup VertexLists \cup Files
         \cup {"grTexTextureMemRequired", "grTriStats", "grQueryResolutions",
               "grTexDownloadTable3x"} -> 2
    [] c.f \in {"grDrawTriangle", "grTexDownloadTable", "grDrawVertexArray"}
         \cup ClipTriangles \cup Polygons -> 3
    [] c.f \in {"guTexDownloadMipMap", "guTexDownloadMipMapLevel", "grTexSource",
                "grTexDownloadTablePartial3x", "grDrawVertexArrayContiguous",
                "grLoadGammaTable"} -> 4
    [] c.f \in {"grTexDownloadMipMap", "grTexDownloadTablePartial"} -> 5
    [] c.f \in {"grAADrawTriangle", "grLfbLock", "guFbWriteRegion", "guFbReadRegion"} -> 6
    [] c.f = "grLfbReadRegion" -> 7
    [] c.f = "grLfbWriteRegion" -> 8
    [] c.f \in {"grTexDownloadMipMapLevel", "grLfbWriteRegion3x"} -> 9
    [] c.f = "grTexDownloadMipMapLevelPartial" -> 11

\* Single vertices, of SIZE_GRVERTEX or, with Glide 3.x, size_vertex3x() bytes.
VerticesSent(c) ==
  CASE c.f \in Points -> Sent(c.sz)
    [] c.f \in Lines -> Sent(c.sz) + Sent(c.sz)
    [] c.f \in Triangles -> Sent(c.sz) + Sent(c.sz) + Sent(c.sz)

\* The indices, then the vertices they name, one by one.
PolygonSent(c) == Sent(c.n * 4) + c.n * Sent(SIZE_GRVERTEX)

\* Vertices in one piece, or one by one from an array of pointers.
ArraySent(c) ==
  CASE c.f \in VertexLists -> Sent(c.n * SIZE_GRVERTEX)
    [] c.f = "grDrawVertexArray" -> c.n * Sent(c.sz)
    [] c.f = "grDrawVertexArrayContiguous" -> Sent(c.n * c.sz)

\* The length of the fog table, 64 with Glide 2.x, then its entries.
FogSent(c) == Sent(4) + Sent(c.n)

\* The description of a texture, and the texture; n is what the host answered
\* to grTexTextureMemRequired, or computed from the rows of a partial level.
TextureSent(c) ==
  CASE c.f \in {"grTexSource", "grTexTextureMemRequired"} -> Sent(SIZE_GRTEXINFO)
    [] c.f = "grTexDownloadMipMap" -> Sent(SIZE_GRTEXINFO) + Sent(c.n)
    [] c.f \in Levels -> Sent(c.n)

\* A palette or an NCC table; a partial palette from its start to the last entry, n.
TableSent(c) ==
  CASE ~c.t -> Sent(SIZE_GUNCCTABLE)
    [] c.t /\ c.f \in Tables -> Sent(SIZE_GUTEXPALETTE)
    [] c.t /\ c.f \in PartialTables -> Sent((c.n + 1) * 4)

\* The textures of the utility library: n is zero when guTexSize does not know
\* the texture.  The last word pair of a level makes room for a pointer.
GuTextureSent(c) ==
  CASE c.f = "guTexDownloadMipMap" ->
         (IF c.n # 0 THEN Sent(c.n) ELSE 0) + (IF c.t THEN Sent(SIZE_GUNCCTABLE) ELSE 0)
    [] c.f = "guTexDownloadMipMapLevel" ->
         IF c.n # 0 THEN Sent(c.n) + Sent(8) ELSE 0

\* The calls that are made at once.
ImmediateSent(c) ==
  CASE c.f = "grLfbLock" -> Sent(SIZE_GRLFBINFO)
    [] c.f \in LfbWrites \cup {"guFbWriteRegion"} -> Sent(c.n * c.sz)
    [] c.f = "grSstPerfStats" -> Sent(SIZE_GRSSTPERFSTATS)
    [] c.f \in Hardware -> Sent(SIZE_GRHWCONFIG)
    [] c.f = "grTriStats" -> Sent(4) + Sent(4)
    [] c.f \in Files -> Sent(FileName)
    [] c.f = "grLoadGammaTable" -> Sent(c.n * 4) + Sent(c.n * 4) + Sent(c.n * 4)
    [] c.f = "grQueryResolutions" -> Sent(SIZE_GRRESOLUTION)

WordsSent(c) ==
  CASE c.f \in {"plain"} \cup Reads -> 0
    [] c.f \in Drawn -> VerticesSent(c)
    [] c.f \in Polygons -> PolygonSent(c)
    [] c.f \in VertexLists \cup {"grDrawVertexArray", "grDrawVertexArrayContiguous"} -> ArraySent(c)
    [] c.f = "grFogTable" -> FogSent(c)
    [] c.f \in Levels \cup {"grTexSource", "grTexTextureMemRequired", "grTexDownloadMipMap"} -> TextureSent(c)
    [] c.f \in Tables \cup PartialTables -> TableSent(c)
    [] c.f \in {"guTexDownloadMipMap", "guTexDownloadMipMapLevel"} -> GuTextureSent(c)
    [] OTHER -> ImmediateSent(c)

\* The words the wrapper copies out of the data area: n rows of sz bytes.
WordsRead(c) == IF c.f \in Reads THEN NumData(c.n * c.sz) ELSE 0

-----------------------------------------------------------------------------
(* The device *)

ALIGNED(x) == IF x % 8 # 0 THEN (x \div 8 + 1) * 8 ELSE x

\* The bytes of arguments after the @ of the function's symbol, in words.
getNumArgs(c) ==
  CASE c.f = "plain" -> c.n
    [] c.f \in Points \cup Hardware \cup {"grFogTable", "grSstPerfStats"} -> 1
    [] c.f \in Lines \cup VertexLists \cup Files
         \cup {"grTexTextureMemRequired", "grTriStats", "grQueryResolutions",
               "grTexDownloadTable3x"} -> 2
    [] c.f \in {"grDrawTriangle", "grTexDownloadTable", "grDrawVertexArray",
                "guTexDownloadMipMap", "guTexDownloadMipMapLevel"}
         \cup ClipTriangles \cup Polygons -> 3
    [] c.f \in {"grTexSource", "grTexDownloadMipMap", "grTexDownloadTablePartial3x",
                "grDrawVertexArrayContiguous", "grLoadGammaTable"} -> 4
    [] c.f = "grTexDownloadTablePartial" -> 5
    [] c.f \in {"grAADrawTriangle", "grLfbLock", "guFbWriteRegion", "guFbReadRegion"} -> 6
    [] c.f = "grLfbReadRegion" -> 7
    [] c.f \in {"grTexDownloadMipMapLevel", "grLfbWriteRegion"} -> 8
    [] c.f = "grLfbWriteRegion3x" -> 9
    [] c.f = "grTexDownloadMipMapLevelPartial" -> 10

\* With the size of the texture, which is not an argument of the API.
GRFEnumArgsCnt(c) ==
  IF c.f \in Levels \cup {"grTexDownloadMipMap", "guTexDownloadMipMap", "guTexDownloadMipMapLevel"}
  THEN getNumArgs(c) + 1 ELSE getNumArgs(c)

\* processArgs sets s->datacb, in bytes.
VerticesTaken(c) ==
  CASE c.f \in Points -> ALIGNED(c.sz)
    [] c.f \in Lines -> 2 * ALIGNED(c.sz)
    [] c.f \in Triangles -> 3 * ALIGNED(c.sz)

PolygonTaken(c) == ALIGNED(c.n * 4) + c.n * ALIGNED(SIZE_GRVERTEX)

ArrayTaken(c) ==
  CASE c.f \in VertexLists -> ALIGNED(c.n * SIZE_GRVERTEX)
    [] c.f = "grDrawVertexArray" -> c.n * ALIGNED(c.sz)
    [] c.f = "grDrawVertexArrayContiguous" -> ALIGNED(c.n * c.sz)

\* The length is read from the data itself.
FogTaken(c) == ALIGNED(4) + ALIGNED(c.n)

TextureTaken(c) ==
  CASE c.f \in {"grTexSource", "grTexTextureMemRequired"} -> ALIGNED(SIZE_GRTEXINFO)
    [] c.f = "grTexDownloadMipMap" -> ALIGNED(SIZE_GRTEXINFO) + ALIGNED(c.n)
    [] c.f \in Levels -> ALIGNED(c.n)

TableTaken(c) ==
  CASE ~c.t -> SIZE_GUNCCTABLE
    [] c.t /\ c.f \in Tables -> SIZE_GUTEXPALETTE
    [] c.t /\ c.f \in PartialTables -> ALIGNED((c.n + 1) * 4)

GuTextureTaken(c) ==
  CASE c.f = "guTexDownloadMipMap" ->
         (IF c.n # 0 THEN ALIGNED(c.n) ELSE 0) + (IF c.t THEN SIZE_GUNCCTABLE ELSE 0)
    [] c.f = "guTexDownloadMipMapLevel" ->
         IF c.n # 0 THEN ALIGNED(c.n) + ALIGNED(1) ELSE 0

ImmediateTaken(c) ==
  CASE c.f = "grLfbLock" -> ALIGNED(SIZE_GRLFBINFO)
    [] c.f \in LfbWrites -> ALIGNED(c.n * c.sz)
    [] c.f = "guFbWriteRegion" -> c.n * c.sz
    [] c.f = "grSstPerfStats" -> ALIGNED(SIZE_GRSSTPERFSTATS)
    [] c.f \in Hardware -> ALIGNED(SIZE_GRHWCONFIG)
    [] c.f = "grTriStats" -> 2 * ALIGNED(4)
    [] c.f \in Files -> FileName
    [] c.f = "grLoadGammaTable" -> 3 * ALIGNED(c.n * 4)
    [] c.f = "grQueryResolutions" -> SIZE_GRRESOLUTION

datacb(c) ==
  CASE c.f \in {"plain"} \cup Reads -> 0
    [] c.f \in Drawn -> VerticesTaken(c)
    [] c.f \in Polygons -> PolygonTaken(c)
    [] c.f \in VertexLists \cup {"grDrawVertexArray", "grDrawVertexArrayContiguous"} -> ArrayTaken(c)
    [] c.f = "grFogTable" -> FogTaken(c)
    [] c.f \in Levels \cup {"grTexSource", "grTexTextureMemRequired", "grTexDownloadMipMap"} -> TextureTaken(c)
    [] c.f \in Tables \cup PartialTables -> TableTaken(c)
    [] c.f \in {"guTexDownloadMipMap", "guTexDownloadMipMapLevel"} -> GuTextureTaken(c)
    [] OTHER -> ImmediateTaken(c)

\* By how many words processFifo moves on.
WordsTaken(c) == NumData(datacb(c))

\* The pointer guTexDownloadMipMapLevel wants: processArgs stores it behind the
\* texture, whether or not there is one.
WordsStored(c) ==
  IF c.f = "guTexDownloadMipMapLevel" THEN {ALIGNED(c.n) \div 4, ALIGNED(c.n) \div 4 + 1} ELSE {}

-----------------------------------------------------------------------------

(* The calls for which the two sides agree: a level of a texture the       *)
(* wrapper knows, and a rectangle for guFbWriteRegion of whole pairs of    *)
(* words, whose size the device alone does not round.                      *)
WellFormed(c) ==
  /\ c.f = "guTexDownloadMipMapLevel" => c.n # 0
  /\ c.f = "guFbWriteRegion" => (c.n * c.sz) % 8 = 0

\* The sizes of the queue are those of well-formed calls of Glide.
GlideSizes ==
  /\ Call \subseteq {c \in ApiCall : WellFormed(c)}
  /\ NArgs = [c \in Call |-> ArgWords(c)]
  /\ HostArgs = [c \in Call |-> GRFEnumArgsCnt(c)]
  /\ GuestWords = [c \in Call |-> WordsSent(c)]
  /\ HostWords = [c \in Call |-> WordsTaken(c)]
  /\ Stores = [c \in Call |-> WordsStored(c)]
=============================================================================
