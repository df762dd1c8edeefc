-------------------------- MODULE GlideCalls_proofs --------------------------
(***************************************************************************)
(* Proofs that the wrapper and the device compute the same sizes for every *)
(* Glide call, whatever its arguments, and what that means for the queue.  *)
(***************************************************************************)
EXTENDS GlideCalls, GlideFifo_proofs

\* Data of cb bytes: the wrapper's words are the device's bytes.
LEMMA SentIsAligned ==
  ASSUME NEW cb \in Nat
  PROVE  /\ Sent(cb) \in Nat
         /\ ALIGNED(cb) = 4 * Sent(cb)
<1>1. CASE cb % 8 = 0
  BY <1>1 DEF Sent, NextIndex, NumData, ALIGNED
<1>2. CASE cb % 8 \in 1..4
  BY <1>2 DEF Sent, NextIndex, NumData, ALIGNED
<1>3. CASE cb % 8 \in 5..7
  BY <1>3 DEF Sent, NextIndex, NumData, ALIGNED
<1> QED BY <1>1, <1>2, <1>3

\* fifoAddData keeps the index even, and moves it by Sent(cb).
LEMMA IndexMoves ==
  ASSUME NEW from \in Nat, from % 2 = 0, NEW cb \in Nat
  PROVE  /\ NextIndex(from, cb) = from + Sent(cb)
         /\ NextIndex(from, cb) % 2 = 0
<1>1. NumData(cb) \in Nat
  BY DEF NumData
<1>2. CASE NumData(cb) % 2 = 0
  BY <1>1, <1>2 DEF Sent, NextIndex
<1>3. CASE NumData(cb) % 2 = 1
  BY <1>1, <1>3 DEF Sent, NextIndex
<1> QED BY <1>1, <1>2, <1>3

\* A whole number of words.
LEMMA WholeWords ==
  ASSUME NEW w \in Nat
  PROVE  NumData(4 * w) = w
BY DEF NumData

\* The structures of szgrdata.h that the device does not round.
LEMMA RoundSizes ==
  /\ ALIGNED(SIZE_GUNCCTABLE) = SIZE_GUNCCTABLE
  /\ ALIGNED(SIZE_GUTEXPALETTE) = SIZE_GUTEXPALETTE
  /\ ALIGNED(SIZE_GRRESOLUTION) = SIZE_GRRESOLUTION
  /\ ALIGNED(FileName) = FileName
  /\ ALIGNED(1) = ALIGNED(8)
BY DEF ALIGNED, SIZE_GUNCCTABLE, SIZE_GUTEXPALETTE, SIZE_GRRESOLUTION, FileName

\* Of four times a product.
LEMMA FourTimes ==
  ASSUME NEW n \in Nat, NEW a \in Nat
  PROVE  /\ n * a \in Nat
         /\ n * (4 * a) = 4 * (n * a)
OBVIOUS

\* Single vertices.
LEMMA VerticesAgree ==
  ASSUME NEW c \in ApiCall, c.f \in Drawn
  PROVE  /\ VerticesSent(c) \in Nat
         /\ VerticesTaken(c) = 4 * VerticesSent(c)
<1>1. c.sz \in Nat
  BY DEF ApiCall
<1>2. Sent(c.sz) \in Nat /\ ALIGNED(c.sz) = 4 * Sent(c.sz)
  BY <1>1, SentIsAligned
<1>3. CASE c.f \in Points
  BY <1>2, <1>3 DEF VerticesSent, VerticesTaken, Points, Lines, Triangles, ClipTriangles
<1>4. CASE c.f \in Lines
  BY <1>2, <1>4 DEF VerticesSent, VerticesTaken, Points, Lines, Triangles, ClipTriangles
<1>5. CASE c.f \in Triangles
  BY <1>2, <1>5 DEF VerticesSent, VerticesTaken, Points, Lines, Triangles, ClipTriangles
<1> QED BY <1>3, <1>4, <1>5 DEF Drawn

\* Polygons by indices.
LEMMA PolygonAgrees ==
  ASSUME NEW c \in ApiCall
  PROVE  /\ PolygonSent(c) \in Nat
         /\ PolygonTaken(c) = 4 * PolygonSent(c)
<1>1. c.n \in Nat /\ c.n * 4 \in Nat /\ SIZE_GRVERTEX \in Nat
  BY DEF ApiCall, SIZE_GRVERTEX
<1>2. Sent(c.n * 4) \in Nat /\ ALIGNED(c.n * 4) = 4 * Sent(c.n * 4)
  BY <1>1, SentIsAligned
<1>3. Sent(SIZE_GRVERTEX) \in Nat /\ ALIGNED(SIZE_GRVERTEX) = 4 * Sent(SIZE_GRVERTEX)
  BY <1>1, SentIsAligned
<1>4. c.n * Sent(SIZE_GRVERTEX) \in Nat
      /\ c.n * ALIGNED(SIZE_GRVERTEX) = 4 * (c.n * Sent(SIZE_GRVERTEX))
  BY <1>1, <1>3, FourTimes
<1> QED BY <1>2, <1>4 DEF PolygonSent, PolygonTaken

\* Vertices in one piece or one by one.
LEMMA ArrayAgrees ==
  ASSUME NEW c \in ApiCall,
         c.f \in VertexLists \cup {"grDrawVertexArray", "grDrawVertexArrayContiguous"}
  PROVE  /\ ArraySent(c) \in Nat
         /\ ArrayTaken(c) = 4 * ArraySent(c)
<1>1. c.n \in Nat /\ c.sz \in Nat
  BY DEF ApiCall
<1>2. CASE c.f \in VertexLists
  <2>1. c.n * SIZE_GRVERTEX \in Nat
    BY <1>1 DEF SIZE_GRVERTEX
  <2>2. ArraySent(c) = Sent(c.n * SIZE_GRVERTEX) /\ ArrayTaken(c) = ALIGNED(c.n * SIZE_GRVERTEX)
    BY <1>2 DEF ArraySent, ArrayTaken, VertexLists
  <2> QED BY <2>1, <2>2, SentIsAligned
<1>3. CASE c.f = "grDrawVertexArray"
  <2>1. Sent(c.sz) \in Nat /\ ALIGNED(c.sz) = 4 * Sent(c.sz)
    BY <1>1, SentIsAligned
  <2>2. c.n * Sent(c.sz) \in Nat /\ c.n * ALIGNED(c.sz) = 4 * (c.n * Sent(c.sz))
    BY <1>1, <2>1, FourTimes
  <2>3. ArraySent(c) = c.n * Sent(c.sz) /\ ArrayTaken(c) = c.n * ALIGNED(c.sz)
    BY <1>3 DEF ArraySent, ArrayTaken, VertexLists
  <2> QED BY <2>2, <2>3
<1>4. CASE c.f = "grDrawVertexArrayContiguous"
  <2>1. c.n * c.sz \in Nat
    BY <1>1, FourTimes
  <2>2. ArraySent(c) = Sent(c.n * c.sz) /\ ArrayTaken(c) = ALIGNED(c.n * c.sz)
    BY <1>4 DEF ArraySent, ArrayTaken, VertexLists
  <2> QED BY <2>1, <2>2, SentIsAligned
<1> QED BY <1>2, <1>3, <1>4

\* The fog table with its length.
LEMMA FogAgrees ==
  ASSUME NEW c \in ApiCall
  PROVE  /\ FogSent(c) \in Nat
         /\ FogTaken(c) = 4 * FogSent(c)
<1>1. c.n \in Nat /\ 4 \in Nat
  BY DEF ApiCall
<1>2. Sent(4) \in Nat /\ ALIGNED(4) = 4 * Sent(4)
  BY <1>1, SentIsAligned
<1>3. Sent(c.n) \in Nat /\ ALIGNED(c.n) = 4 * Sent(c.n)
  BY <1>1, SentIsAligned
<1> QED BY <1>2, <1>3 DEF FogSent, FogTaken

\* Textures, as they are described and as they are sent.
LEMMA TextureAgrees ==
  ASSUME NEW c \in ApiCall,
         c.f \in Levels \cup {"grTexSource", "grTexTextureMemRequired", "grTexDownloadMipMap"}
  PROVE  /\ TextureSent(c) \in Nat
         /\ TextureTaken(c) = 4 * TextureSent(c)
<1>1. c.n \in Nat /\ SIZE_GRTEXINFO \in Nat
  BY DEF ApiCall, SIZE_GRTEXINFO
<1>2. Sent(c.n) \in Nat /\ ALIGNED(c.n) = 4 * Sent(c.n)
  BY <1>1, SentIsAligned
<1>3. Sent(SIZE_GRTEXINFO) \in Nat /\ ALIGNED(SIZE_GRTEXINFO) = 4 * Sent(SIZE_GRTEXINFO)
  BY <1>1, SentIsAligned
<1> QED BY <1>2, <1>3 DEF TextureSent, TextureTaken, Levels

\* Palettes and NCC tables.
LEMMA TableAgrees ==
  ASSUME NEW c \in ApiCall, c.f \in Tables \cup PartialTables
  PROVE  /\ TableSent(c) \in Nat
         /\ TableTaken(c) = 4 * TableSent(c)
<1>1. c.n \in Nat /\ c.t \in BOOLEAN /\ (c.n + 1) * 4 \in Nat
      /\ SIZE_GUNCCTABLE \in Nat /\ SIZE_GUTEXPALETTE \in Nat
  BY DEF ApiCall, SIZE_GUNCCTABLE, SIZE_GUTEXPALETTE
<1>2. Sent((c.n + 1) * 4) \in Nat /\ ALIGNED((c.n + 1) * 4) = 4 * Sent((c.n + 1) * 4)
  BY <1>1, SentIsAligned
<1>3. /\ Sent(SIZE_GUNCCTABLE) \in Nat
      /\ SIZE_GUNCCTABLE = 4 * Sent(SIZE_GUNCCTABLE)
  BY <1>1, SentIsAligned, RoundSizes
<1>4. /\ Sent(SIZE_GUTEXPALETTE) \in Nat
      /\ SIZE_GUTEXPALETTE = 4 * Sent(SIZE_GUTEXPALETTE)
  BY <1>1, SentIsAligned, RoundSizes
<1>5. Tables \cap PartialTables = {}
  BY DEF Tables, PartialTables
<1>6. CASE ~c.t
  BY <1>3, <1>6 DEF TableSent, TableTaken
<1>7. CASE c.t /\ c.f \in Tables
  BY <1>4, <1>5, <1>7 DEF TableSent, TableTaken
<1>8. CASE c.t /\ c.f \in PartialTables
  BY <1>2, <1>5, <1>8 DEF TableSent, TableTaken
<1> QED BY <1>1, <1>6, <1>7, <1>8

\* The utility library's textures, when the texture is one it knows.
LEMMA GuTextureAgrees ==
  ASSUME NEW c \in ApiCall, WellFormed(c),
         c.f \in {"guTexDownloadMipMap", "guTexDownloadMipMapLevel"}
  PROVE  /\ GuTextureSent(c) \in Nat
         /\ GuTextureTaken(c) = 4 * GuTextureSent(c)
         /\ WordsStored(c) \subseteq 0..(GuTextureSent(c) - 1)
<1>1. c.n \in Nat /\ c.t \in BOOLEAN /\ SIZE_GUNCCTABLE \in Nat /\ 8 \in Nat
  BY DEF ApiCall, SIZE_GUNCCTABLE
<1>2. Sent(c.n) \in Nat /\ ALIGNED(c.n) = 4 * Sent(c.n)
  BY <1>1, SentIsAligned
<1>3. CASE c.f = "guTexDownloadMipMap"
  <2>1. /\ Sent(SIZE_GUNCCTABLE) \in Nat
        /\ SIZE_GUNCCTABLE = 4 * Sent(SIZE_GUNCCTABLE)
    BY <1>1, SentIsAligned, RoundSizes
  <2>2. /\ GuTextureSent(c) = (IF c.n # 0 THEN Sent(c.n) ELSE 0)
                               + (IF c.t THEN Sent(SIZE_GUNCCTABLE) ELSE 0)
        /\ GuTextureTaken(c) = (IF c.n # 0 THEN ALIGNED(c.n) ELSE 0)
                                + (IF c.t THEN SIZE_GUNCCTABLE ELSE 0)
        /\ WordsStored(c) = {}
    BY <1>3 DEF GuTextureSent, GuTextureTaken, WordsStored
  <2> QED BY <1>1, <1>2, <2>1, <2>2
<1>4. CASE c.f = "guTexDownloadMipMapLevel"
  <2>1. Sent(8) = 2 /\ ALIGNED(1) = 8
    BY DEF Sent, NextIndex, NumData, ALIGNED
  <2>2. c.n # 0
    BY <1>4 DEF WellFormed
  <2>3. /\ GuTextureSent(c) = Sent(c.n) + Sent(8)
        /\ GuTextureTaken(c) = ALIGNED(c.n) + ALIGNED(1)
        /\ WordsStored(c) = {ALIGNED(c.n) \div 4, ALIGNED(c.n) \div 4 + 1}
    BY <1>4, <2>2 DEF GuTextureSent, GuTextureTaken, WordsStored
  <2>4. ALIGNED(c.n) \div 4 = Sent(c.n)
    BY <1>2
  <2> QED BY <1>2, <2>1, <2>3, <2>4
<1> QED BY <1>3, <1>4

\* The calls made at once, and grLfbWriteRegion.
LEMMA ImmediateAgrees ==
  ASSUME NEW c \in ApiCall, WellFormed(c),
         c.f \in LfbWrites \cup Hardware \cup Files
                  \cup {"grLfbLock", "guFbWriteRegion", "grSstPerfStats", "grTriStats",
                        "grLoadGammaTable", "grQueryResolutions"}
  PROVE  /\ ImmediateSent(c) \in Nat
         /\ ImmediateTaken(c) = 4 * ImmediateSent(c)
<1>1. c.n \in Nat /\ c.sz \in Nat /\ c.n * 4 \in Nat /\ 4 \in Nat
  BY DEF ApiCall
<1>2. c.n * c.sz \in Nat
  BY <1>1, FourTimes
<1>3. Sent(4) \in Nat /\ ALIGNED(4) = 4 * Sent(4)
  BY <1>1, SentIsAligned
<1>4. Sent(c.n * 4) \in Nat /\ ALIGNED(c.n * 4) = 4 * Sent(c.n * 4)
  BY <1>1, SentIsAligned
<1>5. Sent(c.n * c.sz) \in Nat /\ ALIGNED(c.n * c.sz) = 4 * Sent(c.n * c.sz)
  BY <1>2, SentIsAligned
<1>6. CASE c.f \in LfbWrites
  BY <1>5, <1>6 DEF ImmediateSent, ImmediateTaken, LfbWrites, Hardware, Files
<1>7. CASE c.f = "guFbWriteRegion"
  <2>1. (c.n * c.sz) % 8 = 0
    BY <1>7 DEF WellFormed
  <2>2. ALIGNED(c.n * c.sz) = c.n * c.sz
    BY <2>1 DEF ALIGNED
  <2>3. ImmediateSent(c) = Sent(c.n * c.sz) /\ ImmediateTaken(c) = c.n * c.sz
    BY <1>7 DEF ImmediateSent, ImmediateTaken, LfbWrites, Hardware, Files
  <2> QED BY <1>5, <2>2, <2>3
<1>8. CASE c.f \in Hardware
  <2>1. SIZE_GRHWCONFIG \in Nat
    BY DEF SIZE_GRHWCONFIG
  <2>2. ImmediateSent(c) = Sent(SIZE_GRHWCONFIG) /\ ImmediateTaken(c) = ALIGNED(SIZE_GRHWCONFIG)
    BY <1>8 DEF ImmediateSent, ImmediateTaken, LfbWrites, Hardware, Files
  <2> QED BY <2>1, <2>2, SentIsAligned
<1>9. CASE c.f \in Files
  <2>1. FileName \in Nat
    BY DEF FileName
  <2>2. ImmediateSent(c) = Sent(FileName) /\ ImmediateTaken(c) = FileName
    BY <1>9 DEF ImmediateSent, ImmediateTaken, LfbWrites, Hardware, Files
  <2>3. Sent(FileName) \in Nat /\ ALIGNED(FileName) = 4 * Sent(FileName)
    BY <2>1, SentIsAligned
  <2> QED BY <2>2, <2>3, RoundSizes
<1>10. CASE c.f = "grLfbLock"
  <2>1. SIZE_GRLFBINFO \in Nat
    BY DEF SIZE_GRLFBINFO
  <2>2. ImmediateSent(c) = Sent(SIZE_GRLFBINFO) /\ ImmediateTaken(c) = ALIGNED(SIZE_GRLFBINFO)
    BY <1>10 DEF ImmediateSent, ImmediateTaken, LfbWrites, Hardware, Files
  <2> QED BY <2>1, <2>2, SentIsAligned
<1>11. CASE c.f = "grSstPerfStats"
  <2>1. SIZE_GRSSTPERFSTATS \in Nat
    BY DEF SIZE_GRSSTPERFSTATS
  <2>2. /\ ImmediateSent(c) = Sent(SIZE_GRSSTPERFSTATS)
        /\ ImmediateTaken(c) = ALIGNED(SIZE_GRSSTPERFSTATS)
    BY <1>11 DEF ImmediateSent, ImmediateTaken, LfbWrites, Hardware, Files
  <2> QED BY <2>1, <2>2, SentIsAligned
<1>12. CASE c.f = "grTriStats"
  BY <1>3, <1>12 DEF ImmediateSent, ImmediateTaken, LfbWrites, Hardware, Files
<1>13. CASE c.f = "grLoadGammaTable"
  BY <1>4, <1>13 DEF ImmediateSent, ImmediateTaken, LfbWrites, Hardware, Files
<1>14. CASE c.f = "grQueryResolutions"
  <2>1. SIZE_GRRESOLUTION \in Nat
    BY DEF SIZE_GRRESOLUTION
  <2>2. ImmediateSent(c) = Sent(SIZE_GRRESOLUTION) /\ ImmediateTaken(c) = SIZE_GRRESOLUTION
    BY <1>14 DEF ImmediateSent, ImmediateTaken, LfbWrites, Hardware, Files
  <2>3. /\ Sent(SIZE_GRRESOLUTION) \in Nat
        /\ ALIGNED(SIZE_GRRESOLUTION) = 4 * Sent(SIZE_GRRESOLUTION)
    BY <2>1, SentIsAligned
  <2> QED BY <2>2, <2>3, RoundSizes
<1> QED BY <1>6, <1>7, <1>8, <1>9, <1>10, <1>11, <1>12, <1>13, <1>14

\* The data of every function.
LEMMA DataAgrees ==
  ASSUME NEW c \in ApiCall, WellFormed(c)
  PROVE  /\ WordsSent(c) \in Nat
         /\ datacb(c) = 4 * WordsSent(c)
<1> USE DEF Points, Lines, ClipTriangles, Triangles, Polygons, VertexLists, Levels, Tables,
            PartialTables, LfbWrites, Hardware, Files, Drawn, Reads
<1>1. CASE c.f \in {"plain"} \cup Reads
  BY <1>1 DEF WordsSent, datacb
<1>2. CASE c.f \in Drawn
  <2>1. WordsSent(c) = VerticesSent(c) /\ datacb(c) = VerticesTaken(c)
    BY <1>2 DEF WordsSent, datacb
  <2> QED BY <1>2, <2>1, VerticesAgree
<1>3. CASE c.f \in Polygons
  <2>1. WordsSent(c) = PolygonSent(c) /\ datacb(c) = PolygonTaken(c)
    BY <1>3 DEF WordsSent, datacb
  <2> QED BY <2>1, PolygonAgrees
<1>4. CASE c.f \in VertexLists \cup {"grDrawVertexArray", "grDrawVertexArrayContiguous"}
  <2>1. WordsSent(c) = ArraySent(c) /\ datacb(c) = ArrayTaken(c)
    BY <1>4 DEF WordsSent, datacb
  <2> QED BY <1>4, <2>1, ArrayAgrees
<1>5. CASE c.f = "grFogTable"
  <2>1. WordsSent(c) = FogSent(c) /\ datacb(c) = FogTaken(c)
    BY <1>5 DEF WordsSent, datacb
  <2> QED BY <2>1, FogAgrees
<1>6. CASE c.f \in Levels \cup {"grTexSource", "grTexTextureMemRequired", "grTexDownloadMipMap"}
  <2>1. WordsSent(c) = TextureSent(c) /\ datacb(c) = TextureTaken(c)
    BY <1>6 DEF WordsSent, datacb
  <2> QED BY <1>6, <2>1, TextureAgrees
<1>7. CASE c.f \in Tables \cup PartialTables
  <2>1. WordsSent(c) = TableSent(c) /\ datacb(c) = TableTaken(c)
    BY <1>7 DEF WordsSent, datacb
  <2> QED BY <1>7, <2>1, TableAgrees
<1>8. CASE c.f \in {"guTexDownloadMipMap", "guTexDownloadMipMapLevel"}
  <2>1. WordsSent(c) = GuTextureSent(c) /\ datacb(c) = GuTextureTaken(c)
    BY <1>8 DEF WordsSent, datacb
  <2> QED BY <1>8, <2>1, GuTextureAgrees
<1>9. CASE c.f \in LfbWrites \cup Hardware \cup Files
                    \cup {"grLfbLock", "guFbWriteRegion", "grSstPerfStats", "grTriStats",
                          "grLoadGammaTable", "grQueryResolutions"}
  <2>1. WordsSent(c) = ImmediateSent(c) /\ datacb(c) = ImmediateTaken(c)
    BY <1>9 DEF WordsSent, datacb
  <2> QED BY <1>9, <2>1, ImmediateAgrees
<1>10. c.f \in Function
  BY DEF ApiCall
<1> QED BY <1>1, <1>2, <1>3, <1>4, <1>5, <1>6, <1>7, <1>8, <1>9, <1>10
        DEF Function, Queued, Immediate

\* The arguments of every function.
LEMMA ArgumentsAgree ==
  ASSUME NEW c \in ApiCall
  PROVE  ArgWords(c) = GRFEnumArgsCnt(c)
<1> USE DEF Points, Lines, ClipTriangles, Triangles, Polygons, VertexLists, Levels, Tables,
            PartialTables, LfbWrites, Hardware, Files, Drawn, Reads
<1>1. c.f \in Function
  BY DEF ApiCall
<1> QED BY <1>1 DEF ArgWords, getNumArgs, GRFEnumArgsCnt, Function, Queued, Immediate

(* The wrapper and the device, which compute the sizes of a call apart from *)
(* each other, agree about the arguments and the data of every Glide call,  *)
(* and what processArgs stores behind the data stays in the call's own.     *)
THEOREM EverySizeAgrees ==
  ASSUME NEW c \in ApiCall, WellFormed(c)
  PROVE  /\ ArgWords(c) = GRFEnumArgsCnt(c)
         /\ WordsSent(c) = WordsTaken(c)
         /\ WordsStored(c) \subseteq 0..(WordsTaken(c) - 1)
<1>1. WordsSent(c) \in Nat /\ WordsTaken(c) = WordsSent(c)
  BY DataAgrees, WholeWords DEF WordsTaken
<1>2. CASE c.f = "guTexDownloadMipMapLevel"
  <2>1. WordsSent(c) = GuTextureSent(c)
    BY <1>2 DEF WordsSent, Drawn, Points, Lines, Triangles, ClipTriangles, Polygons, VertexLists,
                Levels, Tables, PartialTables, Reads
  <2> QED BY <1>1, <1>2, <2>1, GuTextureAgrees, ArgumentsAgree
<1>3. CASE c.f # "guTexDownloadMipMapLevel"
  BY <1>1, <1>3, ArgumentsAgree DEF WordsStored
<1> QED BY <1>2, <1>3

\* So the hypothesis of the queue's theorems holds for the calls of Glide.
LEMMA GlideSidesAgree ==
  ASSUME GlideSizes
  PROVE  SidesAgree
<1> SUFFICES ASSUME NEW c \in Call
             PROVE  /\ HostArgs[c] = NArgs[c]
                    /\ HostWords[c] = GuestWords[c]
                    /\ Stores[c] \subseteq 0..(HostWords[c] - 1)
  BY DEF SidesAgree
<1>1. c \in ApiCall /\ WellFormed(c)
  BY DEF GlideSizes
<1>2. /\ NArgs[c] = ArgWords(c) /\ HostArgs[c] = GRFEnumArgsCnt(c)
      /\ GuestWords[c] = WordsSent(c) /\ HostWords[c] = WordsTaken(c)
      /\ Stores[c] = WordsStored(c)
  BY DEF GlideSizes
<1> QED BY <1>1, <1>2, EverySizeAgrees

(* Whatever Glide calls the application makes, with whatever counts and     *)
(* sizes the data area has room for, processFifo carries out a prefix of    *)
(* them, each with its own arguments and its own data.                      *)
THEOREM GlideCallsIntact ==
  GlideSizes => (Spec /\ LargeAlone => []SeenAsMade)
BY GlideSidesAgree, CallsIntact

(* Nor does the device ever find data that no call accounts for.            *)
THEOREM GlideCallsLeakNothing ==
  GlideSizes => (Spec /\ LargeAlone => []NoDataLeak)
BY GlideSidesAgree, NoLeak

(* And a Glide call that the application waits for returns, when it and all *)
(* calls queued before it have been carried out, each as it was made.       *)
THEOREM GlideCallsReturn ==
  GlideSizes => (Spec /\ LargeAlone /\ []CanAct /\ []RemoteWaits => ImplementsRemoteCalls)
BY GlideSidesAgree, QueueImplements
=============================================================================
