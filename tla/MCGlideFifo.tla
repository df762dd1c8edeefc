---------------------------- MODULE MCGlideFifo ----------------------------
(***************************************************************************)
(* A small instance of the command queue, with the sizes of real calls:    *)
(* calls without data, with data, with data the device writes into, calls  *)
(* that are never queued with and without data, and one that reads back.   *)
(* The queue holds two or three calls, and the data bound is met before    *)
(* and after the queue is full.                                            *)
(***************************************************************************)
EXTENDS GlideCalls

A(f, n, sz) == [f |-> f, n |-> n, sz |-> sz, t |-> FALSE]

\* grHints and grTexMaxAddress; a vertex of two coordinates, a texture of one
\* texel, one row of three words.
Hints  == A("plain", 2, 0)
Point  == A("grDrawPoint", 0, 8)
Level  == A("guTexDownloadMipMapLevel", 2, 0)
TexMem == A("grTexTextureMemRequired", 0, 0)
MaxAddress == A("plain", 1, 0)
Read   == A("grLfbReadRegion", 1, 12)

MCCall == {Hints, Point, Level, TexMem, MaxAddress, Read}
MCQueueable == {Hints, Point, Level}
MCNArgs == [c \in MCCall |-> ArgWords(c)]
MCHostArgs == [c \in MCCall |-> GRFEnumArgsCnt(c)]
MCGuestWords == [c \in MCCall |-> WordsSent(c)]
MCHostWords == [c \in MCCall |-> WordsTaken(c)]
MCStores == [c \in MCCall |-> WordsStored(c)]
MCReadWords == [c \in MCCall |-> WordsRead(c)]

\* What the theorems assume of the sizes holds here.
ASSUME GlideSizes /\ SidesAgree /\ SlackFits

\* The sizes of the two sides, for every function and small numbers.
ASSUME \A c \in [f : Function, n : 0..9, sz : {8, 12, 20, 60, 61}, t : BOOLEAN] :
         WellFormed(c) => /\ ArgWords(c) = GRFEnumArgsCnt(c)
                          /\ WordsSent(c) = WordsTaken(c)
                          /\ \A k \in WordsStored(c) : k < WordsTaken(c)

(* README.md:5 calls the device a pass-through of Glide: what              *)
(* grLfbReadRegion copies out is what the host's grLfbReadRegion returned, *)
(* whatever was queued before it.                                          *)
ReadBackAlwaysOwn ==
  [][pc = "done" /\ pc' = "guest" => OwnResults]_vars
=============================================================================
