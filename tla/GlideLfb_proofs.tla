-------------------------- MODULE GlideLfb_proofs --------------------------
(***************************************************************************)
(* The linear frame buffer, for every number of pixels and values and for  *)
(* every set of options: IInv is inductive, what the application reads is  *)
(* the buffer, and each step of the device is a step of DirectBuffers or   *)
(* leaves the buffers and the locks as they are.                           *)
(***************************************************************************)
EXTENDS GlideLfb, TLAPS

\* The options are Booleans and exclude each other as the device takes them.
LEMMA Options ==
  ASSUME cfg \in Config
  PROVE  /\ lfb_real \in BOOLEAN /\ lfb_noaux \in BOOLEAN /\ MapBufo \in BOOLEAN
         /\ LockDirty \in BOOLEAN /\ lfb_merge \in BOOLEAN /\ Copying \in BOOLEAN
         /\ Copying = (~lfb_real /\ ~MapBufo)
         /\ MapBufo => ~lfb_real /\ ~LockDirty
         /\ lfb_merge => Copying
BY FlagsAreBoolean, OptionsAreSwitches
   DEF lfb_real, lfb_noaux, MapBufo, LockDirty, lfb_merge, Copying

\* The options do not change while a window is open.
LEMMA OptionsKept ==
  ASSUME cfg' = cfg
  PROVE  /\ lfb_real' = lfb_real /\ lfb_noaux' = lfb_noaux /\ MapBufo' = MapBufo
         /\ LockDirty' = LockDirty /\ lfb_merge' = lfb_merge /\ Copying' = Copying
BY DEF lfb_real, lfb_noaux, MapBufo, LockDirty, lfb_merge, Copying

\* A flush writes one copy to one buffer.
LEMMA FlushTyped ==
  ASSUME TypeOK, NEW c \in Copy
  PROVE  vgLfbFlush(c) \in [Buffer -> Contents]
BY DEF TypeOK, vgLfbFlush

LEMMA InitIInv == Init => IInv
<1> SUFFICES ASSUME Init PROVE IInv
  OBVIOUS
<1>0. /\ cfg \in Config
      /\ Nothing = [t \in LockType |-> "none"]
      /\ "back" \in Buffer
  BY DEF Init, Nothing, Buffer
<1>1. TypeOK
  <2>1. host \in [Buffer -> Contents] /\ copy \in [Copy -> Contents]
    <3>1. PICK v \in Value :
            /\ host = [b \in Buffer |-> [p \in Pixel |-> v]]
            /\ copy = [c \in Copy |-> [p \in Pixel |-> v]]
      BY DEF Init
    <3>2. [p \in Pixel |-> v] \in Contents
      BY DEF Contents
    <3> QED
      BY <3>1, <3>2
  <2>2. Nothing \in [LockType -> Buffer \cup {"none"}]
    BY DEF Nothing
  <2> QED
    BY <2>1, <2>2 DEF Init, TypeOK, Nothing, Buffer, Drained
<1>2. LocksKnown /\ LocksAgree /\ PagesMapped
  BY DEF Init, LocksKnown, LocksAgree, PagesMapped, Nothing, LockType, Holds, Apart, HostNumber
<1>3. MergeWaits /\ CopyFresh /\ Pending
  BY DEF Init, MergeWaits, CopyFresh, Pending, Nothing
<1> QED
  BY <1>1, <1>2, <1>3 DEF IInv

---------------------------------------------------------------------------
(* One lemma for each action.                                              *)

LEMMA InitCallKeeps == ASSUME IInv, grGlideInit PROVE IInv'
<1> USE DEF grGlideInit
<1>0. cfg' = cfg /\ held' = held /\ held = Nothing /\ ~window /\ ~window'
  BY DEF IInv, LocksKnown
<1>1. TypeOK'
  BY DEF IInv, TypeOK, Nothing, Buffer, LockType
<1>2. LocksKnown'
  BY <1>0 DEF LocksKnown, Nothing, LockType
<1>3. LocksAgree' /\ PagesMapped'
  BY <1>0 DEF LocksAgree, PagesMapped, Nothing, LockType, Holds, Apart, HostNumber
<1>4. MergeWaits'
  BY <1>0, OptionsKept DEF IInv, MergeWaits
<1>5. CopyFresh'
  BY <1>0 DEF CopyFresh
<1>6. Pending'
  BY DEF Pending, Drained
<1> QED
  BY <1>1, <1>2, <1>3, <1>4, <1>5, <1>6 DEF IInv

LEMMA OpenKeeps ==
  ASSUME IInv, NEW c \in Config, NEW v \in Value, grSstWinOpen(c, v)
  PROVE  IInv'
<1> USE DEF grSstWinOpen
<1>0. held' = held /\ held = Nothing /\ window' = TRUE /\ cfg' \in Config /\ looked' = "none"
  BY DEF IInv, LocksKnown
<1>a. lfb_real' = c.LfbHandler /\ (Copying' => ~lfb_real')
  BY DEF lfb_real, Copying
<1>b. ~lfb_real' => lfb_dirty' = {"stale"}
  BY <1>a
<1>1. TypeOK'
  <2>1. [p \in Pixel |-> v] \in Contents
    BY DEF Contents
  <2>2. copy' \in [Copy -> Contents]
    BY <2>1 DEF IInv, TypeOK, Copy
  <2> QED
    BY <2>2 DEF IInv, TypeOK
<1>2. LocksKnown'
  BY <1>0 DEF IInv, LocksKnown, Nothing, LockType
<1>3. LocksAgree' /\ PagesMapped'
  BY <1>0 DEF LocksAgree, PagesMapped, Nothing, LockType, Holds, Apart, HostNumber
<1>4. MergeWaits'
  BY <1>b DEF MergeWaits
<1>5. CopyFresh'
  <2> SUFFICES ASSUME Copying' PROVE CopyFresh'
    BY DEF CopyFresh
  <2>1. \A t \in LockType : (Holds(t))' = "none"
    BY <1>0 DEF Holds, Apart, Nothing, LockType
  <2> QED
    BY <1>a, <1>b, <2>1 DEF CopyFresh, LockType
<1>6. Pending'
  BY DEF Pending, Drained
<1> QED
  BY <1>1, <1>2, <1>3, <1>4, <1>5, <1>6 DEF IInv

LEMMA CloseKeeps == ASSUME IInv, grSstWinClose PROVE IInv'
<1> USE DEF grSstWinClose, deviceVars, history
<1>1. TypeOK'
  BY DEF IInv, TypeOK
<1>2. LocksKnown'
  BY OptionsKept DEF IInv, LocksKnown, HostNumber, Apart
<1>3. LocksAgree' /\ PagesMapped' /\ MergeWaits'
  BY OptionsKept DEF IInv, LocksAgree, PagesMapped, MergeWaits, HostNumber, Apart
<1>4. CopyFresh'
  BY DEF CopyFresh
<1>5. Pending'
  BY DEF Pending, Drained
<1> QED
  BY <1>1, <1>2, <1>3, <1>4, <1>5 DEF IInv

LEMMA WriteRegionKeeps ==
  ASSUME IInv, NEW b \in Buffer, NEW p \in Pixel, NEW v \in Value, grLfbWriteRegion(b, p, v)
  PROVE  IInv'
<1> USE DEF grLfbWriteRegion, deviceVars
<1>0. cfg' = cfg /\ held' = held
  OBVIOUS
<1>1. TypeOK'
  BY DEF IInv, TypeOK, Contents
<1>2. LocksKnown'
  BY <1>0, OptionsKept DEF IInv, LocksKnown, HostNumber, Apart
<1>3. LocksAgree' /\ PagesMapped' /\ MergeWaits'
  BY <1>0, OptionsKept DEF IInv, LocksAgree, PagesMapped, MergeWaits, HostNumber, Apart
<1>4. CopyFresh'
  <2> SUFFICES ASSUME Copying, window PROVE CopyFresh'
    BY <1>0, OptionsKept DEF CopyFresh
  <2>0. /\ \A t \in LockType : (Holds(t))' = Holds(t)
        /\ \A x \in Buffer : (InCopy(x))' = InCopy(x)
    BY <1>0, OptionsKept DEF Holds, Apart, InCopy
  <2>1. /\ \A x \in Buffer : x # b => host'[x] = host[x]
        /\ Holds("read") # b
    BY DEF IInv, TypeOK, MayWriteRegion, MayDraw, LockType
  <2>2. Holds("read") \in Buffer \cup {"none"} /\ Holds("write") \in Buffer \cup {"none"}
    BY DEF IInv, TypeOK, Holds, LockType
  <2>3. Holds("read") # "none" /\ ~InCopy(Holds("read")) =>
          copy[CopyOf(Holds("read"))] = host'[Holds("read")]
    BY <2>1, <2>2 DEF IInv, CopyFresh
  <2>4. ~LockDirty /\ lfb_dirty = {} /\ grBuffer \in Buffer /\ ~InCopy(grBuffer) =>
          looked = grBuffer /\ (drawn' \/ copy[CopyOf(grBuffer)] = host'[grBuffer])
    BY <2>1 DEF IInv, CopyFresh
  <2> QED
    BY <2>0, <2>2, <2>3, <2>4, <1>0, OptionsKept DEF IInv, CopyFresh, CopyOf, LockType
<1>5. Pending'
  BY DEF Pending, Drained
<1> QED
  BY <1>1, <1>2, <1>3, <1>4, <1>5 DEF IInv

LEMMA DrawKeeps ==
  ASSUME IInv, NEW b \in Buffer, NEW p \in Pixel, NEW v \in Value, Draw(b, p, v)
  PROVE  IInv'
<1> USE DEF Draw, deviceVars
<1>0. cfg' = cfg /\ held' = held
  OBVIOUS
<1>1. TypeOK'
  BY DEF IInv, TypeOK
<1>2. LocksKnown' /\ LocksAgree' /\ PagesMapped' /\ MergeWaits'
  BY <1>0, OptionsKept
     DEF IInv, LocksKnown, LocksAgree, PagesMapped, MergeWaits, HostNumber, Apart
<1>3. CopyFresh'
  <2>1. /\ \A t \in LockType : (Holds(t))' = Holds(t)
        /\ \A x \in Buffer : (InCopy(x))' = InCopy(x)
    BY <1>0, OptionsKept DEF Holds, Apart, InCopy
  <2>2. Holds("read") \in Buffer \cup {"none"}
    BY DEF IInv, TypeOK, Holds, LockType
  <2> QED
    BY <2>1, <2>2, <1>0, OptionsKept DEF IInv, CopyFresh, CopyOf, LockType
<1>4. Pending'
  <2> SUFFICES ASSUME NEW x \in Buffer, NEW q \in Pixel, queued'[x][q] # NoDraw
               PROVE  MayDraw(x) /\ (looked = x => drawn')
    BY <1>0, OptionsKept DEF Pending, MayDraw, Holds, Apart, Drained
  <2>1. CASE x = b
    BY <2>1
  <2>2. CASE x # b
    <3>1. queued[x][q] # NoDraw
      BY <2>2 DEF IInv, TypeOK
    <3>2. queued # Drained
      BY <3>1 DEF Drained
    <3> QED
      BY <3>1, <3>2 DEF IInv, Pending
  <2> QED
    BY <2>1, <2>2
<1> QED
  BY <1>1, <1>2, <1>3, <1>4 DEF IInv

\* What processFifo leaves alone: buffers that nothing waits for.
LEMMA CarriedOut ==
  ASSUME TypeOK, NEW b \in Buffer
  PROVE  /\ Carried(b) \in Contents
         /\ (\A p \in Pixel : queued[b][p] = NoDraw) => Carried(b) = host[b]
BY DEF TypeOK, Carried, Contents

\* Nothing waits for a buffer that is locked, that waits to be merged, or
\* that was locked last and not drawn on.
LEMMA NothingAwaits ==
  ASSUME IInv, NEW b \in Buffer,
         \/ Holds("read") = b
         \/ InCopy(b)
         \/ Holds("write") = b
         \/ looked = b /\ ~drawn
  PROVE  \A p \in Pixel : queued[b][p] = NoDraw
<1> SUFFICES ASSUME NEW p \in Pixel, queued[b][p] # NoDraw PROVE FALSE
  OBVIOUS
<1>1. queued # Drained
  BY DEF Drained
<1>2. MayDraw(b) /\ (looked = b => drawn)
  BY <1>1 DEF IInv, Pending
<1> QED
  BY <1>2 DEF MayDraw, InCopy, LockType

LEMMA DrainKeeps == ASSUME IInv, processFifo PROVE IInv'
<1> USE DEF processFifo, deviceVars, history
<1>0. cfg' = cfg /\ held' = held
  OBVIOUS
<1>1. TypeOK'
  <2>1. host' \in [Buffer -> Contents]
    BY CarriedOut DEF IInv
  <2>2. queued' \in [Buffer -> [Pixel -> Value \cup {NoDraw}]]
    BY DEF Drained
  <2> QED
    BY <2>1, <2>2 DEF IInv, TypeOK
<1>2. LocksKnown' /\ LocksAgree' /\ PagesMapped' /\ MergeWaits'
  BY <1>0, OptionsKept
     DEF IInv, LocksKnown, LocksAgree, PagesMapped, MergeWaits, HostNumber, Apart
<1>3. CopyFresh'
  <2>1. /\ \A t \in LockType : (Holds(t))' = Holds(t)
        /\ \A x \in Buffer : (InCopy(x))' = InCopy(x)
    BY <1>0, OptionsKept DEF Holds, Apart, InCopy
  <2>2. Holds("read") \in Buffer \cup {"none"}
    BY DEF IInv, TypeOK, Holds, LockType
  <2>3. Holds("read") # "none" => host'[Holds("read")] = host[Holds("read")]
    BY <2>2, CarriedOut, NothingAwaits DEF IInv
  <2>4. grBuffer \in Buffer /\ looked = grBuffer /\ ~drawn => host'[grBuffer] = host[grBuffer]
    BY CarriedOut, NothingAwaits DEF IInv
  <2> QED
    BY <2>1, <2>2, <2>3, <2>4, <1>0, OptionsKept DEF IInv, CopyFresh, CopyOf, LockType
<1>4. Pending'
  BY DEF Pending, Drained
<1> QED
  BY <1>1, <1>2, <1>3, <1>4 DEF IInv

LEMMA StoreKeeps ==
  ASSUME IInv, NEW p \in Pixel, NEW v \in Value, Store(p, v)
  PROVE  IInv'
<1> DEFINE b == held["write"]
<1> USE DEF Store, deviceVars, history
<1>0. cfg' = cfg /\ held' = held /\ b \in Buffer
  BY DEF IInv, TypeOK, LockType
<1>1. TypeOK'
  <2>1. CopyOf(b) \in Copy
    BY <1>0 DEF CopyOf, Copy
  <2>2. \A f \in Contents : [f EXCEPT ![p] = v] \in Contents
    BY DEF Contents
  <2>3. copy' \in [Copy -> Contents]
    BY <2>1, <2>2 DEF IInv, TypeOK
  <2>4. host' \in [Buffer -> Contents]
    BY <1>0, <2>2 DEF IInv, TypeOK
  <2> QED
    BY <2>3, <2>4 DEF IInv, TypeOK
<1>2. LocksKnown' /\ LocksAgree' /\ PagesMapped' /\ MergeWaits'
  BY <1>0, OptionsKept
     DEF IInv, LocksKnown, LocksAgree, PagesMapped, MergeWaits, HostNumber, Apart
<1>3. CopyFresh'
  <2> SUFFICES ASSUME Copying, window PROVE CopyFresh'
    BY <1>0, OptionsKept DEF CopyFresh
  <2>0. /\ \A t \in LockType : (Holds(t))' = Holds(t)
        /\ \A x \in Buffer : (InCopy(x))' = InCopy(x)
    BY <1>0, OptionsKept DEF Holds, Apart, InCopy
  <2>1. host' = host /\ \A c \in Copy : c # CopyOf(b) => copy'[c] = copy[c]
    BY DEF IInv, TypeOK
  <2>2. ASSUME Holds("read") # "none", ~InCopy(Holds("read"))
        PROVE  copy'[CopyOf(Holds("read"))] = copy[CopyOf(Holds("read"))]
    BY <1>0, <2>2 DEF IInv, LocksAgree, InCopy, Holds, LockType
  <2>3. ASSUME grBuffer \in Buffer, ~InCopy(grBuffer)
        PROVE  FALSE
    BY <1>0, <2>3 DEF IInv, LocksKnown, HostNumber, InCopy, Holds, Apart, LockType, Buffer
  <2>4. Holds("read") \in Buffer \cup {"none"}
    BY DEF IInv, TypeOK, Holds, LockType
  <2> QED
    BY <2>0, <2>1, <2>2, <2>3, <2>4, <1>0, OptionsKept DEF IInv, CopyFresh, CopyOf, LockType
<1>4. Pending'
  BY <1>0, OptionsKept DEF IInv, Pending, MayDraw, Holds, Apart, Drained
<1> QED
  BY <1>1, <1>2, <1>3, <1>4 DEF IInv

LEMMA UnlockKeeps ==
  ASSUME IInv, NEW t \in LockType, grLfbUnlock(t)
  PROVE  IInv'
<1> DEFINE b == held[t]
           o == Other(t)
           back == ~lfb_real /\ t = "write" /\ ~Apart(b)
           merge == back /\ lfb_merge /\ b = "back"
<1>0. /\ cfg' = cfg /\ b \in Buffer /\ b # "none" /\ o \in LockType /\ window
      /\ window' = window /\ held' = [held EXCEPT ![t] = "none"]
      /\ held'[t] = "none" /\ held'[o] = held[o]
      /\ LockType = {t, o} /\ t # o
  BY DEF IInv, TypeOK, LocksKnown, grLfbUnlock, LockType, Other, Nothing
<1>1. TypeOK'
  <2>1. CopyOf(b) \in Copy
    BY DEF CopyOf, Copy
  <2>2. host' \in [Buffer -> Contents]
    BY <2>1, FlushTyped DEF IInv, TypeOK, grLfbUnlock
  <2>3. pages' \in [Buffer -> {"none", "readonly", "readwrite"}]
    BY DEF IInv, TypeOK, grLfbUnlock, Unmapped
  <2>4. mbufo' \in [LockType -> Buffer \cup {"apart", "none"}]
    BY DEF IInv, TypeOK, grLfbUnlock
  <2>5. lfb_dirty' \in SUBSET {"stale", "merge"}
    BY DEF IInv, TypeOK, grLfbUnlock
  <2> QED
    BY <2>2, <2>3, <2>4, <2>5 DEF IInv, TypeOK, grLfbUnlock
<1>2. LocksKnown'
  <2>1. ASSUME NEW x \in LockType
        PROVE  /\ lock'[x] = (held'[x] # "none")
               /\ held'[x] # "none" => lfbPtr'[x] = HostNumber(held[x])
               /\ Copying /\ held'[x] # "none" => grBuffer' = HostNumber(held[x])
    BY <1>0 DEF IInv, TypeOK, LocksKnown, grLfbUnlock
  <2>2. \A x \in LockType : held'[x] # "none" => held'[x] = held[x]
    BY <1>0
  <2> QED
    BY <2>1, <2>2, <1>0, OptionsKept DEF LocksKnown, HostNumber, Apart
<1>3. LocksAgree'
  BY <1>0, LockType = {"read", "write"} DEF LocksAgree, LockType
<1>4. PagesMapped'
  <2> SUFFICES ASSUME MapBufo, held[o] # "none"
               PROVE  /\ mbufo'[o] = HostNumber(held[o])
                      /\ ~Apart(held[o]) =>
                           pages'[held[o]] = IF o = "write" THEN "readwrite" ELSE "readonly"
    <3>1. \A x \in LockType : held'[x] # "none" => x = o /\ held'[x] = held[o]
      BY <1>0
    <3>2. /\ MapBufo' = MapBufo /\ lfb_noaux' = lfb_noaux
      BY <1>0, OptionsKept
    <3> QED
      BY <3>1, <3>2 DEF PagesMapped, HostNumber, Apart
  <2>1. /\ mbufo[t] = HostNumber(b) /\ mbufo[o] = HostNumber(held[o])
        /\ ~Apart(held[o]) =>
             pages[held[o]] = IF o = "write" THEN "readwrite" ELSE "readonly"
    BY <1>0 DEF IInv, PagesMapped
  <2>2. held[o] # b
    BY <1>0 DEF IInv, LocksAgree, LockType
  <2>3. ~Apart(held[o]) => mbufo[t] # held[o]
    BY <2>1, <2>2, <1>0 DEF HostNumber, Buffer, IInv, TypeOK
  <2> QED
    BY <2>1, <2>3, <1>0 DEF grLfbUnlock, Unmapped, IInv, TypeOK
<1>5. MergeWaits'
  <2> SUFFICES ASSUME ~lfb_real, "merge" \in lfb_dirty'
               PROVE  /\ Copying
                      /\ lfb_dirty' = {"merge"}
                      /\ grBuffer = "back"
                      /\ held[o] \in {"none", "back"}
    BY <1>0, OptionsKept DEF MergeWaits, grLfbUnlock
  <2>1. CASE merge
    <3>1. Copying
      BY <2>1, Options DEF IInv, TypeOK
    <3> QED
      BY <2>1, <3>1, <1>0 DEF IInv, LocksKnown, LocksAgree, HostNumber, Apart, grLfbUnlock, LockType
  <2>2. CASE ~merge
    BY <2>2, <1>0 DEF IInv, MergeWaits, grLfbUnlock
  <2> QED
    BY <2>1, <2>2
<1>6. CopyFresh'
  <2> SUFFICES ASSUME Copying PROVE CopyFresh'
    BY <1>0, OptionsKept DEF CopyFresh
  <2>1. ~lfb_real /\ ~MapBufo
    BY Options DEF IInv, TypeOK
  <2>2. CASE t = "read"
    <3>1. /\ UNCHANGED <<host, lfb_dirty, looked, copy, drawn, grBuffer>>
          /\ (Holds("read"))' = "none" /\ (Holds("write"))' = Holds("write")
          /\ \A x \in Buffer : (InCopy(x))' = InCopy(x)
      BY <2>1, <2>2, <1>0, OptionsKept DEF grLfbUnlock, Holds, Apart, InCopy, Other
    <3> QED
      BY <3>1, <1>0, OptionsKept DEF IInv, CopyFresh
  <2>3. CASE t = "write" /\ Apart(b)
    <3>1. /\ UNCHANGED <<host, lfb_dirty, looked, copy, drawn, grBuffer>>
          /\ Holds("write") = "none"
          /\ (Holds("read"))' = Holds("read") /\ (Holds("write"))' = "none"
          /\ \A x \in Buffer : (InCopy(x))' = InCopy(x)
      BY <2>1, <2>3, <1>0, OptionsKept DEF grLfbUnlock, Holds, Apart, InCopy, Other, Buffer
    <3>2. Holds("read") \in Buffer \cup {"none"}
      BY DEF IInv, TypeOK, Holds, LockType
    <3> QED
      BY <3>1, <3>2, <1>0, OptionsKept DEF IInv, CopyFresh
  <2>4. CASE back
    <3>1. /\ lfb_dirty' # {} /\ (Holds("write"))' = "none" /\ copy' = copy
          /\ (Holds("read"))' = Holds("read") /\ Holds("read") \in {"none", b}
      BY <2>4, <1>0, OptionsKept
         DEF grLfbUnlock, Holds, Apart, Other, IInv, LocksAgree, LockType
    <3>2. CASE merge
      <4>1. (InCopy("back"))'
        BY <3>2, <1>0, OptionsKept DEF grLfbUnlock, InCopy
      <4> QED
        BY <3>1, <3>2, <4>1 DEF CopyFresh
    <3>3. CASE ~merge
      <4>1. host'[b] = copy[CopyOf(b)]
        BY <2>1, <2>4, <3>3, <1>0
           DEF grLfbUnlock, vgLfbFlush, IInv, TypeOK, LocksKnown, HostNumber
      <4> QED
        BY <3>1, <4>1 DEF CopyFresh, CopyOf
    <3> QED
      BY <3>2, <3>3
  <2> QED
    BY <2>1, <2>2, <2>3, <2>4 DEF LockType
<1>7. Pending'
  BY DEF grLfbUnlock, Pending, Drained
<1> QED
  BY <1>1, <1>2, <1>3, <1>4, <1>5, <1>6, <1>7 DEF IInv

LEMMA SwapKeeps == ASSUME IInv, grBufferSwap PROVE IInv'
<1> DEFINE flushed == IF lock["write"] /\ grBuffer \in {"front", "back"}
                      THEN vgLfbFlush("colour") ELSE host
           merged == IF "merge" \in lfb_dirty THEN [flushed EXCEPT !["back"] = copy["colour"]]
                     ELSE flushed
           shown == IF lfb_real THEN host ELSE merged
<1>0. cfg' = cfg /\ held' = held
  BY DEF grBufferSwap
<1>1. TypeOK'
  <2>1. flushed \in [Buffer -> Contents]
    BY FlushTyped DEF IInv, TypeOK, Copy
  <2>2. shown \in [Buffer -> Contents]
    BY <2>1 DEF IInv, TypeOK, Copy
  <2>3. PICK old \in {shown["front"], shown["back"]} :
          host' = [shown EXCEPT !["front"] = shown["back"], !["back"] = old]
    BY DEF grBufferSwap
  <2>4. host' \in [Buffer -> Contents]
    BY <2>2, <2>3 DEF Buffer
  <2> QED
    BY <2>4 DEF IInv, TypeOK, grBufferSwap
<1>2. LocksKnown' /\ LocksAgree' /\ PagesMapped'
  BY <1>0, OptionsKept
     DEF IInv, LocksKnown, LocksAgree, PagesMapped, HostNumber, Apart, grBufferSwap
<1>a. ~lfb_real => lfb_dirty' = {"stale"}
  BY DEF grBufferSwap
<1>3. MergeWaits'
  <2>1. lfb_real' = lfb_real
    BY <1>0, OptionsKept
  <2> QED
    BY <1>a, <2>1 DEF MergeWaits
<1>4. CopyFresh'
  <2> SUFFICES ASSUME Copying, window PROVE CopyFresh'
    BY <1>0, OptionsKept DEF CopyFresh, grBufferSwap
  <2>0. ~lfb_real /\ ~MapBufo
    BY Options DEF IInv, TypeOK
  <2>1. looked' = "none" /\ copy' = copy /\ (Holds("read"))' = Holds("read")
        /\ (Holds("write"))' = Holds("write")
    BY <1>0, OptionsKept DEF grBufferSwap, Holds, Apart
  <2>2. ASSUME Holds("read") # "none", ~InCopy(Holds("read"))'
        PROVE  copy[CopyOf(Holds("read"))] = host'[Holds("read")]
    <3>1. Holds("read") = held["read"] /\ held["read"] = "aux"
      BY <2>2 DEF grBufferSwap, MaySwap, Holds, IInv, TypeOK, LockType, Buffer
    <3>2. held["write"] # "aux"
      BY <2>2, <2>1, <3>1, <1>0, OptionsKept DEF InCopy, Holds
    <3>3. held["write"] = "none" /\ ~lock["write"]
      BY <3>1, <3>2 DEF IInv, LocksAgree, LocksKnown, LockType
    <3>4. host'["aux"] = host["aux"]
      BY <2>0, <3>3 DEF grBufferSwap, IInv, TypeOK, Buffer
    <3>5. ~InCopy("aux")
      BY <3>3 DEF InCopy, Holds
    <3> QED
      BY <3>1, <3>4, <3>5 DEF IInv, CopyFresh
  <2> QED
    BY <1>a, <2>0, <2>1, <2>2 DEF CopyFresh
<1>5. Pending'
  BY DEF grBufferSwap, Pending, Drained
<1> QED
  BY <1>1, <1>2, <1>3, <1>4, <1>5 DEF IInv

LEMMA LockKeeps ==
  ASSUME IInv, NEW t \in LockType, NEW b \in Buffer, grLfbLock(t, b)
  PROVE  IInv'
<1> DEFINE o == Other(t)
           marked == Marked(b)
           fill == Copying /\ ~Apart(b) /\ "stale" \in marked
<1> USE DEF Marked
<1>0. /\ cfg' = cfg /\ b # "none" /\ window /\ window' = window
      /\ o \in LockType /\ LockType = {t, o} /\ t # o
      /\ held' = [held EXCEPT ![t] = b]
      /\ held[t] = "none" /\ held'[t] = b /\ held'[o] = held[o]
  BY DEF IInv, TypeOK, grLfbLock, LockType, Other, Buffer
<1>1. /\ HostNumber(b) \in Buffer \cup {"apart"}
      /\ marked \in SUBSET {"stale", "merge"}
      /\ CopyOf(b) \in Copy
  BY DEF HostNumber, IInv, TypeOK, CopyOf, Copy
<1>2. TypeOK'
  <2>1. copy' \in [Copy -> Contents] /\ lfb_dirty' \in SUBSET {"stale", "merge"}
    BY <1>1 DEF IInv, TypeOK, grLfbLock
  <2>2. pages' \in [Buffer -> {"none", "readonly", "readwrite"}]
    BY DEF IInv, TypeOK, grLfbLock, MapPages, Mapped, Unmapped
  <2>3. mbufo' \in [LockType -> Buffer \cup {"apart", "none"}]
    BY <1>1 DEF IInv, TypeOK, grLfbLock, MapPages
  <2>4. looked' \in Buffer \cup {"none"} /\ drawn' \in BOOLEAN
    BY DEF grLfbLock
  <2> QED
    BY <1>0, <1>1, <2>1, <2>2, <2>3, <2>4 DEF IInv, TypeOK, grLfbLock
<1>3. held[o] # "none" =>
        \/ lfb_real
        \/ MapBufo /\ held[o] # b
        \/ Copying /\ ~LockDirty /\ held[o] = b /\ (t = "read" => looked = b)
  BY DEF grLfbLock, MayLock
<1>4. Copying = (~lfb_real /\ ~MapBufo) /\ (MapBufo => ~lfb_real)
  BY Options DEF IInv, TypeOK
<1>5. LocksKnown'
  <2>1. /\ lock' = [lock EXCEPT ![t] = TRUE]
        /\ lfbPtr' = [lfbPtr EXCEPT ![t] = HostNumber(b)]
        /\ grBuffer' = HostNumber(b)
    BY DEF grLfbLock
  <2>2. ASSUME NEW x \in LockType
        PROVE  /\ lock'[x] = (held'[x] # "none")
               /\ held'[x] # "none" => lfbPtr'[x] = HostNumber(held'[x])
               /\ Copying /\ held'[x] # "none" => grBuffer' = HostNumber(held'[x])
    BY <1>0, <1>3, <1>4, <2>1 DEF IInv, TypeOK, LocksKnown
  <2> QED
    BY <2>2, <1>0, OptionsKept DEF LocksKnown, HostNumber, Apart
<1>6. LocksAgree'
  <2>1. held[o] # "none" => /\ MapBufo => held[o] # b
                            /\ Copying => ~LockDirty /\ held[o] = b
    BY <1>3, <1>4
  <2>2. MapBufo' = MapBufo /\ Copying' = Copying /\ LockDirty' = LockDirty
    BY <1>0, OptionsKept
  <2> QED
    BY <2>1, <2>2, <1>0 DEF LocksAgree, LockType, Other
<1>7. PagesMapped'
  <2> SUFFICES ASSUME MapBufo, NEW x \in LockType, held'[x] # "none"
               PROVE  /\ mbufo'[x] = HostNumber(held'[x])
                      /\ ~Apart(held'[x]) =>
                           pages'[held'[x]] = IF x = "write" THEN "readwrite" ELSE "readonly"
    <3>1. /\ MapBufo' = MapBufo /\ lfb_noaux' = lfb_noaux
      BY <1>0, OptionsKept
    <3> QED
      BY <3>1 DEF PagesMapped, HostNumber, Apart
  <2>1. held[o] # "none" =>
          /\ held[o] # b
          /\ mbufo[o] = HostNumber(held[o])
          /\ ~Apart(held[o]) =>
               pages[held[o]] = IF o = "write" THEN "readwrite" ELSE "readonly"
    BY <1>0, <1>3, <1>4 DEF IInv, PagesMapped
  <2>2. held[o] # "none" => mbufo[o] # b
    BY <2>1 DEF HostNumber, Buffer
  <2>3. CASE Apart(b)
    <3>1. mbufo' = [mbufo EXCEPT ![t] = HostNumber(b)] /\ pages' = pages
      BY <2>3, <1>4 DEF grLfbLock
    <3> QED
      BY <3>1, <2>1, <2>3, <1>0 DEF IInv, TypeOK
  <2>4. CASE ~Apart(b)
    <3>1. MapPages(t, b) /\ HostNumber(b) = b
      BY <2>4 DEF grLfbLock, HostNumber
    <3>2. CASE mbufo[o] = b
      <4>1. /\ pages' = [[pages EXCEPT ![b] = "none"]
                           EXCEPT ![b] = IF t = "read" THEN "readonly" ELSE "readwrite"]
            /\ mbufo' = [mbufo EXCEPT ![t] = b, ![o] = "none"]
        BY <3>1, <3>2 DEF MapPages, Unmapped, Mapped
      <4>2. held[o] = "none" /\ x = t
        BY <2>2, <3>2, <1>0
      <4> QED
        BY <4>1, <4>2, <3>1, <1>0 DEF IInv, TypeOK, LockType
    <3>3. CASE mbufo[o] # b
      <4>1. /\ pages' = [pages EXCEPT ![b] = IF t = "read" THEN "readonly" ELSE "readwrite"]
            /\ mbufo' = [mbufo EXCEPT ![t] = b]
        BY <3>1, <3>3 DEF MapPages, Mapped
      <4>2. CASE x = t
        BY <4>1, <4>2, <3>1, <1>0 DEF IInv, TypeOK, LockType
      <4>3. CASE x = o
        BY <4>1, <4>3, <2>1, <1>0 DEF IInv, TypeOK
      <4> QED
        BY <4>2, <4>3, <1>0
    <3> QED
      BY <3>2, <3>3
  <2> QED
    BY <2>3, <2>4
<1>8. lfb_dirty' = IF fill THEN {} ELSE marked
  BY DEF grLfbLock
<1>9. ASSUME Copying, "merge" \in lfb_dirty'
      PROVE  /\ b = "back" /\ lfb_dirty' = {"merge"} /\ lfb_dirty = {"merge"}
             /\ ~Apart(b) /\ ~fill /\ grBuffer = b
  <2>1. "merge" \in lfb_dirty /\ grBuffer = b
    BY <1>8, <1>9
  <2>2. b = "back" /\ ~LockDirty /\ lfb_dirty = {"merge"}
    BY <1>4, <1>9, <2>1 DEF grLfbLock, MayLock, IInv, MergeWaits
  <2> QED
    BY <1>8, <1>9, <2>1, <2>2 DEF Apart
<1>10. MergeWaits'
  <2> SUFFICES ASSUME ~lfb_real, "merge" \in lfb_dirty'
               PROVE  /\ Copying
                      /\ lfb_dirty' = {"merge"}
                      /\ grBuffer' = "back"
                      /\ \A x \in LockType : held'[x] \in {"none", "back"}
    <3>1. Copying' = Copying /\ lfb_real' = lfb_real
      BY <1>0, OptionsKept
    <3> QED
      BY <3>1 DEF MergeWaits
  <2>0. Copying
    BY <1>8 DEF IInv, MergeWaits
  <2>1. grBuffer' = "back"
    BY <1>9, <2>0 DEF grLfbLock, HostNumber
  <2>2. \A x \in LockType : held'[x] \in {"none", "back"}
    BY <1>9, <2>0, <1>0, <1>3, <1>4
  <2> QED
    BY <1>9, <2>0, <2>1, <2>2
<1>11. CopyFresh'
  <2> SUFFICES ASSUME Copying PROVE CopyFresh'
    <3>1. Copying' = Copying
      BY <1>0, OptionsKept
    <3> QED
      BY <3>1 DEF CopyFresh
  <2>0. host' = host /\ grBuffer' = HostNumber(b)
        /\ looked' = (IF Apart(b) THEN "none" ELSE b) /\ LockDirty' = LockDirty
        /\ copy' = IF fill THEN [copy EXCEPT ![CopyOf(b)] = host[b]] ELSE copy
    BY <1>0, OptionsKept DEF grLfbLock
  <2>1. /\ (Holds(t))' = IF Apart(b) THEN "none" ELSE b
        /\ (Holds(o))' = Holds(o)
    BY <1>0, OptionsKept DEF Holds, Apart
  <2>2. \A x \in Buffer : (InCopy(x))' = ((Holds("write"))' = x \/ (x = "back" /\ "merge" \in lfb_dirty'))
    BY <1>0, OptionsKept DEF InCopy, Holds, Apart
  <2>3. ASSUME ~Apart(b), ~(InCopy(b))'
        PROVE  t = "read" /\ copy'[CopyOf(b)] = host[b]
    <3>1. t = "read" /\ held["write"] # b /\ "merge" \notin lfb_dirty'
      BY <2>1, <2>2, <2>3, <1>0, <1>9 DEF LockType, Holds, Apart, Other
    <3>2. held["write"] = "none"
      BY <3>1, <1>3, <1>4, <1>0 DEF Other
    <3>3. CASE fill
      BY <3>1, <3>3, <2>0, <1>1 DEF IInv, TypeOK
    <3>4. CASE ~fill
      <4>1. grBuffer = b /\ ~LockDirty /\ lfb_dirty = {}
        BY <3>1, <3>4, <2>3, <1>1, <1>8
      <4>2. ~InCopy(b)
        BY <3>2, <4>1, <1>0 DEF InCopy, Holds
      <4>3. looked = b /\ ~drawn
        BY <4>1, <4>2, <1>0 DEF IInv, CopyFresh, grLfbLock, MayLock
      <4>4. copy[CopyOf(b)] = host[b]
        BY <4>1, <4>2, <4>3, <1>0 DEF IInv, CopyFresh
      <4> QED
        BY <3>1, <3>4, <4>4, <2>0
    <3> QED
      BY <3>3, <3>4
  <2>4. ASSUME (Holds("read"))' # "none", ~(InCopy(Holds("read")))'
        PROVE  copy'[(CopyOf(Holds("read")))'] = host'[(Holds("read"))']
    <3>1. (Holds("read"))' = b /\ ~Apart(b)
      BY <2>4, <2>1, <1>3, <1>4, <1>0 DEF LockType, Holds, Apart, Other
    <3> QED
      BY <3>1, <2>3, <2>4, <2>0, <2>2 DEF CopyOf
  <2>5. ASSUME lfb_dirty' = {}, grBuffer' \in Buffer, ~(InCopy(grBuffer))'
        PROVE  looked' = grBuffer' /\ copy'[(CopyOf(grBuffer))'] = host'[grBuffer']
    <3>1. grBuffer' = b /\ ~Apart(b)
      BY <2>5, <2>0 DEF HostNumber, Buffer
    <3> QED
      BY <3>1, <2>5, <2>3, <2>0, <2>2 DEF CopyOf
  <2>6. ASSUME ~LockDirty, (Holds("write"))' # "none", looked' = (Holds("write"))'
        PROVE  "stale" \notin lfb_dirty'
    BY <2>6, <2>0, <1>8
  <2> QED
    BY <2>0, <2>4, <2>5, <2>6 DEF CopyFresh
<1>12. Pending'
  BY DEF grLfbLock, Pending, Drained
<1> QED
  BY <1>2, <1>5, <1>6, <1>7, <1>10, <1>11, <1>12 DEF IInv

\* Every step keeps the invariant.
LEMMA NextKeeps == IInv /\ [Next]_vars => IInv'
<1> SUFFICES ASSUME IInv, [Next]_vars PROVE IInv'
  OBVIOUS
<1>1. CASE UNCHANGED vars
  <2>1. /\ UNCHANGED <<window, queued, cfg, host, copy, pages, lfb_dirty, grBuffer, lfbPtr, lock,
                       mbufo, held, looked, drawn>>
    BY <1>1 DEF vars, deviceVars, history
  <2> QED
    BY <2>1, OptionsKept
       DEF IInv, TypeOK, LocksKnown, LocksAgree, PagesMapped, MergeWaits, CopyFresh,
           Pending, MayDraw, Drained, HostNumber, Apart, Holds, InCopy
<1> QED
  BY <1>1, InitCallKeeps, OpenKeeps, CloseKeeps, SwapKeeps, UnlockKeeps, LockKeeps,
     StoreKeeps, DrawKeeps, DrainKeeps, WriteRegionKeeps
  DEF Next

\* The device's record of the locks, the dirty bits and the copies fit each
\* other after every step, for every set of options.
THEOREM LfbInStep == Spec => []IInv
<1> QED
  BY InitIInv, NextKeeps, PTL DEF Spec

\* The device's state keeps its type.
THEOREM LfbTyped == Spec => []TypeOK
<1>1. IInv => TypeOK
  BY DEF IInv
<1> QED
  BY <1>1, LfbInStep, PTL

---------------------------------------------------------------------------
(* The refinement: what each action does to the contents of the buffers.   *)

\* A pixel's home and its value there, before and after a step.
LEMMA Homes ==
  ASSUME TypeOK
  PROVE  /\ Home \in [Buffer -> Contents]
         /\ Held \in [LockType -> Buffer \cup {"none"}]
         /\ \A b \in Buffer : Home[b] = IF InCopy(b) THEN copy[CopyOf(b)] ELSE host[b]
<1>1. \A b \in Buffer : CopyOf(b) \in Copy
  BY DEF CopyOf, Copy
<1> QED
  BY <1>1 DEF TypeOK, Home, Held, Holds

\* A buffer is what is at its home, with what waits for it drawn there.
LEMMA Bufs ==
  ASSUME TypeOK
  PROVE  /\ Buf \in [Buffer -> Contents]
         /\ \A b \in Buffer : (\A p \in Pixel : queued[b][p] = NoDraw) => Buf[b] = Home[b]
         /\ queued = Drained => Buf = Home
<1>1. Home \in [Buffer -> Contents]
  BY Homes
<1>2. Buf \in [Buffer -> Contents]
  BY <1>1 DEF Buf, TypeOK, Contents
<1>3. ASSUME NEW b \in Buffer, \A p \in Pixel : queued[b][p] = NoDraw
      PROVE  Buf[b] = Home[b]
  BY <1>1, <1>3 DEF Buf, Contents
<1>4. ASSUME queued = Drained
      PROVE  Buf = Home
  <2>1. \A b \in Buffer : Buf[b] = Home[b]
    BY <1>3, <1>4 DEF Drained
  <2> QED
    BY <1>1, <1>2, <2>1
<1> QED
  BY <1>2, <1>3, <1>4

\* A lock for reading shows the buffer as it is: host, copy or mapped pages
\* hold the pixels that a direct access would find.
THEOREM ReadsAreTrue == Spec => []ReadsBuffer
<1>1. IInv => ReadsBuffer
  <2> DEFINE b == Holds("read")
  <2> SUFFICES ASSUME IInv, b # "none"
               PROVE  (MapBufo => pages[b] # "none") /\ View(b) = Buf[b]
    BY DEF ReadsBuffer
  <2>1. b \in Buffer /\ b = held["read"] /\ ~Apart(b) /\ window
    BY DEF IInv, TypeOK, Holds, LocksKnown, LockType, Nothing
  <2>2. Copying = (~lfb_real /\ ~MapBufo)
    BY Options DEF IInv, TypeOK
  <2>3. MapBufo => pages[b] # "none"
    BY <2>1 DEF IInv, PagesMapped, LockType
  <2>4. Buf[b] = IF InCopy(b) THEN copy[CopyOf(b)] ELSE host[b]
    BY <2>1, Bufs, Homes, NothingAwaits DEF IInv
  <2>5. lfb_real => lfbPtr["read"] = b
    BY <2>1 DEF IInv, LocksKnown, HostNumber, LockType, Buffer
  <2>6. CASE Copying
    BY <2>1, <2>2, <2>3, <2>4, <2>6 DEF View, IInv, CopyFresh
  <2>7. CASE ~Copying
    BY <2>2, <2>3, <2>4, <2>5, <2>7 DEF View, InCopy
  <2> QED
    BY <2>3, <2>6, <2>7
<1> QED
  BY <1>1, LfbInStep, PTL

\* The calls of the device find the queue empty and leave it so.
LEMMA CallsDrained ==
  ASSUME TypeOK, TypeOK', queued = Drained, queued' = queued
  PROVE  Buf = Home /\ Buf' = Home' /\ Buf' \in [Buffer -> Contents]
<1>1. \A b \in Buffer : CopyOf(b) \in Copy
  BY DEF CopyOf, Copy
<1>2. Home' \in [Buffer -> Contents]
  <2>1. host' \in [Buffer -> Contents] /\ copy' \in [Copy -> Contents]
    BY DEF TypeOK
  <2> QED
    BY <1>1, <2>1 DEF Home, CopyOf
<1>3. \A b \in Buffer, p \in Pixel : queued'[b][p] = NoDraw
  BY DEF Drained
<1>4. Buf' = Home'
  <2>1. \A b \in Buffer : Buf'[b] = [p \in Pixel |-> Home'[b][p]]
    BY <1>3 DEF Buf
  <2>2. \A b \in Buffer : Home'[b] = [p \in Pixel |-> Home'[b][p]]
    BY <1>2 DEF Contents
  <2>3. Buf' = [b \in Buffer |-> Buf'[b]] /\ Home' = [b \in Buffer |-> Home'[b]]
    BY DEF Buf, Home
  <2> QED
    BY <2>1, <2>2, <2>3
<1> QED
  BY <1>2, <1>4, Bufs

LEMMA UnlockIsUnlock ==
  ASSUME IInv, NEW t \in LockType, grLfbUnlock(t)
  PROVE  Home' = Home /\ Held' = [Held EXCEPT ![t] = "none"]
<1> DEFINE b == held[t]
           back == ~lfb_real /\ t = "write" /\ ~Apart(b)
           merge == back /\ lfb_merge /\ b = "back"
<1>0. /\ cfg' = cfg /\ b \in Buffer /\ copy' = copy
      /\ held' = [held EXCEPT ![t] = "none"]
  BY DEF IInv, TypeOK, grLfbUnlock
<1>1. Held' = [Held EXCEPT ![t] = "none"]
  <2>1. \A x \in LockType : (Holds(x))' = IF x = t THEN "none" ELSE Holds(x)
    BY <1>0, OptionsKept DEF Holds, Apart, IInv, TypeOK
  <2> QED
    BY <2>1 DEF Held
<1>2. /\ Copying' = Copying
      /\ Copying = (~lfb_real /\ ~MapBufo) /\ (lfb_merge => Copying)
  BY <1>0, OptionsKept, Options DEF IInv, TypeOK
<1>3. ASSUME NEW x \in Buffer
      PROVE  (IF InCopy(x) THEN copy[CopyOf(x)] ELSE host[x]) =
             (IF (InCopy(x))' THEN copy[CopyOf(x)] ELSE host'[x])
  <2>1. CASE ~Copying
    BY <2>1, <1>2 DEF InCopy, grLfbUnlock, vgLfbFlush
  <2>2. CASE Copying /\ ~back
    <3>1. UNCHANGED <<host, lfb_dirty>>
      BY <2>2 DEF grLfbUnlock
    <3>2. (Holds("write"))' = Holds("write")
      <4>1. lfb_noaux' = lfb_noaux /\ (t = "write" => Apart(b))
        BY <2>2, <1>0, <1>2, OptionsKept
      <4>2. held'["write"] = IF t = "write" THEN "none" ELSE held["write"]
        BY <1>0 DEF LockType, IInv, TypeOK
      <4> QED
        BY <4>1, <4>2 DEF Holds, Apart
    <3> QED
      BY <3>1, <3>2, <1>2 DEF InCopy
  <2>3. CASE Copying /\ back
    <3>1. (Holds("write"))' = "none" /\ Holds("write") = b
      BY <2>3, <1>0, OptionsKept DEF Holds, Apart, IInv, TypeOK
    <3>2. CASE merge
      <4>1. host' = host /\ lfb_dirty' = {"merge"}
        BY <3>2 DEF grLfbUnlock
      <4> QED
        BY <3>1, <3>2, <4>1, <1>2, <2>3 DEF InCopy, Buffer
    <3>3. CASE ~merge
      <4>1. host' = [host EXCEPT ![b] = copy[CopyOf(b)]] /\ lfb_dirty' = {"stale"}
        BY <3>3, <2>3, <1>0, <1>2
           DEF grLfbUnlock, vgLfbFlush, IInv, LocksKnown, HostNumber, LockType, Buffer
      <4>2. InCopy(x) => x = b
        BY <3>1, <2>3, <1>0, <1>2 DEF InCopy, IInv, MergeWaits, LockType, Buffer
      <4>3. InCopy(b) /\ ~(InCopy(x))'
        BY <3>1, <4>1, <1>2, <2>3, <1>0 DEF InCopy, Buffer
      <4> QED
        BY <4>1, <4>2, <4>3, <1>0 DEF IInv, TypeOK
    <3> QED
      BY <3>2, <3>3
  <2> QED
    BY <2>1, <2>2, <2>3
<1>4. Home' = Home
  BY <1>0, <1>3 DEF Home
<1> QED
  BY <1>1, <1>4

LEMMA LockIsLock ==
  ASSUME IInv, NEW t \in LockType, NEW b \in Buffer, grLfbLock(t, b)
  PROVE  /\ Home' = Home
         /\ Held' = IF Apart(b) THEN Held ELSE [Held EXCEPT ![t] = b]
         /\ Held[t] = "none"
<1> DEFINE o == Other(t)
           marked == Marked(b)
           fill == Copying /\ ~Apart(b) /\ "stale" \in marked
<1> USE DEF Marked
<1>0. /\ cfg' = cfg /\ host' = host /\ window /\ b # "none"
      /\ held' = [held EXCEPT ![t] = b] /\ held[t] = "none"
      /\ copy' = IF fill THEN [copy EXCEPT ![CopyOf(b)] = host[b]] ELSE copy
      /\ lfb_dirty' = IF fill THEN {} ELSE marked
  BY DEF grLfbLock, Buffer
<1>1. Held[t] = "none" /\ Held' = IF Apart(b) THEN Held ELSE [Held EXCEPT ![t] = b]
  BY <1>0, OptionsKept DEF Held, Holds, Apart, IInv, TypeOK
<1>2. Copying' = Copying /\ Copying = (~lfb_real /\ ~MapBufo) /\ CopyOf(b) \in Copy
  BY <1>0, OptionsKept, Options DEF IInv, TypeOK, CopyOf, Copy
<1>3. ASSUME Copying, "merge" \in lfb_dirty
      PROVE  b = "back" /\ marked = lfb_dirty /\ lfb_dirty = {"merge"} /\ ~fill
  BY <1>2, <1>3 DEF grLfbLock, MayLock, IInv, MergeWaits
<1>4. ASSUME Copying, "merge" \in lfb_dirty'
      PROVE  "merge" \in lfb_dirty /\ b = "back"
  BY <1>0, <1>3, <1>4
<1>5. (Holds("write"))' = IF t = "write" /\ ~Apart(b) THEN b
                          ELSE IF t = "write" THEN "none" ELSE Holds("write")
  BY <1>0, OptionsKept DEF Holds, Apart, IInv, TypeOK, LockType
<1>6. ASSUME Copying, t = "read", Holds("write") # "none"
      PROVE  Holds("write") = b /\ ~fill
  <2>1. held["write"] = b /\ ~Apart(b) /\ ~LockDirty /\ looked = b
    BY <1>6, <1>2 DEF Holds, grLfbLock, MayLock, Other
  <2>2. grBuffer = b /\ "stale" \notin lfb_dirty
    BY <2>1, <1>0, <1>6 DEF Holds, IInv, LocksKnown, CopyFresh, HostNumber, LockType
  <2> QED
    BY <2>1, <2>2 DEF Holds
<1>7. ASSUME Copying, t = "write", ~Apart(b), ~fill, "merge" \notin lfb_dirty
      PROVE  copy[CopyOf(b)] = host[b]
  <2>1. grBuffer = b /\ ~LockDirty /\ lfb_dirty = {}
    BY <1>7 DEF IInv, TypeOK
  <2>2. ~InCopy(b)
    BY <1>0, <1>7 DEF InCopy, Holds
  <2>3. looked = b /\ ~drawn
    BY <2>1, <2>2, <1>0, <1>7 DEF IInv, CopyFresh, grLfbLock, MayLock
  <2> QED
    BY <2>1, <2>2, <2>3, <1>0, <1>7 DEF IInv, CopyFresh
<1>8. ASSUME NEW x \in Buffer
      PROVE  (IF InCopy(x) THEN copy[CopyOf(x)] ELSE host[x]) =
             (IF (InCopy(x))' THEN copy'[CopyOf(x)] ELSE host'[x])
  <2>1. CASE ~Copying
    BY <2>1, <1>0, <1>2 DEF InCopy
  <2>2. CASE Copying /\ t = "read"
    <3>1. (InCopy(x))' = InCopy(x)
      BY <2>2, <1>0, <1>2, <1>3, <1>4, <1>5 DEF InCopy
    <3>2. fill => ~InCopy(x)
      BY <2>2, <1>3, <1>6 DEF InCopy, Buffer
    <3> QED
      BY <3>1, <3>2, <1>0
  <2>3. CASE Copying /\ t = "write" /\ Apart(b)
    <3>1. Holds("write") = "none" /\ (Holds("write"))' = "none"
      BY <2>3, <1>0, <1>5 DEF Holds
    <3>2. (InCopy(x))' = InCopy(x)
      BY <2>3, <3>1, <1>0, <1>2, <1>3, <1>4 DEF InCopy
    <3> QED
      BY <3>2, <2>3, <1>0
  <2>4. CASE Copying /\ t = "write" /\ ~Apart(b)
    <3>1. Holds("write") = "none" /\ (Holds("write"))' = b
      BY <2>4, <1>0, <1>5 DEF Holds
    <3>2. CASE "merge" \in lfb_dirty
      <4>1. (InCopy(x))' = (x = "back") /\ InCopy(x) = (x = "back")
        BY <2>4, <3>1, <3>2, <1>0, <1>2, <1>3 DEF InCopy, Buffer
      <4> QED
        BY <4>1, <3>2, <2>4, <1>0, <1>3
    <3>3. CASE "merge" \notin lfb_dirty
      <4>1. ~InCopy(x) /\ (InCopy(x))' = (x = b)
        BY <2>4, <3>1, <3>3, <1>2, <1>4 DEF InCopy, Buffer
      <4>2. copy'[CopyOf(b)] = host[b]
        BY <2>4, <3>3, <1>0, <1>2, <1>7 DEF IInv, TypeOK
      <4> QED
        BY <4>1, <4>2, <1>0
    <3> QED
      BY <3>2, <3>3
  <2> QED
    BY <2>1, <2>2, <2>3, <2>4 DEF LockType
<1>9. Home' = Home
  BY <1>8 DEF Home, CopyOf
<1> QED
  BY <1>1, <1>9

LEMMA WriteRegionIsDraw ==
  ASSUME IInv, NEW b \in Buffer, NEW p \in Pixel, NEW v \in Value, grLfbWriteRegion(b, p, v)
  PROVE  /\ Home' = [Home EXCEPT ![b] = [@ EXCEPT ![p] = v]]
         /\ Held' = Held
<1>0. /\ cfg' = cfg /\ held' = held /\ copy' = copy
      /\ host' = [host EXCEPT ![b] = [@ EXCEPT ![p] = v]]
  BY DEF grLfbWriteRegion
<1>1. Held' = Held
  BY <1>0, OptionsKept DEF Held, Holds, Apart
<1>2. \A x \in Buffer : (InCopy(x))' = InCopy(x)
  BY <1>0, OptionsKept DEF InCopy, Holds, Apart, grLfbWriteRegion, deviceVars
<1>3. ~InCopy(b)
  BY DEF grLfbWriteRegion, MayWriteRegion, MayDraw, InCopy, LockType
<1>4. Home' = [Home EXCEPT ![b] = [@ EXCEPT ![p] = v]]
  BY <1>0, <1>2, <1>3 DEF Home, IInv, TypeOK
<1> QED
  BY <1>1, <1>4

LEMMA StoreAtHome ==
  ASSUME IInv, NEW p \in Pixel, NEW v \in Value, Store(p, v)
  PROVE  /\ Home' = IF Held["write"] = "none" THEN Home
                   ELSE [Home EXCEPT ![Held["write"]] = [@ EXCEPT ![p] = v]]
         /\ Held' = Held
<1> DEFINE b == held["write"]
<1>0. /\ cfg' = cfg /\ held' = held /\ b \in Buffer /\ b # "none" /\ CopyOf(b) \in Copy
      /\ Held["write"] = Holds("write")
  BY DEF Store, IInv, TypeOK, LockType, CopyOf, Copy, Held
<1>1. Held' = Held
  BY <1>0, OptionsKept DEF Held, Holds, Apart
<1>2. \A x \in Buffer : (InCopy(x))' = InCopy(x)
  BY <1>0, OptionsKept DEF InCopy, Holds, Apart, Store, deviceVars
<1>3. CASE Apart(b)
  <2>1. /\ host' = host /\ Holds("write") = "none" /\ b = "aux"
        /\ copy' = [copy EXCEPT !["aux"] = [@ EXCEPT ![p] = v]]
    BY <1>3 DEF Store, Holds, Apart, CopyOf
  <2>2. \A x \in Buffer : InCopy(x) => x = "back"
    BY <2>1 DEF InCopy, Buffer
  <2>3. Home' = Home
    BY <1>2, <2>1, <2>2 DEF Home, CopyOf, IInv, TypeOK, Buffer, Copy
  <2> QED
    BY <1>0, <1>1, <2>1, <2>3
<1>4. CASE ~Apart(b) /\ Copying
  <2>1. /\ host' = host /\ Holds("write") = b
        /\ copy' = [copy EXCEPT ![CopyOf(b)] = [@ EXCEPT ![p] = v]]
    BY <1>4 DEF Store, Holds
  <2>2. InCopy(b)
    BY <1>4, <2>1 DEF InCopy
  <2>3. \A x \in Buffer : InCopy(x) => x = b
    BY <1>4, <1>0, <2>1 DEF InCopy, IInv, MergeWaits, LockType, Copying
  <2>4. Home' = [Home EXCEPT ![b] = [@ EXCEPT ![p] = v]]
    BY <1>0, <1>2, <2>1, <2>2, <2>3 DEF Home, IInv, TypeOK
  <2> QED
    BY <1>0, <1>1, <2>1, <2>4
<1>5. CASE ~Apart(b) /\ ~Copying
  <2>1. Holds("write") = b /\ lfbPtr["write"] = b
    BY <1>5, <1>0 DEF Holds, IInv, LocksKnown, HostNumber, LockType
  <2>2. ~lfb_real => pages[b] = "readwrite"
    BY <1>5, <1>0 DEF IInv, PagesMapped, LockType, Copying
  <2>3. host' = [host EXCEPT ![b] = [@ EXCEPT ![p] = v]]
    BY <1>5, <2>1, <2>2 DEF Store
  <2>4. \A x \in Buffer : ~InCopy(x)
    BY <1>5 DEF InCopy
  <2>5. Home' = [Home EXCEPT ![b] = [@ EXCEPT ![p] = v]]
    BY <1>0, <1>2, <2>3, <2>4 DEF Home, IInv, TypeOK
  <2> QED
    BY <1>0, <1>1, <2>1, <2>5
<1> QED
  BY <1>3, <1>4, <1>5

LEMMA StoreIsStore ==
  ASSUME IInv, NEW p \in Pixel, NEW v \in Value, Store(p, v)
  PROVE  /\ Buf' = IF Held["write"] = "none" THEN Buf
                   ELSE [Buf EXCEPT ![Held["write"]] = [@ EXCEPT ![p] = v]]
         /\ Held' = Held
<1> DEFINE b == Held["write"]
<1>0. queued' = queued /\ b = Holds("write") /\ b \in Buffer \cup {"none"}
  BY Homes DEF Store, Held, LockType, IInv
<1>1. /\ Home' = IF b = "none" THEN Home ELSE [Home EXCEPT ![b] = [@ EXCEPT ![p] = v]]
      /\ Held' = Held
  BY StoreAtHome
<1>2. /\ Home \in [Buffer -> Contents]
      /\ Buf' = [x \in Buffer |->
           [q \in Pixel |-> IF queued[x][q] = NoDraw THEN Home'[x][q] ELSE queued[x][q]]]
  BY <1>0, Homes DEF Buf, IInv
<1>3. CASE b = "none"
  BY <1>0, <1>1, <1>2, <1>3 DEF Buf
<1>4. CASE b # "none"
  <2>1. b \in Buffer /\ \A q \in Pixel : queued[b][q] = NoDraw
    BY <1>0, <1>4, NothingAwaits
  <2>2. \A x \in Buffer : x # b => Buf'[x] = Buf[x]
    BY <1>1, <1>2, <1>4 DEF Buf
  <2>3. Buf[b] = Home[b] /\ Buf \in [Buffer -> Contents]
    BY <2>1, Bufs DEF IInv
  <2>4. Buf'[b] = [Home[b] EXCEPT ![p] = v]
    <3>1. Home'[b] = [Home[b] EXCEPT ![p] = v] /\ Home[b] \in [Pixel -> Value]
      BY <1>1, <1>2, <1>4, <2>1 DEF Contents
    <3>2. Buf'[b] = [q \in Pixel |-> Home'[b][q]]
      BY <1>2, <2>1
    <3> QED
      BY <3>1, <3>2
  <2>5. Buf' = [Buf EXCEPT ![b] = [@ EXCEPT ![p] = v]]
    <3>1. Buf' = [x \in Buffer |-> Buf'[x]]
      BY DEF Buf
    <3> HIDE DEF b
    <3> QED
      BY <2>1, <2>2, <2>3, <2>4, <3>1
  <2> QED
    BY <1>1, <1>4, <2>5
<1> QED
  BY <1>3, <1>4

\* A draw counts from the call.
LEMMA DrawIsDraw ==
  ASSUME IInv, NEW b \in Buffer, NEW p \in Pixel, NEW v \in Value, Draw(b, p, v)
  PROVE  /\ Buf' = [Buf EXCEPT ![b] = [@ EXCEPT ![p] = v]]
         /\ Held' = Held
<1>0. /\ cfg' = cfg /\ UNCHANGED <<held, copy, host, lfb_dirty>>
      /\ queued' = [queued EXCEPT ![b] = [@ EXCEPT ![p] = v]]
  BY DEF Draw, deviceVars
<1>1. Held' = Held /\ Home' = Home
  BY <1>0, OptionsKept DEF Held, Home, InCopy, Holds, Apart
<1>2. Buf' = [x \in Buffer |->
        [q \in Pixel |-> IF queued'[x][q] = NoDraw THEN Home[x][q] ELSE queued'[x][q]]]
  BY <1>1 DEF Buf
<1>3. queued \in [Buffer -> [Pixel -> Value \cup {NoDraw}]] /\ v # NoDraw
  BY NoDrawIsNoValue DEF IInv, TypeOK
<1>4. \A x \in Buffer : x # b => Buf'[x] = Buf[x]
  BY <1>0, <1>2, <1>3 DEF Buf
<1>5. Buf'[b] = [Buf[b] EXCEPT ![p] = v]
  BY <1>0, <1>2, <1>3 DEF Buf
<1> QED
  BY <1>1, <1>2, <1>4, <1>5 DEF Buf

\* processFifo only brings to the host what counts already.
LEMMA DrainIsNothing == ASSUME IInv, processFifo PROVE Buf' = Buf /\ Held' = Held
<1>0. /\ cfg' = cfg /\ UNCHANGED <<held, copy, lfb_dirty>>
      /\ queued' = Drained /\ host' = [b \in Buffer |-> Carried(b)]
  BY DEF processFifo, deviceVars
<1>1. /\ Held' = Held
      /\ \A x \in Buffer : (InCopy(x))' = InCopy(x)
  BY <1>0, OptionsKept DEF Held, InCopy, Holds, Apart
<1>2. ASSUME NEW x \in Buffer
      PROVE  Buf'[x] = Buf[x]
  <2>0. /\ Home \in [Buffer -> Contents] /\ Home[x] = IF InCopy(x) THEN copy[CopyOf(x)] ELSE host[x]
        /\ Home'[x] = IF InCopy(x) THEN copy[CopyOf(x)] ELSE Carried(x)
    BY <1>0, <1>1, Homes DEF Home, CopyOf, IInv
  <2>1. Buf'[x] = [p \in Pixel |-> Home'[x][p]]
    BY <1>0 DEF Buf, Drained
  <2>2. CASE InCopy(x)
    <3>1. \A p \in Pixel : queued[x][p] = NoDraw
      BY <2>2, NothingAwaits
    <3> QED
      BY <2>0, <2>1, <2>2, <3>1 DEF Buf
  <2>3. CASE ~InCopy(x)
    BY <2>0, <2>1, <2>3 DEF Buf, Carried
  <2> QED
    BY <2>2, <2>3
<1> QED
  BY <1>1, <1>2 DEF Buf

LEMMA SwapIsSwap ==
  ASSUME IInv, grBufferSwap
  PROVE  /\ Home' = [Home EXCEPT !["front"] = Home["back"], !["back"] = Home'["back"]]
         /\ Held' = Held
<1> DEFINE flushed == IF lock["write"] /\ grBuffer \in {"front", "back"}
                      THEN vgLfbFlush("colour") ELSE host
           merged == IF "merge" \in lfb_dirty THEN [flushed EXCEPT !["back"] = copy["colour"]]
                     ELSE flushed
           shown == IF lfb_real THEN host ELSE merged
<1>0. /\ cfg' = cfg /\ held' = held /\ copy' = copy
      /\ ~lfb_real => lfb_dirty' = {"stale"}
  BY DEF grBufferSwap
<1>1. Held' = Held
  BY <1>0, OptionsKept DEF Held, Holds, Apart
<1>2. PICK old \in {shown["front"], shown["back"]} :
        host' = [shown EXCEPT !["front"] = shown["back"], !["back"] = old]
  BY DEF grBufferSwap
<1>3. Copying' = Copying /\ Copying = (~lfb_real /\ ~MapBufo)
  BY <1>0, OptionsKept, Options DEF IInv, TypeOK
<1>4. (Holds("write"))' = Holds("write")
  BY <1>0, OptionsKept DEF Holds, Apart
<1>5. Home \in [Buffer -> Contents]
  BY Homes DEF IInv
<1>6. CASE ~Copying
  <2>1. shown = host
    BY <1>3, <1>6 DEF vgLfbFlush, IInv, MergeWaits
  <2>2. Home = host /\ Home' = host'
    <3>1. \A x \in Buffer : ~InCopy(x) /\ ~(InCopy(x))'
      BY <1>3, <1>6 DEF InCopy
    <3>2. host \in [Buffer -> Contents] /\ host' \in [Buffer -> Contents]
      BY <1>2, <2>1 DEF IInv, TypeOK, Buffer
    <3> QED
      BY <3>1, <3>2 DEF Home
  <2> QED
    BY <1>1, <1>2, <2>1, <2>2 DEF IInv, TypeOK, Buffer
<1>7. CASE Copying
  <2>0. held["write"] # "front" /\ Holds("write") # "front"
    BY <1>7 DEF grBufferSwap, MaySwap, Holds
  <2>1. flushed = IF held["write"] = "back" THEN [host EXCEPT !["back"] = copy["colour"]]
                  ELSE host
    <3>1. held["write"] \in Buffer \cup {"none"}
      BY DEF IInv, TypeOK, LockType
    <3>2. lock["write"] = (held["write"] # "none")
          /\ (held["write"] # "none" => /\ lfbPtr["write"] = HostNumber(held["write"])
                                        /\ grBuffer = HostNumber(held["write"]))
      BY <1>7 DEF IInv, LocksKnown, LockType
    <3> QED
      BY <1>3, <1>7, <2>0, <3>1, <3>2 DEF vgLfbFlush, HostNumber, Apart, Buffer
  <2>2. InCopy("back") = (held["write"] = "back" \/ "merge" \in lfb_dirty)
    BY <1>7 DEF InCopy, Holds, Apart
  <2>3. shown = [host EXCEPT !["back"] = Home["back"]]
    BY <1>3, <1>7, <2>1, <2>2 DEF Home, CopyOf, IInv, TypeOK, Buffer
  <2>4. /\ host'["front"] = Home["back"] /\ host'["aux"] = host["aux"]
        /\ host' \in [Buffer -> Contents]
    <3>1. "back" \in Buffer /\ "front" \in Buffer /\ "aux" \in Buffer
      BY DEF Buffer
    <3>2. host \in [Buffer -> Contents] /\ Home["back"] \in Contents
      BY <1>5, <3>1 DEF IInv, TypeOK
    <3>3. /\ shown \in [Buffer -> Contents]
          /\ shown["back"] = Home["back"] /\ shown["aux"] = host["aux"]
      BY <2>3, <3>1, <3>2
    <3>4. old \in Contents
      BY <1>2, <3>1, <3>3
    <3> HIDE DEF shown
    <3> QED
      BY <1>2, <3>1, <3>2, <3>3, <3>4
  <2>5. ~InCopy("front") /\ ~(InCopy("front"))' /\ (InCopy("aux"))' = InCopy("aux")
    BY <1>0, <1>3, <1>4, <1>7, <2>0 DEF InCopy
  <2>6. Home'["front"] = Home["back"] /\ Home'["aux"] = Home["aux"]
    BY <1>0, <2>4, <2>5 DEF Home, Buffer
  <2>7. Home' = [x \in Buffer |-> Home'[x]] /\ Home = [x \in Buffer |-> Home[x]]
    BY DEF Home
  <2> QED
    BY <1>1, <2>6, <2>7 DEF Buffer
<1> QED
  BY <1>6, <1>7

\* The device acts on the application's buffers as if they were in the guest:
\* with copies, mapped pages or traps, no store is lost, nothing that was
\* drawn is overwritten and no lock changes a pixel.
THEOREM LfbActsDirectly == Spec => ActsDirectly
<1>1. Init => Direct!Init
  <2> SUFFICES ASSUME Init PROVE Direct!Init
    OBVIOUS
  <2>1. TypeOK
    BY InitIInv DEF IInv
  <2>2. Held = Nothing
    BY DEF Init, Held, Holds, Apart, Nothing
  <2>3. Buf \in [Buffer -> Contents]
    BY <2>1, Bufs
  <2> QED
    BY <2>2, <2>3
       DEF Direct!Init, Direct!Buffer, Direct!Contents, Direct!Nothing, Direct!LockType,
           Buffer, Contents, Nothing, LockType
<1>2. IInv /\ [Next]_vars => [Direct!Next]_(Direct!vars)
  <2> SUFFICES ASSUME IInv, [Next]_vars PROVE Direct!Next \/ UNCHANGED Direct!vars
    OBVIOUS
  <2> USE DEF Direct!vars
  <2>0. /\ IInv' /\ TypeOK /\ TypeOK'
        /\ Direct!Buffer = Buffer /\ Direct!LockType = LockType
        /\ Direct!Contents = Contents /\ Direct!Nothing = Nothing
    BY NextKeeps DEF IInv, Direct!Buffer, Buffer, Direct!LockType, LockType,
                     Direct!Contents, Contents, Direct!Nothing, Nothing
  <2>1. CASE grGlideInit
    <3>1. cfg' = cfg /\ UNCHANGED <<queued, host, copy, held, lfb_dirty>>
      BY <2>1 DEF grGlideInit
    <3> QED
      BY <3>1, OptionsKept DEF Buf, Home, Held, InCopy, Holds, Apart
  <2>2. ASSUME NEW c \in Config, NEW v \in Value, grSstWinOpen(c, v)
        PROVE  Direct!Next
    <3>1. held' = held /\ held = Nothing
      BY <2>2 DEF grSstWinOpen, IInv, LocksKnown
    <3>2. Held = Nothing /\ Held' = Nothing
      BY <3>1 DEF Held, Holds, Apart, Nothing
    <3>3. Buf' \in [Buffer -> Contents]
      BY <2>0, <2>2, CallsDrained DEF grSstWinOpen
    <3> QED
      BY <2>0, <3>2, <3>3 DEF Direct!Next, Direct!Open
  <2>3. CASE grSstWinClose
    <3>1. cfg' = cfg /\ UNCHANGED <<queued, host, copy, held, lfb_dirty>>
      BY <2>3 DEF grSstWinClose, deviceVars
    <3> QED
      BY <3>1, OptionsKept DEF Buf, Home, Held, InCopy, Holds, Apart
  <2>4. CASE grBufferSwap
    <3>1. Buf = Home /\ Buf' = Home' /\ Buf' \in [Buffer -> Contents]
      BY <2>0, <2>4, CallsDrained DEF grBufferSwap
    <3>2. Buf'["back"] \in Contents
      BY <3>1 DEF Buffer
    <3> QED
      BY <2>0, <2>4, <3>1, <3>2, SwapIsSwap DEF Direct!Next, Direct!Swap
  <2>5. ASSUME NEW t \in LockType, grLfbUnlock(t)
        PROVE  Direct!Next
    <3>1. Buf = Home /\ Buf' = Home'
      BY <2>0, <2>5, CallsDrained DEF grLfbUnlock
    <3> QED
      BY <2>0, <2>5, <3>1, UnlockIsUnlock DEF Direct!Next, Direct!Unlock
  <2>6. ASSUME NEW t \in LockType, NEW b \in Buffer, grLfbLock(t, b)
        PROVE  Direct!Next \/ UNCHANGED Direct!vars
    <3>1. Buf = Home /\ Buf' = Home'
      BY <2>0, <2>6, CallsDrained DEF grLfbLock
    <3> QED
      BY <2>0, <2>6, <3>1, LockIsLock DEF Direct!Next, Direct!Lock
  <2>7. ASSUME NEW p \in Pixel, NEW v \in Value, Store(p, v)
        PROVE  Direct!Next \/ UNCHANGED Direct!vars
    BY <2>0, <2>7, StoreIsStore DEF Direct!Next, Direct!Store
  <2>8. ASSUME NEW b \in Buffer, NEW p \in Pixel, NEW v \in Value, Draw(b, p, v)
        PROVE  Direct!Next
    BY <2>0, <2>8, DrawIsDraw DEF Direct!Next, Direct!Draw
  <2>9. CASE processFifo
    BY <2>9, DrainIsNothing
  <2>10. ASSUME NEW b \in Buffer, NEW p \in Pixel, NEW v \in Value, grLfbWriteRegion(b, p, v)
         PROVE  Direct!Next
    <3>1. Buf = Home /\ Buf' = Home'
      BY <2>0, <2>10, CallsDrained DEF grLfbWriteRegion
    <3> QED
      BY <2>0, <2>10, <3>1, WriteRegionIsDraw DEF Direct!Next, Direct!Draw
  <2>11. CASE UNCHANGED vars
    <3>1. cfg' = cfg /\ UNCHANGED <<queued, host, copy, held, lfb_dirty>>
      BY <2>11 DEF vars, deviceVars
    <3> QED
      BY <3>1, OptionsKept DEF Buf, Home, Held, InCopy, Holds, Apart
  <2> QED
    BY <2>1, <2>2, <2>3, <2>4, <2>5, <2>6, <2>7, <2>8, <2>9, <2>10, <2>11
       DEF Next
<1> QED
  BY <1>1, <1>2, LfbInStep, PTL DEF Spec, ActsDirectly, Direct!Spec
=============================================================================
