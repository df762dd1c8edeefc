------------------------------ MODULE GlideLfb ------------------------------
(***************************************************************************)
(* The linear frame buffer of Glide 2.x and 3.x: an application locks a    *)
(* buffer and gets a pointer to its pixels.  The buffer is on the host;    *)
(* what the guest gets depends on the options in glide.cfg:                *)
(*   LfbHandler     every access traps into the device, glideLfb_read and  *)
(*                  glideLfb_write                                         *)
(*   LfbMapBufo     the host's pages are mapped into the guest             *)
(*   neither        a copy in shared memory, filled when the buffer is     *)
(*                  locked and taken back when it is unlocked; front and   *)
(*                  back share one copy                                    *)
(* To save copies the device notes in lfb_dirty whether the copy must be   *)
(* filled again.  LfbLockDirty makes it fill the copy at each lock,        *)
(* LfbWriteMerge puts off taking it back until the buffers are swapped,    *)
(* LfbNoAux keeps the guest's depth buffer apart from the host's.          *)
(*                                                                         *)
(* Pixels are 16 bits wide: the writing modes of 32 bits, of which nothing *)
(* is copied in, and the pitch are left out.  The host grants each lock it *)
(* is asked for.                                                           *)
(*                                                                         *)
(* Calls that draw wait in the queue (FIFO_GRFUNC) until a call that does  *)
(* not: the device carries them out before it (processFifo).  What the     *)
(* application reads or stores through a lock is no call and waits for     *)
(* nothing.                                                                *)
(***************************************************************************)
EXTENDS Integers, FiniteSets

CONSTANTS
  Pixel,       \* the places of a buffer
  Value,       \* what a place can hold
  Glide2x,     \* the wrapper is that of Glide 2.x: initDLL is 0x243a0
  HostMaps,    \* kvm_enabled(), whpx_enabled()
  Config,      \* the options that glide.cfg may give
  NoDraw,      \* no draw waits for a place
  MaxQueued    \* a bound: the places that draws may wait for at a time

ASSUME FlagsAreBoolean == Glide2x \in BOOLEAN /\ HostMaps \in BOOLEAN
ASSUME OptionsAreSwitches ==
  Config \subseteq [LfbHandler : BOOLEAN, LfbMapBufo : BOOLEAN, LfbLockDirty : BOOLEAN,
                    LfbWriteMerge : BOOLEAN, LfbNoAux : BOOLEAN]

ASSUME NoDrawIsNoValue == NoDraw \notin Value
ASSUME MaxQueuedIsNat == MaxQueued \in Nat

Buffer == {"front", "back", "aux"}
LockType == {"read", "write"}
Copy == {"colour", "aux"}
Contents == [Pixel -> Value]

VARIABLES
  window,     \* a window is open
  queued,     \* wrapper: what the draws in the queue will leave at each place
  cfg,        \* the options init_window read
  host,       \* host: the contents of each buffer
  copy,       \* shared memory: the copies
  pages,      \* guest's physical memory: how each buffer's pages are mapped
  lfb_dirty,  \* device: bit 0, the copy must be filled again; bit 7, it waits to be merged
  grBuffer,   \* device: the buffer locked last
  lfbPtr,     \* device: the host's pointer, by type of lock
  lock,       \* device: a lock of that type is held
  mbufo,      \* device: the mapping made for it
  held,       \* application: the buffer it has locked, by type
  looked,     \* history: the buffer locked last, if nothing has marked the copy since
  drawn       \* history: that buffer has been drawn on since

deviceVars == <<lfb_dirty, grBuffer, lfbPtr, lock, mbufo>>
history == <<looked, drawn>>
vars == <<window, queued, cfg, host, copy, pages, deviceVars, held, history>>

\* The options in force.
lfb_real == cfg.LfbHandler
lfb_noaux == cfg.LfbNoAux
MapBufo == ~cfg.LfbHandler /\ ~cfg.LfbWriteMerge /\ cfg.LfbMapBufo /\ HostMaps
LockDirty == ~cfg.LfbMapBufo /\ cfg.LfbLockDirty
lfb_merge == Glide2x /\ ~lfb_real /\ ~cfg.LfbMapBufo /\ cfg.LfbWriteMerge
Copying == ~lfb_real /\ ~MapBufo

\* The copy a buffer is in: (buffer & 0xFE) is the second half of the block.
CopyOf(b) == IF b = "aux" THEN "aux" ELSE "colour"

\* The guest's own depth buffer: its number gets bit 7, which is no buffer of the host.
Apart(b) == lfb_noaux /\ b = "aux"

\* Mutation of HostNumber: the depth buffer kept apart has no number.
HostNumberCleared(b) == IF Apart(b) THEN "none" ELSE b

HostNumber(b) == IF Apart(b) THEN "apart" ELSE b

Nothing == [t \in LockType |-> "none"]
Other(t) == IF t = "read" THEN "write" ELSE "read"

\* Buffer b as the application locked it: a depth buffer kept apart does not count.
Holds(t) == IF Apart(held[t]) THEN "none" ELSE held[t]

\* The queue is empty, and the places that draws wait for.
Drained == [b \in Buffer |-> [p \in Pixel |-> NoDraw]]
Awaited == {bp \in Buffer \X Pixel : queued[bp[1]][bp[2]] # NoDraw}

Init ==
  /\ window = FALSE
  /\ queued = Drained
  /\ cfg \in Config
  /\ \E v \in Value :
       /\ host = [b \in Buffer |-> [p \in Pixel |-> v]]
       /\ copy = [c \in Copy |-> [p \in Pixel |-> v]]
  /\ pages = [b \in Buffer |-> "none"]
  /\ lfb_dirty = {}
  /\ grBuffer = "back"
  /\ lfbPtr = Nothing
  /\ lock = [t \in LockType |-> FALSE]
  /\ mbufo = Nothing
  /\ held = Nothing
  /\ looked = "none"
  /\ drawn = FALSE

---------------------------------------------------------------------------
(* What the applications keep to, by the way they get at the buffer.       *)

MayLock(t, b) ==
  /\ ~(lfb_real /\ Apart(b))
  /\ \/ held[Other(t)] = "none"
     \/ lfb_real
     \/ MapBufo /\ held[Other(t)] # b
     \/ Copying /\ ~LockDirty /\ held[Other(t)] = b /\ (t = "read" => looked = b)
  /\ Copying /\ ~LockDirty => ~(drawn /\ looked = b)
  /\ "merge" \in lfb_dirty /\ Copying => b = "back" /\ ~LockDirty

\* Drawing is queued: what is stored or read through a lock would overtake it.
MayDraw(b) ==
  /\ \A t \in LockType : Holds(t) # b
  /\ Copying => ~("merge" \in lfb_dirty /\ b = "back")

\* A region is written at once.
MayWriteRegion(b) == Copying => MayDraw(b)

MaySwap ==
  Copying => held["read"] \notin {"front", "back"} /\ held["write"] # "front"

---------------------------------------------------------------------------
\* grGlideInit, which applications call before they open a window.
grGlideInit ==
  /\ ~window
  /\ queued = Drained
  /\ grBuffer' = "back"
  /\ lfbPtr' = Nothing
  /\ lock' = [t \in LockType |-> FALSE]
  /\ looked' = "none"
  /\ drawn' = FALSE
  /\ UNCHANGED <<window, queued, cfg, host, copy, pages, lfb_dirty, mbufo, held>>

\* grSstWinOpen: init_window reads the options, the copies start anew.
grSstWinOpen(c, v) ==
  /\ ~window
  /\ queued = Drained
  /\ window' = TRUE
  /\ cfg' = c
  /\ host' \in [Buffer -> Contents]
  /\ IF c.LfbHandler
     THEN UNCHANGED <<lfb_dirty, copy>>
     ELSE /\ lfb_dirty' = {"stale"}
          /\ copy' = [copy EXCEPT !["aux"] = [p \in Pixel |-> v]]
  /\ looked' = "none"
  /\ drawn' = FALSE
  /\ UNCHANGED <<queued, pages, grBuffer, lfbPtr, lock, mbufo, held>>

\* grSstWinClose: the application holds no lock then.
grSstWinClose ==
  /\ window
  /\ queued = Drained
  /\ held = Nothing
  /\ window' = FALSE
  /\ UNCHANGED <<queued, cfg, host, copy, pages, deviceVars, held, history>>

---------------------------------------------------------------------------
\* Mutation of vgLfbFlush: the first half of the block whatever was locked.
vgLfbFlushColour(c) ==
  IF MapBufo \/ lfbPtr["write"] \notin Buffer THEN host
  ELSE [host EXCEPT ![lfbPtr["write"]] = copy["colour"]]

\* vgLfbFlush: a copy, to where the last lock for writing pointed.
vgLfbFlush(c) ==
  IF MapBufo \/ lfbPtr["write"] \notin Buffer THEN host
  ELSE [host EXCEPT ![lfbPtr["write"]] = copy[c]]

\* glide_mapbufo, without and with add.
Unmapped(m, t) ==
  IF m[t] \in Buffer THEN [pages EXCEPT ![m[t]] = "none"] ELSE pages
Mapped(pg, t, b) == [pg EXCEPT ![b] = IF t = "read" THEN "readonly" ELSE "readwrite"]

\* The device maps the pages of b, and takes the other type's mapping of them away.
MapPages(t, b) ==
  LET o == Other(t)
  IN  IF mbufo[o] = b
      THEN /\ pages' = Mapped(Unmapped(mbufo, o), t, b)
           /\ mbufo' = [mbufo EXCEPT ![t] = b, ![o] = "none"]
      ELSE /\ pages' = Mapped(pages, t, b)
           /\ mbufo' = [mbufo EXCEPT ![t] = b]

\* Mutation of Marked: that the copy may be of another buffer is forgotten.
MarkedWhicheverBuffer(b) ==
  IF LockDirty THEN lfb_dirty \cup {"stale"} ELSE lfb_dirty

\* A lock of another buffer than the last one drops all marks but one: fill the copy.
Marked(b) ==
  IF grBuffer # b THEN {"stale"}
  ELSE IF LockDirty THEN lfb_dirty \cup {"stale"} ELSE lfb_dirty

\* grLfbLock.
grLfbLock(t, b) ==
  LET fill == Copying /\ ~Apart(b) /\ "stale" \in Marked(b)
  IN  /\ window
      /\ queued = Drained
      /\ held[t] = "none"
      /\ MayLock(t, b)
      /\ held' = [held EXCEPT ![t] = b]
      /\ grBuffer' = HostNumber(b)
      /\ lfbPtr' = [lfbPtr EXCEPT ![t] = HostNumber(b)]
      /\ lock' = [lock EXCEPT ![t] = TRUE]
      /\ IF fill
         THEN copy' = [copy EXCEPT ![CopyOf(b)] = host[b]] /\ lfb_dirty' = {}
         ELSE copy' = copy /\ lfb_dirty' = Marked(b)
      /\ IF MapBufo /\ ~Apart(b)
         THEN MapPages(t, b)
         ELSE /\ mbufo' = IF lfb_real THEN mbufo ELSE [mbufo EXCEPT ![t] = HostNumber(b)]
              /\ UNCHANGED pages
      /\ looked' = IF Apart(b) THEN "none" ELSE b
      /\ drawn' = FALSE
      /\ UNCHANGED <<window, queued, cfg, host>>

\* grLfbUnlock.
grLfbUnlock(t) ==
  LET b == held[t]
      back == ~lfb_real /\ t = "write" /\ ~Apart(b)
      merge == back /\ lfb_merge /\ b = "back"
  IN  /\ b # "none"
      /\ queued = Drained
      /\ held' = [held EXCEPT ![t] = "none"]
      /\ host' = IF back /\ ~merge THEN vgLfbFlush(CopyOf(b)) ELSE host
      /\ lfb_dirty' = IF merge THEN {"merge"} ELSE IF back THEN {"stale"} ELSE lfb_dirty
      /\ IF MapBufo
         THEN pages' = Unmapped(mbufo, t) /\ mbufo' = [mbufo EXCEPT ![t] = "none"]
         ELSE UNCHANGED <<pages, mbufo>>
      /\ lock' = [lock EXCEPT ![t] = FALSE]
      /\ looked' = IF back /\ ~merge THEN "none" ELSE looked
      /\ UNCHANGED <<window, queued, cfg, copy, grBuffer, lfbPtr, drawn>>

\* grBufferSwap: what is held for writing goes back first, then what waits to
\* be merged; the host keeps the old back buffer or flips.
grBufferSwap ==
  LET flushed == IF lock["write"] /\ grBuffer \in {"front", "back"}
                 THEN vgLfbFlush("colour") ELSE host
      merged == IF "merge" \in lfb_dirty THEN [flushed EXCEPT !["back"] = copy["colour"]]
                ELSE flushed
      shown == IF lfb_real THEN host ELSE merged
  IN  /\ window
      /\ queued = Drained
      /\ MaySwap
      /\ \E old \in {shown["front"], shown["back"]} :
           host' = [shown EXCEPT !["front"] = shown["back"], !["back"] = old]
      /\ lfb_dirty' = IF lfb_real THEN lfb_dirty ELSE {"stale"}
      /\ looked' = "none"
      /\ UNCHANGED <<window, queued, cfg, copy, pages, grBuffer, lfbPtr, lock, mbufo, held,
                     drawn>>

\* A call that draws on b or clears it is queued.
Draw(b, p, v) ==
  /\ window
  /\ MayDraw(b)
  /\ Cardinality(Awaited \cup {<<b, p>>}) <= MaxQueued
  /\ queued' = [queued EXCEPT ![b] = [@ EXCEPT ![p] = v]]
  /\ drawn' = (drawn \/ looked = b)
  /\ UNCHANGED <<window, cfg, host, copy, pages, deviceVars, held, looked>>

\* Buffer b after what waits for it has been drawn.
Carried(b) == [p \in Pixel |-> IF queued[b][p] = NoDraw THEN host[b][p] ELSE queued[b][p]]

\* processFifo: any call that is not queued has the queue carried out first.
processFifo ==
  /\ queued # Drained
  /\ queued' = Drained
  /\ host' = [b \in Buffer |-> Carried(b)]
  /\ UNCHANGED <<window, cfg, copy, pages, deviceVars, held, history>>

\* grLfbWriteRegion.
grLfbWriteRegion(b, p, v) ==
  /\ window
  /\ queued = Drained
  /\ MayWriteRegion(b)
  /\ host' = [host EXCEPT ![b] = [@ EXCEPT ![p] = v]]
  /\ drawn' = (drawn \/ looked = b)
  /\ UNCHANGED <<window, queued, cfg, copy, pages, deviceVars, held, looked>>

\* The application stores v through its lock: where the pointer leads.
Store(p, v) ==
  LET b == held["write"]
  IN  /\ b # "none"
      /\ IF Copying \/ Apart(b)
         THEN copy' = [copy EXCEPT ![CopyOf(b)] = [@ EXCEPT ![p] = v]] /\ host' = host
         ELSE /\ copy' = copy
              /\ host' = IF lfb_real
                         THEN [host EXCEPT ![lfbPtr["write"]] = [@ EXCEPT ![p] = v]]
                         ELSE IF pages[b] = "readwrite"
                         THEN [host EXCEPT ![b] = [@ EXCEPT ![p] = v]]
                         ELSE host
      /\ UNCHANGED <<window, queued, cfg, pages, deviceVars, held, history>>

Next ==
  \/ grGlideInit
  \/ \E c \in Config, v \in Value : grSstWinOpen(c, v)
  \/ grSstWinClose
  \/ grBufferSwap
  \/ \E t \in LockType : grLfbUnlock(t) \/ \E b \in Buffer : grLfbLock(t, b)
  \/ processFifo
  \/ \E p \in Pixel, v \in Value :
       \/ Store(p, v)
       \/ \E b \in Buffer : Draw(b, p, v) \/ grLfbWriteRegion(b, p, v)

Spec == Init /\ [][Next]_vars

---------------------------------------------------------------------------
\* The state has its type.
TypeOK ==
  /\ window \in BOOLEAN
  /\ queued \in [Buffer -> [Pixel -> Value \cup {NoDraw}]]
  /\ cfg \in Config
  /\ host \in [Buffer -> Contents]
  /\ copy \in [Copy -> Contents]
  /\ pages \in [Buffer -> {"none", "readonly", "readwrite"}]
  /\ lfb_dirty \in SUBSET {"stale", "merge"}
  /\ grBuffer \in Buffer \cup {"apart"}
  /\ lfbPtr \in [LockType -> Buffer \cup {"apart", "none"}]
  /\ lock \in [LockType -> BOOLEAN]
  /\ mbufo \in [LockType -> Buffer \cup {"apart", "none"}]
  /\ held \in [LockType -> Buffer \cup {"none"}]
  /\ looked \in Buffer \cup {"none"}
  /\ drawn \in BOOLEAN

\* The contents of a buffer lie in its copy while the application may write
\* there, and while they wait to be merged; else on the host.  What is drawn
\* on it counts from the call.
InCopy(b) ==
  Copying /\ (Holds("write") = b \/ (b = "back" /\ "merge" \in lfb_dirty))

Home == [b \in Buffer |-> IF InCopy(b) THEN copy[CopyOf(b)] ELSE host[b]]

Buf ==
  [b \in Buffer |->
     [p \in Pixel |-> IF queued[b][p] = NoDraw THEN Home[b][p] ELSE queued[b][p]]]
Held == [t \in LockType |-> Holds(t)]

Direct == INSTANCE DirectBuffers WITH buf <- Buf, held <- Held

\* The linear frame buffer behaves as if the application had the host's
\* buffers themselves: no lock or unlock changes a pixel, no store is lost,
\* nothing that was drawn is overwritten, and what it draws and what it stores
\* comes in the order of its calls and accesses.
ActsDirectly == Direct!Spec

\* What the application sees through its lock for reading.
View(b) ==
  IF lfb_real THEN host[lfbPtr["read"]]
  ELSE IF Copying THEN copy[CopyOf(b)]
  ELSE host[b]

\* Through a lock for reading the application sees the pixels the buffer has.
ReadsBuffer ==
  LET b == Holds("read")
  IN  b # "none" =>
        /\ MapBufo => pages[b] # "none"
        /\ View(b) = Buf[b]

(***************************************************************************)
(* Why this holds: the invariant of the proofs.                            *)
(***************************************************************************)

\* The device knows what the application has locked, and where it lies.
LocksKnown ==
  /\ ~window => held = Nothing
  /\ \A t \in LockType :
       /\ lock[t] = (held[t] # "none")
       /\ held[t] # "none" => lfbPtr[t] = HostNumber(held[t])
       /\ Copying /\ held[t] # "none" => grBuffer = HostNumber(held[t])

\* Two locks at a time get on with each other.
LocksAgree ==
  held["read"] # "none" /\ held["write"] # "none" =>
    /\ MapBufo => held["read"] # held["write"]
    /\ Copying => ~LockDirty /\ held["read"] = held["write"]

\* The pages of a locked buffer are in the guest, and can be written if need be.
PagesMapped ==
  MapBufo =>
    \A t \in LockType :
      held[t] # "none" =>
        /\ mbufo[t] = HostNumber(held[t])
        /\ ~Apart(held[t]) =>
             pages[held[t]] = IF t = "write" THEN "readwrite" ELSE "readonly"

\* What waits to be merged is the back buffer's, and nothing else is locked.
MergeWaits ==
  ~lfb_real /\ "merge" \in lfb_dirty =>
    /\ Copying
    /\ lfb_dirty = {"merge"}
    /\ grBuffer = "back"
    /\ \A t \in LockType : held[t] \in {"none", "back"}

\* A copy that the device would not fill again is right, unless the
\* application has drawn since.
CopyFresh ==
  Copying /\ window =>
    /\ Holds("read") # "none" /\ ~InCopy(Holds("read")) =>
         copy[CopyOf(Holds("read"))] = host[Holds("read")]
    /\ ~LockDirty /\ lfb_dirty = {} /\ grBuffer \in Buffer /\ ~InCopy(grBuffer) =>
         looked = grBuffer /\ (drawn \/ copy[CopyOf(grBuffer)] = host[grBuffer])
    /\ ~LockDirty /\ Holds("write") # "none" /\ looked = Holds("write") =>
         "stale" \notin lfb_dirty

\* Draws wait for no buffer that is locked or waits to be merged.
Pending ==
  queued # Drained =>
    /\ window
    /\ \A b \in Buffer, p \in Pixel :
         queued[b][p] # NoDraw => MayDraw(b) /\ (looked = b => drawn)

IInv == TypeOK /\ LocksKnown /\ LocksAgree /\ PagesMapped /\ MergeWaits /\ CopyFresh
        /\ Pending
=============================================================================
