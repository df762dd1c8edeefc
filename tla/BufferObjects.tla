--------------------------- MODULE BufferObjects ---------------------------
(***************************************************************************)
(* Buffer objects that the application maps into its memory.  The host's   *)
(* GL maps them into QEMU; the guest can not see that.  So the device      *)
(* copies: when a buffer is mapped, its contents go into the block fbtm    *)
(* that the guest sees, growing down from the end of the block; when it is *)
(* unmapped, or a range is flushed, they go back.                          *)
(*                                                                         *)
(* The device keeps a record of each mapped buffer (mglmapbo.c).  It does  *)
(* not know which buffer a target is bound to: it takes the buffer bound   *)
(* last, whatever the target, for the one that is mapped or unmapped.      *)
(*                                                                         *)
(* Calls without a result wait in the queue until the next one with a      *)
(* result.  They are steps here when the device carries them out: only a   *)
(* flush would notice the delay, if the application changes what it has    *)
(* flushed meanwhile, and GL leaves undefined what the buffer holds then.  *)
(* The variant that maps host memory into the guest is not modelled.       *)
(*                                                                         *)
(* Sizes are counted in units of 8 bytes, places in fbtm from its end.     *)
(***************************************************************************)
EXTENDS Integers

CONSTANTS
  Target,    \* GL_ARRAY_BUFFER, ..., and "unpack", GL_PIXEL_UNPACK_BUFFER
  Buffer,    \* names of buffer objects
  Size,      \* [Buffer -> Nat \ {0}]: their sizes
  AreaSize,  \* MGLFBT_SIZE
  Access,    \* the kinds of access buffers are mapped for
  Rules      \* what the applications keep to, see below

ASSUME BuffersAreSized ==
  /\ Buffer \subseteq Nat \ {0}
  /\ Size \in [Buffer -> Nat \ {0}]
  /\ AreaSize \in Nat
  /\ Access \subseteq {"read", "write", "readwrite", "explicit"}

(* The rules.  GL imposes none of them.                                    *)
(*   last-bound   a buffer is mapped, flushed and unmapped only while it   *)
(*                is the one bound last, to whatever target                *)
(*   no-transfer  no texture or buffer data is sent while one is mapped    *)
(*   unmap-first  no mapped buffer is deleted                              *)
(*   orphan       a pixel unpack buffer is mapped only with undefined      *)
(*                contents, glBufferData with no data                      *)
ASSUME RulesAreKnown ==
  Rules \subseteq {"last-bound", "no-transfer", "unmap-first", "orphan"}

VARIABLES
  bound,    \* host GL: the buffer bound to each target, or 0
  store,    \* host GL: the contents of each buffer
  mapped,   \* host GL: the buffers it has mapped
  BufIdx,   \* device: the buffer bound last
  bufo,     \* device: the records, by the buffer they are meant for
  szUsedBuf,\* device: how much of fbtm mapped buffers take
  fbtm,     \* the block both sides see
  view,     \* guest: what glMapBuffer returned for each mapped buffer
  want      \* history: the contents a buffer has according to GL

glVars == <<bound, store, mapped>>
deviceVars == <<BufIdx, bufo, szUsedBuf>>
vars == <<glVars, deviceVars, fbtm, view, want>>

\* Contents: of a buffer, before and after the application wrote there; what
\* nobody knows.
Written(b, n) == [of |-> b, gen |-> n]
Junk == [of |-> 0, gen |-> 0]
Values == [of : Buffer \cup {0}, gen : 0..1]

\* ALIGNBO: 16 bytes.
ALIGNBO(n) == n + (n % 2)

NoView == [base |-> 0, off |-> 0, len |-> 0, acc |-> "read"]
NoRecord ==
  [hva |-> 0, off |-> 0, base |-> 0, mused |-> 0, mapsz |-> 0, offst |-> 0,
   range |-> 0, acc |-> "none"]

Contents(b) == 0..(Size[b] - 1)

Init ==
  /\ bound = [t \in Target |-> 0]
  /\ store = [b \in Buffer |-> [k \in Contents(b) |-> Written(b, 0)]]
  /\ want = store
  /\ mapped = {}
  /\ BufIdx = 0
  /\ bufo = [b \in {} |-> NoRecord]
  /\ szUsedBuf = 0
  /\ fbtm = [d \in 1..AreaSize |-> Junk]
  /\ view = [b \in Buffer |-> NoView]

---------------------------------------------------------------------------
\* The records.

\* LookupBufObj: the record of that index, a new one if there is none.
LookupBufObj(idx) == IF idx \in DOMAIN bufo THEN bufo[idx] ELSE NoRecord

Stored(rec) == [i \in DOMAIN bufo \cup {BufIdx} |-> IF i = BufIdx THEN rec ELSE bufo[i]]

\* FreeBufObj.
Freed == [i \in DOMAIN bufo \ {BufIdx} |-> bufo[i]]

\* Mutation of wrFillBufObj: the copy is not aligned.
FillUnaligned(t, b, off, len) ==
  LET base == szUsedBuf + len
  IN  IF t = "unpack" THEN fbtm
      ELSE [d \in DOMAIN fbtm |->
              IF d \in (base - len + 1)..base THEN store[b][off + (base - d)] ELSE fbtm[d]]

\* Mutation of wrFillBufObj: the offset is left out.
FillFromStart(t, b, off, len) ==
  LET base == szUsedBuf + ALIGNBO(len)
  IN  IF t = "unpack" THEN fbtm
      ELSE [d \in DOMAIN fbtm |->
              IF d \in (base - len + 1)..base THEN store[b][base - d] ELSE fbtm[d]]

\* wrFillBufObj: the part of b to be mapped, copied where the guest will see it.
wrFillBufObj(t, b, off, len) ==
  LET base == szUsedBuf + ALIGNBO(len)
  IN  IF t = "unpack" THEN fbtm
      ELSE [d \in DOMAIN fbtm |->
              IF d \in (base - len + 1)..base THEN store[b][off + (base - d)] ELSE fbtm[d]]

\* Mutation of wrFlushBufObj: the copy is taken from where the mapping begins.
FlushFromStart(rec, offst, len) ==
  IF rec.hva \notin mapped THEN store
  ELSE [store EXCEPT ![rec.hva] =
          [k \in Contents(rec.hva) |->
             IF k - rec.off \in offst..(offst + len - 1)
             THEN fbtm[rec.base - (k - rec.off - offst)] ELSE store[rec.hva][k]]]

\* Mutation of wrFlushBufObj: the last unit is missed.
FlushShort(rec, offst, len) ==
  IF rec.hva \notin mapped THEN store
  ELSE [store EXCEPT ![rec.hva] =
          [k \in Contents(rec.hva) |->
             IF k - rec.off \in offst..(offst + len - 2)
             THEN fbtm[rec.base - (k - rec.off)] ELSE store[rec.hva][k]]]

\* wrFlushBufObj: len units from offst on, back to where the record says.
wrFlushBufObj(rec, offst, len) ==
  IF rec.hva \notin mapped THEN store
  ELSE [store EXCEPT ![rec.hva] =
          [k \in Contents(rec.hva) |->
             IF k - rec.off \in offst..(offst + len - 1)
             THEN fbtm[rec.base - (k - rec.off)] ELSE store[rec.hva][k]]]

---------------------------------------------------------------------------
\* The calls.

\* glBindBuffer.
glBindBuffer(t, b) ==
  /\ bound' = [bound EXCEPT ![t] = b]
  /\ BufIdx' = b
  /\ UNCHANGED <<store, mapped, bufo, szUsedBuf, fbtm, view, want>>

\* glBufferData with no data: the old contents are not needed any more.
glBufferData(t) ==
  LET b == bound[t] IN
  /\ b # 0 /\ b \notin mapped
  /\ store' = [store EXCEPT ![b] = [k \in Contents(b) |-> Junk]]
  /\ want' = [want EXCEPT ![b] = [k \in Contents(b) |-> Junk]]
  /\ UNCHANGED <<bound, mapped, deviceVars, fbtm, view>>

Ruled(t) == "last-bound" \in Rules => bound[t] = BufIdx

\* glMapBufferRange, and glMapBuffer with the whole buffer: processArgs fills
\* fbtm and processFRet returns the place.  AreaSize bounds what is mapped.
glMapBufferRange(t, off, len, acc) ==
  LET b    == bound[t]
      base == szUsedBuf + ALIGNBO(len)
  IN
  /\ b # 0 /\ b \notin mapped
  /\ off + len <= Size[b] /\ base <= AreaSize
  /\ Ruled(t)
  /\ "orphan" \in Rules /\ t = "unpack" => want[b] = [k \in Contents(b) |-> Junk]
  /\ fbtm' = wrFillBufObj(t, b, off, len)
  /\ mapped' = mapped \cup {b}
  /\ bufo' = Stored([hva |-> b, off |-> off, base |-> base, mused |-> szUsedBuf,
                     mapsz |-> len, offst |-> 0, range |-> len, acc |-> acc])
  /\ szUsedBuf' = base
  /\ view' = [view EXCEPT ![b] = [base |-> base, off |-> off, len |-> len, acc |-> acc]]
  /\ UNCHANGED <<bound, store, BufIdx, want>>

\* glFlushMappedBufferRange, of a range of what was mapped for it.
glFlushMappedBufferRange(t, offst, len) ==
  LET b   == bound[t]
      rec == LookupBufObj(BufIdx)
  IN
  /\ b \in mapped /\ view[b].acc = "explicit" /\ offst + len <= view[b].len
  /\ Ruled(t)
  /\ store' = wrFlushBufObj(rec, offst, len)
  /\ bufo' = Stored([rec EXCEPT !.offst = offst, !.range = len])
  /\ want' = [want EXCEPT ![b] =
               [k \in Contents(b) |-> IF k - view[b].off \in offst..(offst + len - 1)
                                      THEN fbtm[view[b].base - (k - view[b].off)] ELSE @[k]]]
  /\ UNCHANGED <<bound, mapped, BufIdx, szUsedBuf, fbtm, view>>

\* Mutation of glUnmapBuffer: a buffer mapped for reading and writing is not
\* copied back.
UnmapReadWriteKept(t) ==
  LET b   == bound[t]
      rec == LookupBufObj(BufIdx)
      len == IF rec.range # 0 THEN rec.range ELSE rec.mapsz - rec.offst
  IN
  /\ b \in mapped
  /\ Ruled(t)
  /\ store' = IF rec.acc = "write" THEN wrFlushBufObj(rec, rec.offst, len) ELSE store
  /\ mapped' = mapped \ {b}
  /\ bufo' = Freed
  /\ szUsedBuf' = IF DOMAIN bufo' = {} THEN 0
                  ELSE IF szUsedBuf = rec.mused + ALIGNBO(rec.mapsz)
                  THEN szUsedBuf - ALIGNBO(rec.mapsz) ELSE szUsedBuf
  /\ view' = [view EXCEPT ![b] = NoView]
  /\ UNCHANGED <<bound, BufIdx, fbtm, want>>

\* Mutation of glUnmapBuffer: all of it is given back, whatever is above.
UnmapTakesTop(t) ==
  LET b   == bound[t]
      rec == LookupBufObj(BufIdx)
      len == IF rec.range # 0 THEN rec.range ELSE rec.mapsz - rec.offst
  IN
  /\ b \in mapped
  /\ Ruled(t)
  /\ store' = IF rec.acc \in {"write", "readwrite"}
              THEN wrFlushBufObj(rec, rec.offst, len) ELSE store
  /\ mapped' = mapped \ {b}
  /\ bufo' = Freed
  /\ szUsedBuf' = IF DOMAIN bufo' = {} THEN 0 ELSE szUsedBuf - ALIGNBO(rec.mapsz)
  /\ view' = [view EXCEPT ![b] = NoView]
  /\ UNCHANGED <<bound, BufIdx, fbtm, want>>

\* Mutation of glUnmapBuffer: what was taken is not given back.
UnmapKeepsRoom(t) ==
  LET b   == bound[t]
      rec == LookupBufObj(BufIdx)
      len == IF rec.range # 0 THEN rec.range ELSE rec.mapsz - rec.offst
  IN
  /\ b \in mapped
  /\ Ruled(t)
  /\ store' = IF rec.acc \in {"write", "readwrite"}
              THEN wrFlushBufObj(rec, rec.offst, len) ELSE store
  /\ mapped' = mapped \ {b}
  /\ bufo' = Freed
  /\ view' = [view EXCEPT ![b] = NoView]
  /\ UNCHANGED <<bound, BufIdx, szUsedBuf, fbtm, want>>

\* glUnmapBuffer: processArgs copies back, unless the application flushes
\* itself; processFRet gives the room back if it is the lowest, and all of it
\* when no record is left.
glUnmapBuffer(t) ==
  LET b   == bound[t]
      rec == LookupBufObj(BufIdx)
      len == IF rec.range # 0 THEN rec.range ELSE rec.mapsz - rec.offst
  IN
  /\ b \in mapped
  /\ Ruled(t)
  /\ store' = IF rec.acc \in {"write", "readwrite"}
              THEN wrFlushBufObj(rec, rec.offst, len) ELSE store
  /\ mapped' = mapped \ {b}
  /\ bufo' = Freed
  /\ szUsedBuf' = IF DOMAIN bufo' = {} THEN 0
                  ELSE IF szUsedBuf = rec.mused + ALIGNBO(rec.mapsz)
                  THEN szUsedBuf - ALIGNBO(rec.mapsz) ELSE szUsedBuf
  /\ view' = [view EXCEPT ![b] = NoView]
  /\ UNCHANGED <<bound, BufIdx, fbtm, want>>

\* Mutation of glDeleteBuffers: the room of a deleted buffer is given back,
\* whether it took any or not.
DeleteGivesRoom(b) ==
  /\ "unmap-first" \in Rules => b \notin mapped
  /\ bound' = [t \in Target |-> IF bound[t] = b THEN 0 ELSE bound[t]]
  /\ mapped' = mapped \ {b}
  /\ store' = [store EXCEPT ![b] = [k \in Contents(b) |-> Junk]]
  /\ want' = [want EXCEPT ![b] = [k \in Contents(b) |-> Junk]]
  /\ view' = [view EXCEPT ![b] = NoView]
  /\ szUsedBuf' = szUsedBuf - ALIGNBO(Size[b])
  /\ UNCHANGED <<BufIdx, bufo, fbtm>>

\* glDeleteBuffers: GL unmaps and unbinds the buffer; the device forgets the
\* bindings but keeps its record.
glDeleteBuffers(b) ==
  /\ "unmap-first" \in Rules => b \notin mapped
  /\ bound' = [t \in Target |-> IF bound[t] = b THEN 0 ELSE bound[t]]
  /\ mapped' = mapped \ {b}
  /\ store' = [store EXCEPT ![b] = [k \in Contents(b) |-> Junk]]
  /\ want' = [want EXCEPT ![b] = [k \in Contents(b) |-> Junk]]
  /\ view' = [view EXCEPT ![b] = NoView]
  /\ UNCHANGED <<deviceVars, fbtm>>

\* glTexImage2D, glBufferData and the like: their data goes through the end of
\* fbtm, too.
Transfer(len) ==
  /\ "no-transfer" \in Rules => mapped = {}
  /\ fbtm' = [d \in DOMAIN fbtm |-> IF d <= len THEN Junk ELSE fbtm[d]]
  /\ UNCHANGED <<glVars, deviceVars, view, want>>

\* ContextCreateCommon: a new context, with buffers of its own.
ContextCreate ==
  /\ bound' = [t \in Target |-> 0]
  /\ mapped' = {}
  /\ store' = [b \in Buffer |-> [k \in Contents(b) |-> Junk]]
  /\ want' = store'
  /\ view' = [b \in Buffer |-> NoView]
  /\ bufo' = [b \in {} |-> NoRecord]
  /\ szUsedBuf' = 0
  /\ UNCHANGED <<BufIdx, fbtm>>

\* The application writes one unit of what it has mapped.
Store(b, k, n) ==
  /\ b \in mapped /\ view[b].acc # "read"
  /\ k \in view[b].off..(view[b].off + view[b].len - 1)
  /\ fbtm' = [fbtm EXCEPT ![view[b].base - (k - view[b].off)] = Written(b, n)]
  /\ want' = [want EXCEPT ![b][k] = IF view[b].acc = "explicit" THEN Junk ELSE Written(b, n)]
  /\ UNCHANGED <<glVars, deviceVars, view>>

Units == 1..AreaSize

Next ==
  \/ \E t \in Target :
       \/ \E b \in Buffer \cup {0} : glBindBuffer(t, b)
       \/ glBufferData(t)
       \/ glUnmapBuffer(t)
       \/ \E off \in 0..AreaSize, len \in Units :
            \/ \E acc \in Access : glMapBufferRange(t, off, len, acc)
            \/ glFlushMappedBufferRange(t, off, len)
  \/ \E b \in Buffer :
       \/ glDeleteBuffers(b)
       \/ \E k \in Contents(b), n \in 0..1 : Store(b, k, n)
  \/ \E len \in Units : Transfer(len)
  \/ ContextCreate

Spec == Init /\ [][Next]_vars

---------------------------------------------------------------------------
\* Properties.

Views == [base : 0..AreaSize, off : Nat, len : Nat, acc : Access \cup {"read"}]
Records ==
  [hva : Buffer \cup {0}, off : Nat, base : Nat, mused : Nat, mapsz : Nat,
   offst : Nat, range : Nat, acc : Access \cup {"none"}]

\* Each side's state keeps its type; the room taken never exceeds the block.
TypeOK ==
  /\ bound \in [Target -> Buffer \cup {0}]
  /\ mapped \subseteq Buffer
  /\ BufIdx \in Buffer \cup {0}
  /\ DOMAIN bufo \subseteq Buffer \cup {0}
  /\ bufo \in [DOMAIN bufo -> Records]
  /\ szUsedBuf \in 0..AreaSize
  /\ fbtm \in [1..AreaSize -> Values]
  /\ view \in [Buffer -> Views]
  /\ DOMAIN store = Buffer /\ DOMAIN want = Buffer
  /\ \A b \in Buffer : store[b] \in [Contents(b) -> Values] /\ want[b] \in [Contents(b) -> Values]

\* Where the guest sees unit k of mapped buffer b.
PlaceOf(b, k) == view[b].base - (k - view[b].off)
ViewOf(b) == view[b].off..(view[b].off + view[b].len - 1)

\* No matter in which order buffers are mapped and unmapped, two mapped ones
\* never share memory.
ViewsDisjoint ==
  \A b, c \in mapped : b # c =>
    view[b].base <= view[c].base - ALIGNBO(view[c].len)
      \/ view[c].base <= view[b].base - ALIGNBO(view[b].len)

\* The guest sees in a mapped buffer what GL would show it.
GuestSeesContents ==
  \A b \in mapped : \A k \in ViewOf(b) : want[b][k] # Junk => fbtm[PlaceOf(b, k)] = want[b][k]

\* What the application wrote into a buffer is there, in the host's buffer,
\* when it has been unmapped, and so is what it left alone.
HostHasWrites ==
  \A b \in Buffer \ mapped : \A k \in Contents(b) : want[b][k] # Junk => store[b][k] = want[b][k]

\* A range that is flushed is in the host's buffer as the application has it.
FlushReachesHost ==
  [][\A t \in Target, off \in 0..AreaSize, len \in Units :
       glFlushMappedBufferRange(t, off, len) =>
         \A k \in ViewOf(bound[t]) : k - view[bound[t]].off \in off..(off + len - 1) =>
           store'[bound[t]][k] = fbtm[PlaceOf(bound[t], k)]]_vars

\* A buffer is mapped with a record that serves no other mapped buffer, which
\* mesapt_mm.c:1921 watches for: "*WARN* GL buffer object contention".
NoContention ==
  [][\A b \in mapped' \ mapped : bufo'[BufIdx].hva = b =>
       LookupBufObj(BufIdx).hva \notin mapped]_vars

\* The device knows exactly the buffers that are mapped, and when none is, all
\* the room is free again.
NothingLeftOver == DOMAIN bufo = mapped /\ (mapped = {} => szUsedBuf = 0)

---------------------------------------------------------------------------
\* The inductive invariant behind them, while the applications keep the rules.

Kept == {"last-bound", "no-transfer", "unmap-first", "orphan"} \subseteq Rules

\* Those that the records and the room depend on.
UsedInTurn == {"last-bound", "unmap-first"} \subseteq Rules

\* The record of a mapped buffer is its own, and says what the guest was told.
Recorded(b) ==
  /\ bufo[b].hva = b
  /\ bufo[b].off = view[b].off
  /\ bufo[b].base = view[b].base
  /\ bufo[b].mapsz = view[b].len
  /\ bufo[b].acc = view[b].acc
  /\ bufo[b].mused + ALIGNBO(view[b].len) = view[b].base
  /\ view[b].acc # "explicit" => bufo[b].offst = 0 /\ bufo[b].range = view[b].len

\* What is mapped is part of the buffer and lies in the room taken.
ViewFits(b) ==
  /\ view[b].len >= 1 /\ view[b].off + view[b].len <= Size[b]
  /\ view[b].base <= szUsedBuf

\* Outside of what the application can write through a mapping, the host's
\* buffer is what it should be.
StoreAgrees ==
  \A b \in Buffer : \A k \in Contents(b) :
    want[b][k] # Junk /\ (b \in mapped /\ k \in ViewOf(b) => view[b].acc \in {"read", "explicit"})
      => store[b][k] = want[b][k]

\* The records, the views and the room taken.
RoomInv ==
  /\ TypeOK
  /\ \A b \in mapped : Recorded(b) /\ ViewFits(b)
  /\ NothingLeftOver
  /\ ViewsDisjoint

\* All that holds at every step, for every number of buffers and every size.
IInv == RoomInv /\ GuestSeesContents /\ StoreAgrees
=============================================================================
