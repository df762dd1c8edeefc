----------------------- MODULE BufferObjects_proofs -----------------------
(***************************************************************************)
(* Proofs about BufferObjects: while the applications keep the rules, and  *)
(* whatever the buffers and their sizes are, IInv holds at every step.     *)
(* The lemmas before the theorem say which places of fbtm a mapping takes; *)
(* then there is one lemma for each action.                                *)
(***************************************************************************)
EXTENDS BufferObjects, TLAPS

\* Aligning a size leaves it a size that is no smaller.
LEMMA Aligned ==
  ASSUME NEW n \in Nat
  PROVE  ALIGNBO(n) \in Nat /\ ALIGNBO(n) >= n
BY DEF ALIGNBO

\* A view is as its type says.
LEMMA ViewTyped ==
  ASSUME TypeOK, NEW b \in Buffer
  PROVE  /\ view[b].base \in 0..AreaSize /\ view[b].off \in Nat /\ view[b].len \in Nat
         /\ view[b].acc \in {"read", "write", "readwrite", "explicit"}
         /\ Size[b] \in Nat \ {0}
<1>1. view[b] \in Views
  BY DEF TypeOK
<1>2. Access \subseteq {"read", "write", "readwrite", "explicit"}
  BY BuffersAreSized
<1> QED
  BY <1>1, <1>2, BuffersAreSized DEF Views

\* Where the guest sees a unit of a mapped buffer: in the room taken, above
\* the view's end.
LEMMA Places ==
  ASSUME RoomInv, NEW b \in mapped, NEW k \in ViewOf(b)
  PROVE  /\ b \in Buffer
         /\ k \in Contents(b)
         /\ PlaceOf(b, k) \in Int
         /\ PlaceOf(b, k) <= view[b].base /\ PlaceOf(b, k) > view[b].base - view[b].len
         /\ PlaceOf(b, k) \in 1..szUsedBuf
         /\ PlaceOf(b, k) \in 1..AreaSize
<1>1. b \in Buffer /\ TypeOK
  BY DEF RoomInv, TypeOK
<1>2. /\ view[b].base \in 0..AreaSize /\ view[b].off \in Nat /\ view[b].len \in Nat
      /\ Size[b] \in Nat \ {0}
  BY <1>1, ViewTyped
<1>3. bufo[b].mused \in Nat
  <2>1. b \in DOMAIN bufo
    BY DEF RoomInv, NothingLeftOver
  <2> QED
    BY <1>1, <2>1 DEF TypeOK, Records
<1>4. view[b].len >= 1 /\ view[b].off + view[b].len <= Size[b] /\ view[b].base <= szUsedBuf
  BY DEF RoomInv, ViewFits
<1>5. bufo[b].mused + ALIGNBO(view[b].len) = view[b].base
  BY DEF RoomInv, Recorded
<1>6. ALIGNBO(view[b].len) \in Nat /\ ALIGNBO(view[b].len) >= view[b].len
  BY <1>2, Aligned
<1>7. szUsedBuf \in 0..AreaSize /\ AreaSize \in Nat
  BY <1>1, BuffersAreSized DEF TypeOK
<1> QED
  BY <1>1, <1>2, <1>3, <1>4, <1>5, <1>6, <1>7 DEF ViewOf, PlaceOf, Contents

\* Two mapped buffers have no place in common.
LEMMA PlacesApart ==
  ASSUME RoomInv, NEW b \in mapped, NEW c \in mapped, b # c,
         NEW k \in ViewOf(b), NEW j \in ViewOf(c)
  PROVE  PlaceOf(b, k) # PlaceOf(c, j)
<1>1. /\ view[b].base <= view[c].base - ALIGNBO(view[c].len)
         \/ view[c].base <= view[b].base - ALIGNBO(view[b].len)
  BY DEF RoomInv, ViewsDisjoint
<1>2. b \in Buffer /\ c \in Buffer /\ TypeOK
  BY DEF RoomInv, TypeOK
<1>3. view[b].len \in Nat /\ view[c].len \in Nat /\ view[b].base \in Int /\ view[c].base \in Int
  BY <1>2, ViewTyped
<1>4. /\ ALIGNBO(view[b].len) \in Nat /\ ALIGNBO(view[b].len) >= view[b].len
      /\ ALIGNBO(view[c].len) \in Nat /\ ALIGNBO(view[c].len) >= view[c].len
  BY <1>3, Aligned
<1>5. /\ PlaceOf(b, k) \in Int
      /\ PlaceOf(b, k) <= view[b].base /\ PlaceOf(b, k) > view[b].base - view[b].len
  BY Places
<1>6. /\ PlaceOf(c, j) \in Int
      /\ PlaceOf(c, j) <= view[c].base /\ PlaceOf(c, j) > view[c].base - view[c].len
  BY Places
<1> QED
  BY <1>1, <1>3, <1>4, <1>5, <1>6

\* At the start nothing is mapped.
LEMMA InitIInv == Init => IInv
<1> SUFFICES ASSUME Init PROVE IInv
  OBVIOUS
<1>1. mapped = {} /\ DOMAIN bufo = {} /\ szUsedBuf = 0
  BY DEF Init
<1>2. \A b \in Buffer : \A k \in Contents(b) : Written(b, 0) \in Values /\ Written(b, 0) # Junk
  BY BuffersAreSized DEF Written, Values, Junk
<1>3. Junk \in Values
  BY DEF Junk, Values
<1>4. TypeOK
  BY <1>1, <1>2, <1>3, BuffersAreSized DEF Init, TypeOK, Views, NoView
<1>5. StoreAgrees
  BY <1>1 DEF Init, StoreAgrees
<1> QED
  BY <1>1, <1>4, <1>5 DEF IInv, RoomInv, NothingLeftOver, ViewsDisjoint, GuestSeesContents

\* Binding changes no buffer and no mapping.
LEMMA BindIInv ==
  ASSUME RoomInv, NEW t \in Target, NEW b \in Buffer \cup {0}, glBindBuffer(t, b)
  PROVE  RoomInv' /\ (IInv /\ Kept => IInv')
<1>1. TypeOK'
  BY DEF RoomInv, TypeOK, glBindBuffer
<1> QED
  BY <1>1 DEF glBindBuffer, IInv, RoomInv, Recorded, ViewFits, NothingLeftOver, ViewsDisjoint,
              GuestSeesContents, StoreAgrees, ViewOf, PlaceOf, Contents

\* Discarding the contents of a buffer that is not mapped leaves nothing to
\* agree on.
LEMMA BufferDataIInv ==
  ASSUME RoomInv, NEW t \in Target, glBufferData(t)
  PROVE  RoomInv' /\ (IInv /\ Kept => IInv')
<1> DEFINE b == bound[t]
<1>1. b \in Buffer /\ b \notin mapped /\ TypeOK
  BY DEF glBufferData, RoomInv, TypeOK
<1>2. Junk \in Values
  BY DEF Junk, Values
<1>3. /\ DOMAIN store' = Buffer /\ DOMAIN want' = Buffer
      /\ want'[b] = [k \in Contents(b) |-> Junk] /\ store'[b] = [k \in Contents(b) |-> Junk]
      /\ \A c \in Buffer : c # b => want'[c] = want[c] /\ store'[c] = store[c]
  BY <1>1 DEF glBufferData, TypeOK
<1>4. UNCHANGED <<bound, mapped, deviceVars, fbtm, view>>
  BY DEF glBufferData
<1>5. \A c \in Buffer :
        /\ store'[c] \in [Contents(c) -> Values]
        /\ want'[c] \in [Contents(c) -> Values]
  BY <1>1, <1>2, <1>3 DEF TypeOK
<1>6. TypeOK'
  BY <1>1, <1>3, <1>4, <1>5 DEF TypeOK, deviceVars, Contents
<1>7. (\A c \in mapped : Recorded(c) /\ ViewFits(c))' /\ NothingLeftOver' /\ ViewsDisjoint'
  BY <1>4 DEF RoomInv, Recorded, ViewFits, NothingLeftOver, ViewsDisjoint, deviceVars
<1>8. ASSUME IInv PROVE GuestSeesContents'
  <2>1. \A c \in mapped : c \in Buffer /\ want'[c] = want[c]
    BY <1>1, <1>3 DEF TypeOK
  <2> QED
    BY <1>8, <1>4, <2>1 DEF IInv, GuestSeesContents, ViewOf, PlaceOf
<1>9. ASSUME IInv PROVE StoreAgrees'
  <2> SUFFICES ASSUME NEW c \in Buffer, NEW k \in Contents(c), want'[c][k] # Junk,
                      c \in mapped /\ k \in ViewOf(c) => view[c].acc \in {"read", "explicit"}
               PROVE  store'[c][k] = want'[c][k]
    BY <1>4 DEF StoreAgrees, ViewOf, Contents
  <2>1. c # b
    BY <1>3
  <2> QED
    BY <1>9, <1>3, <2>1 DEF IInv, StoreAgrees
<1> QED
  BY <1>6, <1>7, <1>8, <1>9 DEF IInv, RoomInv

\* Deleting a buffer that is not mapped is like discarding its contents.
LEMMA DeleteIInv ==
  ASSUME RoomInv, UsedInTurn, NEW b \in Buffer, glDeleteBuffers(b)
  PROVE  RoomInv' /\ (IInv /\ Kept => IInv')
<1>1. b \notin mapped /\ TypeOK
  BY DEF glDeleteBuffers, RoomInv, UsedInTurn
<1>2. Junk \in Values
  BY DEF Junk, Values
<1>3. /\ DOMAIN store' = Buffer /\ DOMAIN want' = Buffer
      /\ want'[b] = [k \in Contents(b) |-> Junk] /\ store'[b] = [k \in Contents(b) |-> Junk]
      /\ \A c \in Buffer : c # b => want'[c] = want[c] /\ store'[c] = store[c]
  BY <1>1 DEF glDeleteBuffers, TypeOK
<1>4. mapped' = mapped /\ UNCHANGED <<deviceVars, fbtm>>
  BY <1>1 DEF glDeleteBuffers
<1>5. /\ view' \in [Buffer -> Views]
      /\ \A c \in mapped : view'[c] = view[c]
  <2>1. NoView \in Views
    BY BuffersAreSized DEF NoView, Views
  <2> QED
    BY <1>1, <2>1 DEF glDeleteBuffers, TypeOK
<1>6. \A c \in Buffer :
        /\ store'[c] \in [Contents(c) -> Values]
        /\ want'[c] \in [Contents(c) -> Values]
  BY <1>1, <1>2, <1>3 DEF TypeOK
<1>7. bound' \in [Target -> Buffer \cup {0}]
  BY <1>1 DEF glDeleteBuffers, TypeOK
<1>8. TypeOK'
  BY <1>1, <1>3, <1>4, <1>5, <1>6, <1>7 DEF TypeOK, deviceVars, Contents
<1>9. (\A c \in mapped : Recorded(c) /\ ViewFits(c))' /\ NothingLeftOver' /\ ViewsDisjoint'
  BY <1>4, <1>5 DEF RoomInv, Recorded, ViewFits, NothingLeftOver, ViewsDisjoint, deviceVars
<1>10. ASSUME IInv PROVE GuestSeesContents'
  <2>1. \A c \in mapped : c \in Buffer /\ want'[c] = want[c]
    BY <1>1, <1>3 DEF TypeOK
  <2> QED
    BY <1>10, <1>4, <1>5, <2>1 DEF IInv, GuestSeesContents, ViewOf, PlaceOf
<1>11. ASSUME IInv PROVE StoreAgrees'
  <2> SUFFICES ASSUME NEW c \in Buffer, NEW k \in Contents(c), want'[c][k] # Junk,
                      c \in mapped /\ k \in ViewOf(c)' => view'[c].acc \in {"read", "explicit"}
               PROVE  store'[c][k] = want'[c][k]
    BY <1>4 DEF StoreAgrees, Contents
  <2>1. c # b
    BY <1>3
  <2>2. c \in mapped /\ k \in ViewOf(c) => view[c].acc \in {"read", "explicit"}
    BY <1>5 DEF ViewOf
  <2> QED
    BY <1>11, <1>3, <2>1, <2>2 DEF IInv, StoreAgrees
<1> QED
  BY <1>8, <1>9, <1>10, <1>11 DEF IInv, RoomInv

\* Data are sent only while nothing is mapped.
LEMMA TransferIInv ==
  ASSUME RoomInv, NEW len \in Units, Transfer(len)
  PROVE  RoomInv' /\ (IInv /\ Kept => IInv')
<1>1. UNCHANGED <<glVars, deviceVars, view, want>> /\ (Kept => mapped = {})
  BY DEF Transfer, Kept
<1>2. fbtm' \in [1..AreaSize -> Values]
  <2>1. Junk \in Values
    BY DEF Junk, Values
  <2> QED
    BY <2>1 DEF Transfer, RoomInv, TypeOK
<1>3. TypeOK'
  BY <1>1, <1>2 DEF RoomInv, TypeOK, glVars, deviceVars, Contents
<1>4. RoomInv'
  BY <1>1, <1>3 DEF RoomInv, Recorded, ViewFits, NothingLeftOver, ViewsDisjoint, glVars, deviceVars
<1>5. ASSUME IInv, Kept PROVE GuestSeesContents' /\ StoreAgrees'
  BY <1>1, <1>5 DEF IInv, GuestSeesContents, StoreAgrees, ViewOf, Contents, glVars
<1> QED
  BY <1>4, <1>5 DEF IInv

\* A new context begins with nothing mapped.
LEMMA ContextIInv ==
  ASSUME RoomInv, ContextCreate
  PROVE  RoomInv' /\ (IInv /\ Kept => IInv')
<1>1. mapped' = {} /\ DOMAIN bufo' = {} /\ szUsedBuf' = 0 /\ BufIdx' = BufIdx /\ fbtm' = fbtm
  BY DEF ContextCreate
<1>2. Junk \in Values
  BY DEF Junk, Values
<1>3. /\ \A b \in Buffer : store'[b] = [k \in Contents(b) |-> Junk]
      /\ \A b \in Buffer : want'[b] = [k \in Contents(b) |-> Junk]
      /\ DOMAIN store' = Buffer /\ DOMAIN want' = Buffer
  BY DEF ContextCreate
<1>4. \A b \in Buffer :
        /\ store'[b] \in [Contents(b) -> Values]
        /\ want'[b] \in [Contents(b) -> Values]
  BY <1>2, <1>3
<1>5. view' \in [Buffer -> Views] /\ bound' \in [Target -> Buffer \cup {0}]
  BY BuffersAreSized DEF ContextCreate, Views, NoView
<1>6. bufo' \in [DOMAIN bufo' -> Records]
  BY DEF ContextCreate
<1>7. TypeOK'
  BY <1>1, <1>3, <1>4, <1>5, <1>6, BuffersAreSized DEF RoomInv, TypeOK, Contents
<1>8. ASSUME IInv PROVE StoreAgrees'
  BY <1>3 DEF StoreAgrees, Contents
<1> QED
  BY <1>1, <1>7, <1>8 DEF IInv, RoomInv, NothingLeftOver, ViewsDisjoint, GuestSeesContents

\* A buffer is mapped below all that is mapped, and its contents are copied to
\* that place and to no other.
LEMMA MapIInv ==
  ASSUME RoomInv, UsedInTurn, NEW t \in Target, NEW off \in 0..AreaSize, NEW len \in Units,
         NEW acc \in Access, glMapBufferRange(t, off, len, acc)
  PROVE  RoomInv' /\ (IInv /\ Kept => IInv')
<1> DEFINE b == bound[t]
           base == szUsedBuf + ALIGNBO(len)
           rec == [hva |-> b, off |-> off, base |-> base, mused |-> szUsedBuf,
                   mapsz |-> len, offst |-> 0, range |-> len, acc |-> acc]
           vw == [base |-> base, off |-> off, len |-> len, acc |-> acc]
<1>1. /\ TypeOK /\ b \in Buffer /\ b \notin mapped /\ BufIdx = b
      /\ off + len <= Size[b] /\ base <= AreaSize
  BY DEF RoomInv, TypeOK, glMapBufferRange, Ruled, UsedInTurn
<1>2. /\ AreaSize \in Nat /\ szUsedBuf \in 0..AreaSize /\ off \in Nat /\ len \in Nat \ {0}
      /\ ALIGNBO(len) \in Nat /\ ALIGNBO(len) >= len /\ base \in 0..AreaSize
      /\ Size[b] \in Nat \ {0}
  <2>1. AreaSize \in Nat /\ szUsedBuf \in 0..AreaSize /\ Size[b] \in Nat \ {0}
    BY <1>1, BuffersAreSized DEF TypeOK
  <2>2. off \in Nat /\ len \in Nat \ {0}
    BY <2>1 DEF Units
  <2>3. ALIGNBO(len) \in Nat /\ ALIGNBO(len) >= len
    BY <2>2, Aligned
  <2> QED
    BY <1>1, <2>1, <2>2, <2>3
<1>3. /\ mapped' = mapped \cup {b} /\ szUsedBuf' = base
      /\ UNCHANGED <<bound, store, BufIdx, want>>
  BY DEF glMapBufferRange
<1>4. DOMAIN bufo' = mapped' /\ bufo'[b] = rec /\ \A c \in mapped : bufo'[c] = bufo[c]
  <2>1. DOMAIN bufo = mapped
    BY DEF RoomInv, NothingLeftOver
  <2>2. bufo' = Stored(rec)
    BY DEF glMapBufferRange
  <2> QED
    BY <1>1, <1>3, <2>1, <2>2 DEF Stored
<1>5. view'[b] = vw /\ \A c \in Buffer : c # b => view'[c] = view[c]
  BY <1>1 DEF glMapBufferRange, TypeOK
<1>6. fbtm' \in [1..AreaSize -> Values]
  <2>1. \A d \in (base - len + 1)..base : off + (base - d) \in Contents(b)
    BY <1>1, <1>2 DEF Contents
  <2>2. \A k \in Contents(b) : store[b][k] \in Values
    BY <1>1 DEF TypeOK
  <2> QED
    BY <1>1, <2>1, <2>2 DEF glMapBufferRange, wrFillBufObj, TypeOK
<1>7. \A d \in 1..szUsedBuf : fbtm'[d] = fbtm[d]
  <2>1. \A d \in 1..szUsedBuf : d \in DOMAIN fbtm /\ d \notin (base - len + 1)..base
    BY <1>1, <1>2 DEF TypeOK
  <2> QED
    BY <2>1 DEF glMapBufferRange, wrFillBufObj
<1>8. t # "unpack" => \A k \in off..(off + len - 1) : fbtm'[base - (k - off)] = store[b][k]
  <2> SUFFICES ASSUME t # "unpack", NEW k \in off..(off + len - 1)
               PROVE  fbtm'[base - (k - off)] = store[b][k]
    OBVIOUS
  <2>1. /\ base - (k - off) \in (base - len + 1)..base
        /\ base - (k - off) \in DOMAIN fbtm
        /\ off + (base - (base - (k - off))) = k
    <3>1. DOMAIN fbtm = 1..AreaSize
      BY <1>1 DEF TypeOK
    <3>2. base \in Nat /\ szUsedBuf \in Nat /\ base >= len /\ base <= AreaSize
      BY <1>2
    <3> HIDE DEF base
    <3> QED
      BY <1>2, <3>1, <3>2
  <2> QED
    BY <2>1 DEF glMapBufferRange, wrFillBufObj
<1>9. Kept /\ t = "unpack" => \A k \in Contents(b) : want[b][k] = Junk
  BY DEF glMapBufferRange, Kept
<1>10. TypeOK'
  <2>1. rec \in Records /\ vw \in Views
    BY <1>1, <1>2 DEF Records, Views
  <2>2. bufo' \in [DOMAIN bufo' -> Records] /\ DOMAIN bufo' \subseteq Buffer \cup {0}
    <3>1. bufo' = [i \in DOMAIN bufo' |-> bufo'[i]]
      BY DEF glMapBufferRange, Stored
    <3>2. DOMAIN bufo = mapped
      BY DEF RoomInv, NothingLeftOver
    <3> QED
      BY <1>1, <1>3, <1>4, <2>1, <3>1, <3>2 DEF TypeOK
  <2>3. view' \in [Buffer -> Views]
    BY <1>1, <2>1 DEF glMapBufferRange, TypeOK
  <2> QED
    BY <1>1, <1>2, <1>3, <1>6, <2>2, <2>3 DEF TypeOK, Contents
<1>11. (\A c \in mapped : Recorded(c) /\ ViewFits(c))'
  <2>1. bufo'[b].mused + ALIGNBO(view'[b].len) = view'[b].base
    BY <1>4, <1>5
  <2>2. Recorded(b)' /\ ViewFits(b)'
    BY <1>1, <1>2, <1>3, <1>4, <1>5, <2>1 DEF Recorded, ViewFits
  <2>3. ASSUME NEW c \in mapped PROVE Recorded(c)' /\ ViewFits(c)'
    <3>1. c \in Buffer /\ c # b
      BY <1>1 DEF TypeOK
    <3>2. view'[c] = view[c] /\ bufo'[c] = bufo[c]
      BY <1>4, <1>5, <3>1
    <3>3. view[c].base \in Nat /\ view[c].base <= szUsedBuf
      BY <1>1, <3>1, ViewTyped DEF RoomInv, ViewFits
    <3> QED
      BY <1>2, <1>3, <3>2, <3>3 DEF RoomInv, Recorded, ViewFits
  <2> QED
    BY <1>3, <2>2, <2>3
<1>12. NothingLeftOver'
  BY <1>3, <1>4 DEF NothingLeftOver
<1>13. ViewsDisjoint'
  <2>1. \A c \in mapped : view'[c] = view[c] /\ view[c].base <= view'[b].base - ALIGNBO(view'[b].len)
    <3> SUFFICES ASSUME NEW c \in mapped
                 PROVE  view'[c] = view[c] /\ view[c].base <= base - ALIGNBO(len)
      BY <1>5
    <3>1. c \in Buffer /\ c # b
      BY <1>1 DEF TypeOK
    <3>2. view[c].base \in Nat /\ view[c].base <= szUsedBuf
      BY <1>1, <3>1, ViewTyped DEF RoomInv, ViewFits
    <3> QED
      BY <1>2, <1>5, <3>1, <3>2
  <2> QED
    BY <1>3, <2>1 DEF RoomInv, ViewsDisjoint
<1>14. ASSUME IInv, Kept PROVE GuestSeesContents'
  <2>1. ASSUME NEW c \in mapped, NEW k \in ViewOf(c), want[c][k] # Junk
        PROVE  fbtm'[PlaceOf(c, k)] = want[c][k]
    <3>1. PlaceOf(c, k) \in 1..szUsedBuf
      BY Places
    <3> QED
      BY <1>14, <1>7, <2>1, <3>1 DEF IInv, GuestSeesContents
  <2>2. ASSUME NEW k \in off..(off + len - 1), want[b][k] # Junk
        PROVE  fbtm'[base - (k - off)] = want[b][k]
    <3>1. k \in Contents(b)
      BY <1>1, <1>2 DEF Contents
    <3>2. t # "unpack"
      BY <1>9, <1>14, <2>2, <3>1
    <3>3. store[b][k] = want[b][k]
      BY <1>14, <1>1, <2>2, <3>1 DEF IInv, StoreAgrees
    <3> QED
      BY <1>8, <3>2, <3>3
  <2>3. \A c \in mapped : view'[c] = view[c]
    BY <1>1, <1>5 DEF TypeOK
  <2> QED
    BY <1>3, <1>5, <2>1, <2>2, <2>3 DEF GuestSeesContents, ViewOf, PlaceOf
<1>15. ASSUME IInv PROVE StoreAgrees'
  <2> SUFFICES ASSUME NEW c \in Buffer, NEW k \in Contents(c), want[c][k] # Junk,
                      c \in mapped' /\ k \in ViewOf(c)' => view'[c].acc \in {"read", "explicit"}
               PROVE  store[c][k] = want[c][k]
    BY <1>3 DEF StoreAgrees, Contents
  <2>1. CASE c = b
    BY <1>15, <1>1, <2>1 DEF IInv, StoreAgrees
  <2>2. CASE c # b
    <3>1. c \in mapped /\ k \in ViewOf(c) => view[c].acc \in {"read", "explicit"}
      BY <1>3, <1>5, <2>2 DEF ViewOf
    <3> QED
      BY <1>15, <3>1 DEF IInv, StoreAgrees
  <2> QED
    BY <2>1, <2>2
<1> QED
  BY <1>10, <1>11, <1>12, <1>13, <1>14, <1>15 DEF IInv, RoomInv

\* A store changes one place, of one mapping only.
LEMMA StoreIInv ==
  ASSUME RoomInv, NEW b \in Buffer, NEW k \in Contents(b), NEW n \in 0..1, Store(b, k, n)
  PROVE  RoomInv' /\ (IInv /\ Kept => IInv')
<1> DEFINE new == IF view[b].acc = "explicit" THEN Junk ELSE Written(b, n)
<1>1. /\ TypeOK /\ b \in mapped /\ k \in ViewOf(b) /\ view[b].acc # "read"
      /\ UNCHANGED <<glVars, deviceVars, view>>
  BY DEF Store, ViewOf, RoomInv
<1>2. Junk \in Values /\ Written(b, n) \in Values /\ new \in Values
  BY DEF Junk, Written, Values
<1>3. PlaceOf(b, k) \in 1..AreaSize
  BY <1>1, Places
<1>4. /\ fbtm' \in [1..AreaSize -> Values]
      /\ fbtm'[PlaceOf(b, k)] = Written(b, n)
      /\ \A d \in 1..AreaSize : d # PlaceOf(b, k) => fbtm'[d] = fbtm[d]
  BY <1>1, <1>2, <1>3 DEF Store, TypeOK, PlaceOf
<1>5. /\ DOMAIN want' = Buffer /\ want'[b] \in [Contents(b) -> Values]
      /\ want'[b][k] = new /\ \A j \in Contents(b) : j # k => want'[b][j] = want[b][j]
      /\ \A c \in Buffer : c # b => want'[c] = want[c]
  <2>1. want' = [want EXCEPT ![b][k] = new]
    BY DEF Store
  <2>2. DOMAIN want = Buffer /\ want[b] \in [Contents(b) -> Values]
    BY <1>1 DEF TypeOK
  <2> HIDE DEF new
  <2> QED
    BY <1>2, <2>1, <2>2
<1> HIDE DEF new
<1>6. TypeOK'
  <2>1. \A c \in Buffer : want'[c] \in [Contents(c) -> Values]
    BY <1>1, <1>5 DEF TypeOK
  <2> QED
    BY <1>1, <1>4, <1>5, <2>1 DEF TypeOK, glVars, deviceVars, Contents
<1>7. (\A c \in mapped : Recorded(c) /\ ViewFits(c))' /\ NothingLeftOver' /\ ViewsDisjoint'
  BY <1>1 DEF RoomInv, Recorded, ViewFits, NothingLeftOver, ViewsDisjoint, glVars, deviceVars
<1>8. ASSUME IInv PROVE GuestSeesContents'
  <2> SUFFICES ASSUME NEW c \in mapped, NEW j \in ViewOf(c), want'[c][j] # Junk
               PROVE  fbtm'[PlaceOf(c, j)] = want'[c][j]
    BY <1>1 DEF GuestSeesContents, ViewOf, PlaceOf, glVars
  <2>1. c \in Buffer /\ j \in Contents(c) /\ PlaceOf(c, j) \in 1..AreaSize
    BY Places
  <2>2. CASE c = b /\ j = k
    BY <1>4, <1>5, <2>2 DEF new
  <2>3. CASE c = b /\ j # k
    <3>1. PlaceOf(b, j) # PlaceOf(b, k)
      <4>1. view[b].base \in Int /\ view[b].off \in Int /\ view[b].len \in Int
        BY <1>1, ViewTyped
      <4> QED
        BY <1>1, <2>3, <4>1 DEF PlaceOf, ViewOf
    <3>2. want[b][j] = want'[b][j]
      BY <1>5, <2>1, <2>3
    <3> QED
      BY <1>8, <1>4, <2>1, <2>3, <3>1, <3>2 DEF IInv, GuestSeesContents
  <2>4. CASE c # b
    <3>1. PlaceOf(c, j) # PlaceOf(b, k)
      BY <1>1, <2>4, PlacesApart
    <3>2. want[c][j] = want'[c][j]
      BY <1>5, <2>1, <2>4
    <3> QED
      BY <1>8, <1>4, <2>1, <3>1, <3>2 DEF IInv, GuestSeesContents
  <2> QED
    BY <2>2, <2>3, <2>4
<1>9. ASSUME IInv PROVE StoreAgrees'
  <2> SUFFICES ASSUME NEW c \in Buffer, NEW j \in Contents(c), want'[c][j] # Junk,
                      c \in mapped /\ j \in ViewOf(c) => view[c].acc \in {"read", "explicit"}
               PROVE  store[c][j] = want'[c][j]
    BY <1>1 DEF StoreAgrees, ViewOf, Contents, glVars
  <2>1. ~(c = b /\ j = k)
    BY <1>1, <1>5 DEF new
  <2>2. want'[c][j] = want[c][j]
    BY <1>5, <2>1
  <2> QED
    BY <1>9, <2>2 DEF IInv, StoreAgrees
<1> QED
  BY <1>6, <1>7, <1>8, <1>9 DEF IInv, RoomInv

\* The host's buffers after the units offst .. offst + len - 1 of b's mapping
\* have been copied back.
CopiedBack(new, b, offst, len) ==
  /\ DOMAIN new = Buffer
  /\ \A c \in Buffer : c # b => new[c] = store[c]
  /\ \A k \in Contents(b) :
       new[b][k] = IF k - view[b].off \in offst..(offst + len - 1)
                   THEN fbtm[PlaceOf(b, k)] ELSE store[b][k]
  /\ new[b] \in [Contents(b) -> Values]

\* What the device copies back from a record that is the mapped buffer's own.
LEMMA Flushed ==
  ASSUME RoomInv, NEW b \in mapped, NEW offst \in Nat, NEW len \in Nat,
         offst + len <= view[b].len,
         NEW new, new = wrFlushBufObj(bufo[b], offst, len)
  PROVE  CopiedBack(new, b, offst, len)
<1>1. TypeOK /\ b \in Buffer /\ Recorded(b)
  BY DEF RoomInv, TypeOK
<1>2. bufo[b].hva = b /\ bufo[b].off = view[b].off /\ bufo[b].base = view[b].base
  BY <1>1 DEF Recorded
<1>3. DOMAIN store = Buffer /\ store[b] \in [Contents(b) -> Values]
  BY <1>1 DEF TypeOK
<1>4. wrFlushBufObj(bufo[b], offst, len) =
        [store EXCEPT ![b] =
          [k \in Contents(b) |-> IF k - view[b].off \in offst..(offst + len - 1)
                                 THEN fbtm[PlaceOf(b, k)] ELSE store[b][k]]]
  BY <1>2 DEF wrFlushBufObj, PlaceOf
<1>5. \A k \in Contents(b) :
        k - view[b].off \in offst..(offst + len - 1) => fbtm[PlaceOf(b, k)] \in Values
  <2> SUFFICES ASSUME NEW k \in Contents(b), k - view[b].off \in offst..(offst + len - 1)
               PROVE  fbtm[PlaceOf(b, k)] \in Values
    OBVIOUS
  <2>1. k \in ViewOf(b)
    <3>1. view[b].off \in Nat /\ view[b].len \in Nat /\ k \in Int
      BY <1>1, ViewTyped DEF Contents
    <3> QED
      BY <3>1 DEF ViewOf
  <2>2. PlaceOf(b, k) \in 1..AreaSize
    BY <2>1, Places
  <2> QED
    BY <1>1, <2>2 DEF TypeOK
<1> DEFINE part == [k \in Contents(b) |-> IF k - view[b].off \in offst..(offst + len - 1)
                                          THEN fbtm[PlaceOf(b, k)] ELSE store[b][k]]
<1>6. part \in [Contents(b) -> Values]
  BY <1>3, <1>5
<1>7. \A k \in Contents(b) : part[k] = IF k - view[b].off \in offst..(offst + len - 1)
                                        THEN fbtm[PlaceOf(b, k)] ELSE store[b][k]
  OBVIOUS
<1>8. new = [store EXCEPT ![b] = part]
  BY <1>4
<1> HIDE DEF part
<1>9. DOMAIN new = Buffer /\ new[b] = part /\ \A c \in Buffer : c # b => new[c] = store[c]
  BY <1>1, <1>3, <1>8
<1> QED
  BY <1>6, <1>7, <1>9 DEF CopiedBack

\* A flushed range is in the host's buffer as the guest has it.
LEMMA FlushIInv ==
  ASSUME RoomInv, UsedInTurn, NEW t \in Target, NEW offst \in 0..AreaSize, NEW len \in Units,
         glFlushMappedBufferRange(t, offst, len)
  PROVE  /\ RoomInv' /\ (IInv /\ Kept => IInv')
         /\ bound[t] \in mapped
         /\ \A k \in ViewOf(bound[t]) : k - view[bound[t]].off \in offst..(offst + len - 1) =>
              store'[bound[t]][k] = fbtm[PlaceOf(bound[t], k)]
<1> DEFINE b == bound[t]
           rec == [bufo[b] EXCEPT !.offst = offst, !.range = len]
           new == [k \in Contents(b) |-> IF k - view[b].off \in offst..(offst + len - 1)
                                         THEN fbtm[PlaceOf(b, k)] ELSE want[b][k]]
<1>1. /\ TypeOK /\ b \in mapped /\ b \in Buffer /\ BufIdx = b /\ view[b].acc = "explicit"
      /\ offst \in Nat /\ len \in Nat /\ offst + len <= view[b].len
      /\ UNCHANGED <<bound, mapped, BufIdx, szUsedBuf, fbtm, view>>
  BY BuffersAreSized DEF RoomInv, TypeOK, glFlushMappedBufferRange, Ruled, UsedInTurn, Units
<1>2. DOMAIN bufo = mapped /\ bufo[b] \in Records
  BY <1>1 DEF RoomInv, NothingLeftOver, TypeOK
<1>3. LookupBufObj(BufIdx) = bufo[b]
  BY <1>1, <1>2 DEF LookupBufObj
<1>4. /\ DOMAIN bufo' = mapped /\ bufo'[b] = rec /\ \A c \in mapped : c # b => bufo'[c] = bufo[c]
      /\ bufo' = [c \in DOMAIN bufo' |-> bufo'[c]]
  <2>1. bufo' = Stored(rec)
    BY <1>3 DEF glFlushMappedBufferRange
  <2> HIDE DEF rec
  <2> QED
    BY <1>1, <1>2, <2>1 DEF Stored
<1>5. /\ rec \in Records /\ rec.hva = bufo[b].hva /\ rec.off = bufo[b].off
      /\ rec.base = bufo[b].base /\ rec.mapsz = bufo[b].mapsz /\ rec.acc = bufo[b].acc
      /\ rec.mused = bufo[b].mused
  BY <1>1, <1>2 DEF Records
<1>6. /\ DOMAIN store' = Buffer
      /\ \A k \in Contents(b) :
           store'[b][k] = IF k - view[b].off \in offst..(offst + len - 1)
                          THEN fbtm[PlaceOf(b, k)] ELSE store[b][k]
      /\ store'[b] \in [Contents(b) -> Values]
      /\ \A c \in Buffer : c # b => store'[c] = store[c]
  <2>1. store' = wrFlushBufObj(bufo[b], offst, len)
    BY <1>3 DEF glFlushMappedBufferRange
  <2>2. CopiedBack(store', b, offst, len)
    <3>1. RoomInv /\ b \in mapped /\ offst \in Nat /\ len \in Nat /\ offst + len <= view[b].len
      BY <1>1
    <3> HIDE DEF b, rec, new
    <3> QED
      BY <2>1, <3>1, Flushed
  <2> HIDE DEF b, rec, new
  <2> QED
    BY <2>2 DEF CopiedBack
<1>7. /\ DOMAIN want' = Buffer
      /\ \A k \in Contents(b) :
           want'[b][k] = IF k - view[b].off \in offst..(offst + len - 1)
                         THEN fbtm[PlaceOf(b, k)] ELSE want[b][k]
      /\ want'[b] \in [Contents(b) -> Values]
      /\ \A c \in Buffer : c # b => want'[c] = want[c]
  <2>1. \A k \in Contents(b) :
          k - view[b].off \in offst..(offst + len - 1) => fbtm[PlaceOf(b, k)] \in Values
    <3> SUFFICES ASSUME NEW k \in Contents(b), k - view[b].off \in offst..(offst + len - 1)
                 PROVE  fbtm[PlaceOf(b, k)] \in Values
      OBVIOUS
    <3>1. view[b].off \in Nat /\ view[b].len \in Nat /\ k \in Int
      BY <1>1, ViewTyped DEF Contents
    <3>2. k \in ViewOf(b)
      BY <1>1, <3>1 DEF ViewOf
    <3>3. PlaceOf(b, k) \in 1..AreaSize
      BY <1>1, <3>2, Places
    <3> QED
      BY <1>1, <3>3 DEF TypeOK
  <2>2. DOMAIN want = Buffer /\ want[b] \in [Contents(b) -> Values]
    BY <1>1 DEF TypeOK
  <2>3. new \in [Contents(b) -> Values]
    BY <2>1, <2>2
  <2>4. want' = [want EXCEPT ![b] = new]
    BY DEF glFlushMappedBufferRange, PlaceOf
  <2>5. \A k \in Contents(b) : new[k] = IF k - view[b].off \in offst..(offst + len - 1)
                                         THEN fbtm[PlaceOf(b, k)] ELSE want[b][k]
    OBVIOUS
  <2> HIDE DEF new
  <2>6. /\ DOMAIN want' = Buffer /\ want'[b] = new
        /\ \A c \in Buffer : c # b => want'[c] = want[c]
    BY <1>1, <2>2, <2>4
  <2> QED
    BY <2>3, <2>5, <2>6
<1> HIDE DEF rec
<1>8. TypeOK'
  <2>1. bufo' \in [DOMAIN bufo' -> Records] /\ DOMAIN bufo' \subseteq Buffer \cup {0}
    BY <1>1, <1>2, <1>4, <1>5 DEF TypeOK
  <2>2. \A c \in Buffer : store'[c] \in [Contents(c) -> Values] /\ want'[c] \in [Contents(c) -> Values]
    BY <1>1, <1>6, <1>7 DEF TypeOK
  <2> QED
    BY <1>1, <1>6, <1>7, <2>1, <2>2 DEF TypeOK, Contents
<1>9. (\A c \in mapped : Recorded(c) /\ ViewFits(c))'
  BY <1>1, <1>4, <1>5 DEF RoomInv, Recorded, ViewFits
<1>10. NothingLeftOver' /\ ViewsDisjoint'
  BY <1>1, <1>4 DEF RoomInv, NothingLeftOver, ViewsDisjoint
<1>11. ASSUME IInv PROVE GuestSeesContents'
  <2> SUFFICES ASSUME NEW c \in mapped, NEW k \in ViewOf(c), want'[c][k] # Junk
               PROVE  fbtm[PlaceOf(c, k)] = want'[c][k]
    BY <1>1 DEF GuestSeesContents, ViewOf, PlaceOf
  <2>1. c \in Buffer /\ k \in Contents(c)
    BY Places
  <2>2. want'[c][k] = want[c][k] \/ want'[c][k] = fbtm[PlaceOf(c, k)]
    BY <1>7, <2>1
  <2> QED
    BY <1>11, <2>2 DEF IInv, GuestSeesContents
<1>12. ASSUME IInv PROVE StoreAgrees'
  <2> SUFFICES ASSUME NEW c \in Buffer, NEW k \in Contents(c), want'[c][k] # Junk,
                      c \in mapped /\ k \in ViewOf(c) => view[c].acc \in {"read", "explicit"}
               PROVE  store'[c][k] = want'[c][k]
    BY <1>1 DEF StoreAgrees, ViewOf, Contents
  <2>1. CASE c # b
    BY <1>12, <1>6, <1>7, <2>1 DEF IInv, StoreAgrees
  <2>2. CASE c = b /\ k - view[b].off \in offst..(offst + len - 1)
    BY <1>6, <1>7, <2>2
  <2>3. CASE c = b /\ ~(k - view[b].off \in offst..(offst + len - 1))
    <3>1. want'[c][k] = want[c][k] /\ store'[c][k] = store[c][k]
      BY <1>6, <1>7, <2>3
    <3> QED
      BY <1>12, <3>1 DEF IInv, StoreAgrees
  <2> QED
    BY <2>1, <2>2, <2>3
<1>13. \A k \in ViewOf(b) : k - view[b].off \in offst..(offst + len - 1) =>
         store'[b][k] = fbtm[PlaceOf(b, k)]
  <2>1. \A k \in ViewOf(b) : k \in Contents(b)
    BY <1>1, Places
  <2> QED
    BY <1>6, <2>1
<1> QED
  BY <1>1, <1>8, <1>9, <1>10, <1>11, <1>12, <1>13 DEF IInv, RoomInv

\* What is unmapped is copied back if it was mapped for writing, and its room
\* is given back only if nothing lies below it.
LEMMA UnmapIInv ==
  ASSUME RoomInv, UsedInTurn, NEW t \in Target, glUnmapBuffer(t)
  PROVE  RoomInv' /\ (IInv /\ Kept => IInv')
<1> DEFINE b == bound[t]
           rec == bufo[b]
           len == IF rec.range # 0 THEN rec.range ELSE rec.mapsz - rec.offst
<1>1. /\ TypeOK /\ b \in mapped /\ b \in Buffer /\ BufIdx = b
      /\ mapped' = mapped \ {b} /\ UNCHANGED <<bound, BufIdx, fbtm, want>>
  BY DEF RoomInv, TypeOK, glUnmapBuffer, Ruled, UsedInTurn
<1>2. DOMAIN bufo = mapped /\ Recorded(b) /\ ViewFits(b) /\ rec \in Records
  BY <1>1 DEF RoomInv, NothingLeftOver, TypeOK
<1>3. LookupBufObj(BufIdx) = rec
  BY <1>1, <1>2 DEF LookupBufObj
<1>4. /\ view[b].base \in 0..AreaSize /\ view[b].off \in Nat /\ view[b].len \in Nat \ {0}
      /\ view[b].acc \in {"read", "write", "readwrite", "explicit"}
      /\ ALIGNBO(view[b].len) \in Nat /\ ALIGNBO(view[b].len) >= view[b].len
      /\ rec.mused \in Nat /\ rec.mused + ALIGNBO(view[b].len) = view[b].base
      /\ szUsedBuf \in 0..AreaSize /\ AreaSize \in Nat /\ view[b].base <= szUsedBuf
  <2>1. /\ view[b].base \in 0..AreaSize /\ view[b].off \in Nat /\ view[b].len \in Nat
        /\ view[b].acc \in {"read", "write", "readwrite", "explicit"}
    BY <1>1, ViewTyped
  <2>2. ALIGNBO(view[b].len) \in Nat /\ ALIGNBO(view[b].len) >= view[b].len
    BY <2>1, Aligned
  <2> QED
    BY <1>1, <1>2, <2>1, <2>2, BuffersAreSized DEF TypeOK, Recorded, ViewFits, Records
<1>5. bufo' = [c \in mapped \ {b} |-> bufo[c]]
  BY <1>1, <1>2 DEF glUnmapBuffer, Freed
<1>6. view' \in [Buffer -> Views] /\ \A c \in Buffer : c # b => view'[c] = view[c]
  <2>1. NoView \in Views
    BY BuffersAreSized DEF NoView, Views
  <2> QED
    BY <1>1, <2>1 DEF glUnmapBuffer, TypeOK
<1>7. /\ szUsedBuf' \in 0..AreaSize
      /\ mapped' = {} => szUsedBuf' = 0
      /\ \A c \in mapped' : view[c].base <= szUsedBuf'
  <2>1. szUsedBuf' = IF mapped' = {} THEN 0
                     ELSE IF szUsedBuf = view[b].base
                     THEN szUsedBuf - ALIGNBO(view[b].len) ELSE szUsedBuf
    BY <1>1, <1>2, <1>3, <1>4, <1>5 DEF glUnmapBuffer, Recorded
  <2>2. szUsedBuf = view[b].base => szUsedBuf - ALIGNBO(view[b].len) \in 0..AreaSize
    BY <1>4
  <2>3. ASSUME NEW c \in mapped, c # b
        PROVE  /\ view[c].base <= szUsedBuf
               /\ szUsedBuf = view[b].base => view[c].base <= szUsedBuf - ALIGNBO(view[b].len)
    <3>1. /\ view[c].base \in Nat /\ view[c].len \in Nat \ {0} /\ view[c].base <= szUsedBuf
      BY <1>1, ViewTyped DEF RoomInv, ViewFits, TypeOK
    <3>2. ALIGNBO(view[c].len) \in Nat /\ ALIGNBO(view[c].len) >= view[c].len
      BY <3>1, Aligned
    <3>3. \/ view[b].base <= view[c].base - ALIGNBO(view[c].len)
          \/ view[c].base <= view[b].base - ALIGNBO(view[b].len)
      BY <1>1, <2>3 DEF RoomInv, ViewsDisjoint
    <3> QED
      BY <1>4, <3>1, <3>2, <3>3
  <2> QED
    BY <1>1, <1>4, <2>1, <2>2, <2>3
<1>15. ASSUME rec.acc \in {"write", "readwrite"}
       PROVE  CopiedBack(store', b, 0, view[b].len)
  <2>1. rec.offst = 0 /\ len = view[b].len
    BY <1>2, <1>4, <1>15 DEF Recorded
  <2>2. store' = wrFlushBufObj(bufo[b], 0, view[b].len)
    BY <1>3, <1>15, <2>1 DEF glUnmapBuffer
  <2>3. 0 + view[b].len <= view[b].len /\ 0 \in Nat /\ view[b].len \in Nat
    BY <1>4
  <2> QED
    BY <1>1, <2>2, <2>3, Flushed
<1>16. ASSUME rec.acc \notin {"write", "readwrite"}
       PROVE  store' = store /\ view[b].acc \in {"read", "explicit"}
  BY <1>2, <1>3, <1>4, <1>16 DEF glUnmapBuffer, Recorded
<1>8. /\ DOMAIN store' = Buffer /\ store'[b] \in [Contents(b) -> Values]
      /\ \A c \in Buffer : c # b => store'[c] = store[c]
  BY <1>1, <1>15, <1>16 DEF TypeOK, CopiedBack
<1>17. ASSUME IInv, NEW k \in Contents(b), want[b][k] # Junk PROVE store'[b][k] = want[b][k]
  <2>1. CASE rec.acc \in {"write", "readwrite"}
    <3>1. k \in Int
      BY DEF Contents
    <3>2. CASE k - view[b].off \in 0..(0 + view[b].len - 1)
      <4>1. k \in ViewOf(b)
        BY <1>4, <3>1, <3>2 DEF ViewOf
      <4> QED
        BY <1>1, <1>15, <1>17, <2>1, <3>2, <4>1 DEF IInv, GuestSeesContents, CopiedBack
    <3>3. CASE ~(k - view[b].off \in 0..(0 + view[b].len - 1))
      <4>1. k \notin ViewOf(b)
        BY <1>4, <3>1, <3>3 DEF ViewOf
      <4> QED
        BY <1>1, <1>15, <1>17, <2>1, <3>3, <4>1 DEF IInv, StoreAgrees, CopiedBack
    <3> QED
      BY <3>2, <3>3
  <2>2. CASE rec.acc \notin {"write", "readwrite"}
    BY <1>1, <1>16, <1>17, <2>2 DEF IInv, StoreAgrees
  <2> QED
    BY <2>1, <2>2
<1>9. TypeOK'
  <2>1. \A c \in Buffer : store'[c] \in [Contents(c) -> Values] /\ want'[c] \in [Contents(c) -> Values]
    BY <1>1, <1>8 DEF TypeOK
  <2>2. bufo' \in [DOMAIN bufo' -> Records] /\ DOMAIN bufo' \subseteq Buffer \cup {0}
    BY <1>1, <1>2, <1>5 DEF TypeOK
  <2> QED
    BY <1>1, <1>6, <1>7, <1>8, <2>1, <2>2 DEF TypeOK, Contents
<1>10. \A c \in mapped' : c \in Buffer /\ c \in mapped /\ view'[c] = view[c] /\ bufo'[c] = bufo[c]
  BY <1>1, <1>5, <1>6 DEF TypeOK
<1>11. (\A c \in mapped : Recorded(c) /\ ViewFits(c))'
  BY <1>7, <1>10 DEF RoomInv, Recorded, ViewFits
<1>12. NothingLeftOver' /\ ViewsDisjoint'
  BY <1>1, <1>5, <1>7, <1>10 DEF RoomInv, NothingLeftOver, ViewsDisjoint
<1>13. ASSUME IInv PROVE GuestSeesContents'
  BY <1>13, <1>1, <1>10 DEF IInv, GuestSeesContents, ViewOf, PlaceOf
<1>14. ASSUME IInv PROVE StoreAgrees'
  <2> SUFFICES ASSUME NEW c \in Buffer, NEW k \in Contents(c), want[c][k] # Junk,
                      c \in mapped' /\ k \in ViewOf(c)' => view'[c].acc \in {"read", "explicit"}
               PROVE  store'[c][k] = want[c][k]
    BY <1>1 DEF StoreAgrees, Contents
  <2>1. CASE c = b
    BY <1>14, <1>17, <2>1
  <2>2. CASE c # b
    <3>1. c \in mapped /\ k \in ViewOf(c) => view[c].acc \in {"read", "explicit"}
      BY <1>1, <1>6, <2>2 DEF ViewOf
    <3> QED
      BY <1>14, <1>8, <2>2, <3>1 DEF IInv, StoreAgrees
  <2> QED
    BY <2>1, <2>2
<1> QED
  BY <1>9, <1>11, <1>12, <1>13, <1>14 DEF IInv, RoomInv

\* Every step keeps the invariant.
LEMMA NextIInv ==
  ASSUME RoomInv, UsedInTurn, [Next]_vars
  PROVE  RoomInv' /\ (IInv /\ Kept => IInv')
<1> DEFINE Stays == RoomInv' /\ (IInv /\ Kept => IInv')
<1>1. ASSUME NEW t \in Target, NEW b \in Buffer \cup {0}, glBindBuffer(t, b) PROVE Stays
  BY <1>1, BindIInv
<1>2. ASSUME NEW t \in Target, glBufferData(t) PROVE Stays
  BY <1>2, BufferDataIInv
<1>3. ASSUME NEW t \in Target, glUnmapBuffer(t) PROVE Stays
  BY <1>3, UnmapIInv
<1>4. ASSUME NEW t \in Target, NEW off \in 0..AreaSize, NEW len \in Units, NEW acc \in Access,
             glMapBufferRange(t, off, len, acc)
      PROVE  Stays
  BY <1>4, MapIInv
<1>5. ASSUME NEW t \in Target, NEW off \in 0..AreaSize, NEW len \in Units,
             glFlushMappedBufferRange(t, off, len)
      PROVE  Stays
  BY <1>5, FlushIInv
<1>6. ASSUME NEW b \in Buffer, glDeleteBuffers(b) PROVE Stays
  BY <1>6, DeleteIInv
<1>7. ASSUME NEW b \in Buffer, NEW k \in Contents(b), NEW n \in 0..1, Store(b, k, n) PROVE Stays
  BY <1>7, StoreIInv
<1>8. ASSUME NEW len \in Units, Transfer(len) PROVE Stays
  BY <1>8, TransferIInv
<1>9. ASSUME ContextCreate PROVE Stays
  BY <1>9, ContextIInv
<1>10. ASSUME UNCHANGED vars PROVE Stays
  <2>1. UNCHANGED <<glVars, deviceVars, fbtm, view, want>>
    BY <1>10 DEF vars
  <2>2. TypeOK'
    BY <2>1 DEF RoomInv, TypeOK, glVars, deviceVars, Contents
  <2> QED
    BY <2>1, <2>2 DEF glVars, deviceVars, IInv, RoomInv, Recorded, ViewFits, NothingLeftOver,
                      ViewsDisjoint,
                      GuestSeesContents, StoreAgrees, ViewOf, PlaceOf, Contents
<1> QED
  BY <1>1, <1>2, <1>3, <1>4, <1>5, <1>6, <1>7, <1>8, <1>9, <1>10 DEF Next

LEMMA RulesAreMore == Kept => UsedInTurn
BY DEF Kept, UsedInTurn

\* While every mapped buffer is the one bound last when it is used, and is
\* unmapped before it is deleted, each has its own record and its own room.
THEOREM RoomInvariant == UsedInTurn => (Spec => []RoomInv)
<1> SUFFICES ASSUME UsedInTurn PROVE Spec => []RoomInv
  OBVIOUS
<1>1. Init => RoomInv
  BY InitIInv DEF IInv
<1>2. RoomInv /\ [Next]_vars => RoomInv'
  BY NextIInv
<1> QED
  BY <1>1, <1>2, PTL DEF Spec

\* While the applications keep the rules, IInv holds at every step.
THEOREM Invariant == Kept => (Spec => []IInv)
<1> SUFFICES ASSUME Kept PROVE Spec => []IInv
  OBVIOUS
<1>1. IInv /\ [Next]_vars => IInv'
  BY NextIInv, RulesAreMore DEF IInv
<1> QED
  BY InitIInv, <1>1, PTL DEF Spec

\* Each side's state keeps its type, and what is taken of the block never
\* exceeds it.
THEOREM TypeCorrect == UsedInTurn => (Spec => []TypeOK)
<1> SUFFICES ASSUME UsedInTurn PROVE Spec => []TypeOK
  OBVIOUS
<1>1. Spec => []RoomInv
  BY RoomInvariant
<1>2. RoomInv => TypeOK
  BY DEF RoomInv
<1> QED
  BY <1>1, <1>2, PTL

\* Whatever the order of glMapBuffer and glUnmapBuffer and the sizes, two
\* mapped buffers never share memory.
THEOREM Disjoint == UsedInTurn => (Spec => []ViewsDisjoint)
<1> SUFFICES ASSUME UsedInTurn PROVE Spec => []ViewsDisjoint
  OBVIOUS
<1>1. Spec => []RoomInv
  BY RoomInvariant
<1>2. RoomInv => ViewsDisjoint
  BY DEF RoomInv
<1> QED
  BY <1>1, <1>2, PTL

\* The application reads in what it has mapped what GL would show it there.
THEOREM GuestReads == Kept => (Spec => []GuestSeesContents)
<1> SUFFICES ASSUME Kept PROVE Spec => []GuestSeesContents
  OBVIOUS
<1>1. Spec => []IInv
  BY Invariant
<1>2. IInv => GuestSeesContents
  BY DEF IInv
<1> QED
  BY <1>1, <1>2, PTL

\* What the application wrote is in the host's buffer after glUnmapBuffer, and
\* nothing else in it has changed.
THEOREM HostReads == Kept => (Spec => []HostHasWrites)
<1> SUFFICES ASSUME Kept PROVE Spec => []HostHasWrites
  OBVIOUS
<1>1. Spec => []IInv
  BY Invariant
<1>2. IInv => HostHasWrites
  BY DEF IInv, StoreAgrees, HostHasWrites
<1> QED
  BY <1>1, <1>2, PTL

\* The device has a record of exactly the mapped buffers, and no room is taken
\* when there are none.
THEOREM AllGivenBack == UsedInTurn => (Spec => []NothingLeftOver)
<1> SUFFICES ASSUME UsedInTurn PROVE Spec => []NothingLeftOver
  OBVIOUS
<1>1. Spec => []RoomInv
  BY RoomInvariant
<1>2. RoomInv => NothingLeftOver
  BY DEF RoomInv
<1> QED
  BY <1>1, <1>2, PTL

\* glFlushMappedBufferRange brings what the application wrote to the host, at
\* any offset of any mapping.
THEOREM FlushedArrives == Kept => (Spec => FlushReachesHost)
<1> SUFFICES ASSUME Kept PROVE Spec => FlushReachesHost
  OBVIOUS
<1> DEFINE Reaches ==
      \A t \in Target, off \in 0..AreaSize, len \in Units :
        glFlushMappedBufferRange(t, off, len) =>
          \A k \in ViewOf(bound[t]) : k - view[bound[t]].off \in off..(off + len - 1) =>
            store'[bound[t]][k] = fbtm[PlaceOf(bound[t], k)]
<1>1. Spec => []IInv
  BY Invariant
<1>2. IInv => Reaches
  BY FlushIInv, RulesAreMore DEF IInv
<1>3. IInv /\ [Next]_vars => [Reaches]_vars
  BY <1>2
<1> QED
  BY <1>1, <1>3, PTL DEF Spec, FlushReachesHost

\* A buffer is mapped with a record that serves no other: what the run finds
\* violated holds while the buffer bound last is the one that is used.
THEOREM NoneContends == UsedInTurn => (Spec => NoContention)
<1> SUFFICES ASSUME UsedInTurn PROVE Spec => NoContention
  OBVIOUS
<1> DEFINE Alone == \A b \in mapped' \ mapped : bufo'[BufIdx].hva = b =>
                      LookupBufObj(BufIdx).hva \notin mapped
<1>1. ASSUME RoomInv, Next PROVE Alone
  <2>1. \A t \in Target, off \in 0..AreaSize, len \in Units, acc \in Access :
          glMapBufferRange(t, off, len, acc) => BufIdx \notin DOMAIN bufo
    BY <1>1 DEF RoomInv, NothingLeftOver, glMapBufferRange, Ruled, UsedInTurn
  <2>2. BufIdx \notin DOMAIN bufo => LookupBufObj(BufIdx).hva \notin mapped
    <3>1. 0 \notin mapped
      BY <1>1, BuffersAreSized DEF RoomInv, TypeOK
    <3> QED
      BY <3>1 DEF LookupBufObj, NoRecord
  <2>3. \/ mapped' \subseteq mapped
        \/ \E t \in Target, off \in 0..AreaSize, len \in Units, acc \in Access :
             glMapBufferRange(t, off, len, acc)
    BY <1>1 DEF Next, glBindBuffer, glBufferData, glUnmapBuffer, glFlushMappedBufferRange,
                glDeleteBuffers, Store, Transfer, ContextCreate, glVars
  <2> QED
    BY <2>1, <2>2, <2>3
<1>2. RoomInv /\ [Next]_vars => [Alone]_vars
  BY <1>1
<1> QED
  BY <1>2, RoomInvariant, PTL DEF Spec, NoContention
=============================================================================
