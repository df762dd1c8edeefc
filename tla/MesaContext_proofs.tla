------------------------- MODULE MesaContext_proofs -------------------------
(* Proofs about MesaContext: types, pixel buffers, the right context for     *)
(* every call, what a process leaves, and one start of the client state.     *)
EXTENDS MesaContext, WellFoundedInduction, TLAPS

USE NoneIsNoId, SlotsAreNat

-----------------------------------------------------------------------------
(* What the operations of the device do, field by field *)

\* The kinds of handle are told apart by their first component.
LEMMA Handles ==
  /\ \A n, k : Rc(n) = Rc(k) <=> n = k
  /\ \A i, k : PbRc(i) = PbRc(k) <=> i = k
  /\ \A n, i : Rc(n) # PbRc(i) /\ Rc(n) # NoRc /\ PbRc(i) # NoRc
  /\ \A n : Rc(n)[1] = "rc" /\ Rc(n)[2] = n
  /\ \A i : PbRc(i)[1] = "pb" /\ PbRc(i)[2] = i
  /\ NoRc[1] = "none" /\ Window[1] = "window" /\ NoDC[1] = "none" /\ Window # NoDC
  /\ \A i : PbRc(i) # Window /\ PbRc(i) # NoDC
BY DEF Rc, PbRc, NoRc, Window, NoDC

Dc == {Window, NoDC} \cup {PbRc(i) : i \in Pb}

LEMMA DrainFacts ==
  ASSUME NEW d \in DevType
  PROVE  /\ processFifo(d) \in DevType
         /\ processFifo(d).mglContext = d.mglContext
         /\ processFifo(d).mglCntxCurrent = d.mglCntxCurrent
         /\ processFifo(d).ctx = d.ctx
         /\ processFifo(d).PBRC = d.PBRC
         /\ processFifo(d).cur = d.cur
         /\ processFifo(d).refs = d.refs
         /\ processFifo(d).queue \subseteq d.queue
         /\ Gate(d) => processFifo(d).queue = {}
<1>1. CASE Gate(d)
  <2>1. {c.start : c \in d.queue} \in SUBSET (Id \cup {None})
    BY DEF DevType
  <2> QED
    BY <1>1, <2>1 DEF processFifo, DevType
<1>2. CASE ~Gate(d)
  BY <1>2 DEF processFifo
<1> QED
  BY <1>1, <1>2

LEMMA CreateFacts ==
  ASSUME NEW d \in DevType, NEW dc \in Dc,
         NEW id \in Id \cup {None}
  PROVE  /\ WriteCreate(d, dc, id) \in DevType
         /\ d.mglContext => WriteCreate(d, dc, id).mglContext
         /\ id # None => WriteCreate(d, dc, id).mglContext
         /\ WriteCreate(d, dc, id).mglCntxCurrent = d.mglCntxCurrent
         /\ WriteCreate(d, dc, id).ctx = IF dc[1] = "pb" THEN d.ctx ELSE FirstContext(id)
         /\ WriteCreate(d, dc, id).PBRC = d.PBRC
         /\ WriteCreate(d, dc, id).cur = IF dc[1] = "pb" THEN d.cur ELSE None
         /\ WriteCreate(d, dc, id).refs = d.refs
         /\ WriteCreate(d, dc, id).queue \subseteq d.queue
         /\ Gate(d) => WriteCreate(d, dc, id).queue = {}
<1> DEFINE p == processFifo(d)
           c == MGLCreateContext(p, dc, id)
<1>1. FirstContext(id) \in [Level -> Id \cup {None}]
  BY DEF FirstContext
<1>p. /\ p \in DevType /\ p.mglContext = d.mglContext /\ p.mglCntxCurrent = d.mglCntxCurrent
      /\ p.ctx = d.ctx /\ p.PBRC = d.PBRC /\ p.cur = d.cur /\ p.refs = d.refs
      /\ p.queue \subseteq d.queue /\ (Gate(d) => p.queue = {})
  BY DrainFacts
<1> HIDE DEF p
<1>e. c = IF dc[1] = "pb" THEN p ELSE [p EXCEPT !.cur = None, !.ctx = FirstContext(id)]
  BY DEF MGLCreateContext
<1> HIDE DEF c
<1>2. /\ c \in DevType
      /\ c.mglContext = d.mglContext /\ c.mglCntxCurrent = d.mglCntxCurrent
      /\ c.ctx = IF dc[1] = "pb" THEN d.ctx ELSE FirstContext(id)
      /\ c.PBRC = d.PBRC
      /\ c.cur = IF dc[1] = "pb" THEN d.cur ELSE None
      /\ c.refs = d.refs /\ c.queue \subseteq d.queue /\ (Gate(d) => c.queue = {})
  BY <1>1, <1>p, <1>e DEF DevType
<1>3. WriteCreate(d, dc, id) =
        IF d.mglContext THEN c
        ELSE [c EXCEPT !.mglContext = dc[1] = "pb" \/ id # None, !.calls = {}]
  BY DEF WriteCreate, c, p
<1>4. CASE d.mglContext
  <2>1. WriteCreate(d, dc, id) = c
    BY <1>3, <1>4
  <2> QED
    BY <1>2, <1>4, <2>1
<1>5. CASE ~d.mglContext
  <2>1. WriteCreate(d, dc, id) = [c EXCEPT !.mglContext = dc[1] = "pb" \/ id # None, !.calls = {}]
    BY <1>3, <1>5
  <2> QED
    BY <1>2, <1>5, <2>1 DEF DevType
<1> QED
  BY <1>4, <1>5

LEMMA MakeCurrentFacts ==
  ASSUME NEW d \in DevType, NEW rc \in Handle \cup {NoRc}
  PROVE  /\ WriteMakeCurrent(d, rc) \in DevType
         /\ WriteMakeCurrent(d, rc).mglContext = d.mglContext
         /\ d.mglCntxCurrent => WriteMakeCurrent(d, rc).mglCntxCurrent
         /\ d.mglContext /\ rc # NoRc => WriteMakeCurrent(d, rc).mglCntxCurrent
         /\ WriteMakeCurrent(d, rc).ctx = d.ctx
         /\ WriteMakeCurrent(d, rc).PBRC = d.PBRC
         /\ \A n \in Level : rc = Rc(n) => WriteMakeCurrent(d, rc).cur = d.ctx[n]
         /\ \A i \in Pb : rc = PbRc(i) => WriteMakeCurrent(d, rc).cur = d.PBRC[i]
         /\ rc = NoRc => WriteMakeCurrent(d, rc).cur = d.cur
         /\ WriteMakeCurrent(d, rc).refs = d.refs
         /\ WriteMakeCurrent(d, rc).queue \subseteq d.queue
         /\ Gate(d) => WriteMakeCurrent(d, rc).queue = {}
<1> DEFINE p == processFifo(d)
           c == MGLMakeCurrent(p, rc)
           id == CASE rc[1] = "rc" -> p.ctx[rc[2]]
                   [] rc[1] = "pb" -> p.PBRC[rc[2]]
                   [] OTHER -> p.cur
<1>1. /\ p \in DevType /\ p.mglContext = d.mglContext /\ p.mglCntxCurrent = d.mglCntxCurrent
      /\ p.ctx = d.ctx /\ p.PBRC = d.PBRC /\ p.cur = d.cur /\ p.refs = d.refs
      /\ p.queue \subseteq d.queue /\ (Gate(d) => p.queue = {})
  BY DrainFacts
<1> HIDE DEF p
<1>2. /\ id \in Id \cup {None}
      /\ \A n \in Level : rc = Rc(n) => id = d.ctx[n]
      /\ \A i \in Pb : rc = PbRc(i) => id = d.PBRC[i]
      /\ rc = NoRc => id = d.cur
  <2>1. CASE rc \in {Rc(n) : n \in Level}
    BY <1>1, <2>1, Handles DEF DevType
  <2>2. CASE rc \in {PbRc(i) : i \in Pb}
    BY <1>1, <2>2, Handles DEF DevType
  <2>3. CASE rc = NoRc
    BY <1>1, <2>3, Handles DEF DevType
  <2> QED
    BY <2>1, <2>2, <2>3 DEF Handle
<1>3. c = [p EXCEPT !.cur = id]
  BY DEF MGLMakeCurrent
<1> HIDE DEF id, c
<1>4. WriteMakeCurrent(d, rc) =
        IF d.mglContext /\ ~d.mglCntxCurrent /\ rc # NoRc
        THEN [c EXCEPT !.mglCntxCurrent = TRUE] ELSE c
  BY DEF WriteMakeCurrent, c, p
<1>5. /\ c \in DevType /\ c.mglContext = d.mglContext /\ c.mglCntxCurrent = d.mglCntxCurrent
      /\ c.ctx = d.ctx /\ c.PBRC = d.PBRC /\ c.cur = id /\ c.refs = d.refs
      /\ c.queue \subseteq d.queue /\ (Gate(d) => c.queue = {})
  BY <1>1, <1>2, <1>3 DEF DevType
<1>6. CASE d.mglContext /\ ~d.mglCntxCurrent /\ rc # NoRc
  <2>1. WriteMakeCurrent(d, rc) = [c EXCEPT !.mglCntxCurrent = TRUE]
    BY <1>4, <1>6
  <2> QED
    BY <1>2, <1>5, <1>6, <2>1 DEF DevType
<1>7. CASE ~(d.mglContext /\ ~d.mglCntxCurrent /\ rc # NoRc)
  <2>1. WriteMakeCurrent(d, rc) = c
    BY <1>4, <1>7
  <2> QED
    BY <1>2, <1>5, <1>7, <2>1
<1> QED
  BY <1>6, <1>7

LEMMA DeleteFacts ==
  ASSUME NEW d \in DevType
  PROVE  /\ WriteDelete(d) \in DevType
         /\ ~Gate(WriteDelete(d))
         /\ WriteDelete(d).ctx = NoContexts
         /\ WriteDelete(d).PBRC = d.PBRC
         /\ WriteDelete(d).cur = None
         /\ WriteDelete(d).refs = d.refs
         /\ WriteDelete(d).queue \subseteq d.queue
         /\ Gate(d) => WriteDelete(d).queue = {}
<1> DEFINE p == processFifo(d)
           c == MGLDeleteContext(p)
<1>1. /\ p \in DevType /\ p.mglContext = d.mglContext /\ p.mglCntxCurrent = d.mglCntxCurrent
      /\ p.ctx = d.ctx /\ p.PBRC = d.PBRC /\ p.cur = d.cur /\ p.refs = d.refs
      /\ p.queue \subseteq d.queue /\ (Gate(d) => p.queue = {})
  BY DrainFacts
<1> HIDE DEF p
<1>2. c = [p EXCEPT !.cur = None, !.ctx = NoContexts]
  BY DEF MGLDeleteContext
<1>3. NoContexts \in [Level -> Id \cup {None}]
  BY DEF NoContexts
<1> HIDE DEF c
<1>4. /\ c \in DevType /\ c.mglContext = d.mglContext /\ c.mglCntxCurrent = d.mglCntxCurrent
      /\ c.ctx = NoContexts /\ c.PBRC = d.PBRC /\ c.cur = None /\ c.refs = d.refs
      /\ c.queue \subseteq d.queue /\ (Gate(d) => c.queue = {})
  BY <1>1, <1>2, <1>3 DEF DevType
<1>5. WriteDelete(d) =
        IF Gate(d) THEN [c EXCEPT !.mglContext = FALSE, !.mglCntxCurrent = FALSE] ELSE c
  BY DEF WriteDelete, c, p
<1>6. CASE Gate(d)
  <2>1. WriteDelete(d) = [c EXCEPT !.mglContext = FALSE, !.mglCntxCurrent = FALSE]
    BY <1>5, <1>6
  <2> QED
    BY <1>4, <1>6, <2>1 DEF DevType, Gate
<1>7. CASE ~Gate(d)
  <2>1. WriteDelete(d) = c
    BY <1>5, <1>7
  <2> QED
    BY <1>4, <1>7, <2>1 DEF Gate
<1> QED
  BY <1>6, <1>7

LEMMA UnloadFacts ==
  ASSUME NEW d \in DevType
  PROVE  /\ WriteUnload(d) \in DevType
         /\ WriteUnload(d).PBRC = d.PBRC
         /\ WriteUnload(d).refs = d.refs
         /\ WriteUnload(d).queue = d.queue
<1>1. NoContexts \in [Level -> Id \cup {None}]
  BY DEF NoContexts
<1>2. WriteUnload(d) =
        IF d.mglContext THEN [d EXCEPT !.cur = None, !.ctx = NoContexts, !.mglContext = FALSE] ELSE d
  BY DEF WriteUnload, MGLDeleteContext, DevType
<1> QED
  BY <1>1, <1>2 DEF DevType

LEMMA AloneFacts ==
  ASSUME NEW d \in DevType, NEW id \in Id \cup {None}
  PROVE  /\ CreateAlone(d, id) \in DevType
         /\ id # None => CreateAlone(d, id).mglContext
         /\ CreateAlone(d, id).ctx = FirstContext(id)
         /\ CreateAlone(d, id).PBRC = d.PBRC
         /\ CreateAlone(d, id).refs = d.refs
         /\ CreateAlone(d, id).queue \subseteq d.queue
         /\ Gate(d) => CreateAlone(d, id).queue = {}
<1> DEFINE p == processFifo(d)
           c == [p EXCEPT !.cur = None, !.ctx = FirstContext(id)]
<1>1. /\ p \in DevType /\ p.mglContext = d.mglContext /\ p.mglCntxCurrent = d.mglCntxCurrent
      /\ p.ctx = d.ctx /\ p.PBRC = d.PBRC /\ p.cur = d.cur /\ p.refs = d.refs
      /\ p.queue \subseteq d.queue /\ (Gate(d) => p.queue = {})
  BY DrainFacts
<1>2. CreateAlone(d, id) =
        IF id = None THEN c
        ELSE [c EXCEPT !.mglContext = TRUE, !.mglCntxCurrent = FALSE, !.calls = {}]
  BY DEF CreateAlone
<1>3. FirstContext(id) \in [Level -> Id \cup {None}]
  BY DEF FirstContext
<1> HIDE DEF p
<1>4. /\ c \in DevType /\ c.ctx = FirstContext(id) /\ c.PBRC = d.PBRC /\ c.refs = d.refs
      /\ c.queue \subseteq d.queue /\ (Gate(d) => c.queue = {})
  BY <1>1, <1>3 DEF DevType
<1> HIDE DEF c
<1>5. CASE id = None
  BY <1>2, <1>4, <1>5
<1>6. CASE id # None
  BY <1>2, <1>4, <1>6 DEF DevType
<1> QED
  BY <1>5, <1>6

\* A shared context, made where there is room for it.
LEMMA SharedFacts ==
  ASSUME NEW d \in DevType, NEW id \in Id \cup {None}
  PROVE  /\ CreateShared(d, id) \in DevType
         /\ CreateShared(d, id).mglContext = d.mglContext
         /\ CreateShared(d, id).mglCntxCurrent = d.mglCntxCurrent
         /\ Free(d) # {} => CreateShared(d, id).ctx = [d.ctx EXCEPT ![Slot(d)] = id]
         /\ CreateShared(d, id).PBRC = d.PBRC
         /\ CreateShared(d, id).cur = d.cur
         /\ CreateShared(d, id).refs = d.refs
         /\ CreateShared(d, id).queue \subseteq d.queue
         /\ Gate(d) => CreateShared(d, id).queue = {}
<1> DEFINE p == processFifo(d)
           pushed == [n \in Level |-> IF n = 0 THEN d.ctx[0]
                                      ELSE IF n = MaxLvl - 1 THEN id ELSE d.ctx[n + 1]]
           ctx == IF Free(d) # {} THEN [d.ctx EXCEPT ![Slot(d)] = id] ELSE pushed
<1>1. /\ p \in DevType /\ p.mglContext = d.mglContext /\ p.mglCntxCurrent = d.mglCntxCurrent
      /\ p.ctx = d.ctx /\ p.PBRC = d.PBRC /\ p.cur = d.cur /\ p.refs = d.refs
      /\ p.queue \subseteq d.queue /\ (Gate(d) => p.queue = {})
  BY DrainFacts
<1>2. CreateShared(d, id) = [p EXCEPT !.ctx = ctx]
  <2>1. CASE Free(d) # {}
    BY <1>1, <2>1 DEF CreateShared
  <2>2. CASE Free(d) = {}
    BY <2>2 DEF CreateShared
  <2> QED
    BY <2>1, <2>2
<1>3. ctx \in [Level -> Id \cup {None}]
  <2>1. \A n \in Level : n # MaxLvl - 1 => n + 1 \in Level
    BY DEF Level
  <2>2. 0 \in Level
    BY DEF Level
  <2> QED
    BY <2>1, <2>2 DEF DevType
<1> HIDE DEF p
<1>4. Free(d) # {} => ctx = [d.ctx EXCEPT ![Slot(d)] = id]
  OBVIOUS
<1> HIDE DEF ctx
<1> QED
  BY <1>1, <1>2, <1>3, <1>4 DEF DevType

-----------------------------------------------------------------------------
(* The wrapper, and what it makes the device do *)

\* Whoever has a current context has a device context.
HasDc(w) == w.currGLRC # NoRc \/ w.level # 0 => w.currDC

LEMMA WrapperCreates ==
  ASSUME NEW w \in DllType, NEW dc \in Dc, NEW id \in Id \cup {None}
  PROVE  mglCreateContext(w, dc, id) =
           IF w.currPixFmt /\ w.currGLRC = NoRc
           THEN [w EXCEPT !.start = id, !.calls = {}, !.currDC = dc # NoDC] ELSE w
BY DEF mglCreateContext, InitClientStates, DllType

LEMMA WrapperMakesCurrent ==
  ASSUME NEW w \in DllType, NEW dc \in Dc, NEW rc \in Handle \cup {NoRc}, NEW id \in Id \cup {None},
         HasDc(w)
  PROVE  /\ mglMakeCurrent(w, dc, rc, id) \in DllType
         /\ mglMakeCurrent(w, dc, rc, id).loaded = w.loaded
         /\ mglMakeCurrent(w, dc, rc, id).currPixFmt = w.currPixFmt
         /\ mglMakeCurrent(w, dc, rc, id).level = w.level
         /\ mglMakeCurrent(w, dc, rc, id).currPB = w.currPB
         /\ w.currDC => mglMakeCurrent(w, dc, rc, id) =
                          [w EXCEPT !.currGLRC = IF w.level # 0 THEN Rc(0) ELSE rc]
         /\ w.currDC => /\ mglMakeCurrent(w, dc, rc, id).currDC
                        /\ mglMakeCurrent(w, dc, rc, id).currGLRC = IF w.level # 0 THEN Rc(0) ELSE rc
         /\ ~w.currDC /\ ~w.currPixFmt => mglMakeCurrent(w, dc, rc, id) = w
         /\ ~w.currDC /\ w.currPixFmt => /\ mglMakeCurrent(w, dc, rc, id).currGLRC = rc
                                         /\ mglMakeCurrent(w, dc, rc, id).currDC = (dc # NoDC)
<1>0. Rc(0) \in Handle
  BY DEF Handle, Level
<1>1. CASE w.currDC
  <2>1. mglMakeCurrent(w, dc, rc, id) = [w EXCEPT !.currGLRC = IF w.level # 0 THEN Rc(0) ELSE rc]
    BY <1>1 DEF mglMakeCurrent, MakeFails
  <2> QED
    BY <1>0, <1>1, <2>1 DEF DllType
<1>2. CASE ~w.currDC /\ ~w.currPixFmt
  <2>1. mglMakeCurrent(w, dc, rc, id) = w
    BY <1>2, WrapperCreates DEF mglMakeCurrent, MakeFails, Returned
  <2> QED
    BY <1>2, <2>1 DEF DllType
<1>3. CASE ~w.currDC /\ w.currPixFmt
  <2>1. w.currGLRC = NoRc /\ w.level = 0
    BY <1>3 DEF HasDc
  <2>2. ~MakeFails(w, dc)
    BY <1>3, <2>1, Handles DEF MakeFails, Returned
  <2>3. mglMakeCurrent(w, dc, rc, id) =
          [mglCreateContext(w, dc, id) EXCEPT !.currGLRC = rc]
    BY <1>3, <2>1, <2>2 DEF mglMakeCurrent
  <2> DEFINE c == mglCreateContext(w, dc, id)
  <2>4. c = [w EXCEPT !.start = id, !.calls = {}, !.currDC = dc # NoDC]
    BY <1>3, <2>1, WrapperCreates
  <2>5. (dc # NoDC) \in BOOLEAN
    OBVIOUS
  <2> HIDE DEF c
  <2>6. /\ c \in DllType /\ c.currDC = (dc # NoDC) /\ c.loaded = w.loaded
        /\ c.currPixFmt = w.currPixFmt /\ c.level = w.level /\ c.currPB = w.currPB
    BY <2>4, <2>5 DEF DllType
  <2>7. mglMakeCurrent(w, dc, rc, id) = [c EXCEPT !.currGLRC = rc]
    BY <2>3 DEF c
  <2> QED
    BY <1>3, <2>6, <2>7 DEF DllType
<1> QED
  BY <1>1, <1>2, <1>3

LEMMA MakeCurrentReaches ==
  ASSUME NEW w \in DllType, NEW d \in DevType, NEW dc \in Dc, NEW rc \in Handle \cup {NoRc},
         NEW id \in Id \cup {None}, HasDc(w)
  PROVE  /\ MakeCurrentWrites(w, d, dc, rc, id) \in DevType
         /\ MakeCurrentWrites(w, d, dc, rc, id).PBRC = d.PBRC
         /\ MakeCurrentWrites(w, d, dc, rc, id).refs = d.refs
         /\ MakeCurrentWrites(w, d, dc, rc, id).queue \subseteq d.queue
         /\ w.currDC => MakeCurrentWrites(w, d, dc, rc, id) = WriteMakeCurrent(d, rc)
         /\ ~w.currPixFmt /\ ~w.currDC => MakeCurrentWrites(w, d, dc, rc, id) = d
         /\ w.currPixFmt /\ Gate(d) => MakeCurrentWrites(w, d, dc, rc, id).queue = {}
<1>1. CASE w.currDC
  BY <1>1, MakeCurrentFacts DEF MakeCurrentWrites
<1>2. CASE ~w.currDC /\ ~w.currPixFmt
  BY <1>2 DEF MakeCurrentWrites
<1>3. CASE ~w.currDC /\ w.currPixFmt
  <2> DEFINE c == WriteCreate(d, dc, id)
  <2>1. /\ c \in DevType /\ c.PBRC = d.PBRC /\ c.refs = d.refs
        /\ c.queue \subseteq d.queue /\ (Gate(d) => c.queue = {})
    BY CreateFacts
  <2>2. MakeCurrentWrites(w, d, dc, rc, id) \in {c, WriteMakeCurrent(c, rc)}
    BY <1>3 DEF MakeCurrentWrites
  <2> HIDE DEF c
  <2>3. /\ WriteMakeCurrent(c, rc) \in DevType
        /\ WriteMakeCurrent(c, rc).PBRC = c.PBRC /\ WriteMakeCurrent(c, rc).refs = c.refs
        /\ WriteMakeCurrent(c, rc).queue \subseteq c.queue
    BY <2>1, MakeCurrentFacts
  <2> QED
    BY <1>3, <2>1, <2>2, <2>3
<1> QED
  BY <1>1, <1>2, <1>3

LEMMA DeleteReaches ==
  ASSUME NEW w \in DllType, NEW d \in DevType, NEW rc \in Handle
  PROVE  /\ DeleteWrites(w, d, rc) \in DevType
         /\ DeleteWrites(w, d, rc).refs = d.refs
         /\ DeleteWrites(w, d, rc).queue \subseteq d.queue
         /\ Deletes(w, rc) => /\ ~Gate(DeleteWrites(w, d, rc))
                              /\ DeleteWrites(w, d, rc).ctx = NoContexts
                              /\ DeleteWrites(w, d, rc).cur = None
                              /\ \A i \in Pb : DeleteWrites(w, d, rc).PBRC[i] =
                                                IF i \in w.currPB THEN None ELSE d.PBRC[i]
                              /\ Gate(d) => DeleteWrites(w, d, rc).queue = {}
         /\ ~Deletes(w, rc) => DeleteWrites(w, d, rc) = d
<1>1. CASE ~Deletes(w, rc)
  BY <1>1 DEF DeleteWrites
<1>2. CASE Deletes(w, rc)
  <2> DEFINE c == IF w.currPB = {} THEN d ELSE processFifo(d)
             pb == [i \in Pb |-> IF i \in w.currPB THEN None ELSE d.PBRC[i]]
             e == [c EXCEPT !.PBRC = pb]
  <2>1. /\ c \in DevType /\ c.mglContext = d.mglContext /\ c.mglCntxCurrent = d.mglCntxCurrent
        /\ c.PBRC = d.PBRC /\ c.refs = d.refs /\ c.queue \subseteq d.queue
    BY DrainFacts
  <2>2. DeleteWrites(w, d, rc) = WriteDelete([c EXCEPT !.PBRC = [i \in Pb |-> IF i \in w.currPB THEN None ELSE c.PBRC[i]]])
    BY <1>2 DEF DeleteWrites
  <2>3. DeleteWrites(w, d, rc) = WriteDelete(e)
    BY <2>1, <2>2
  <2>4. pb \in [Pb -> Id \cup {None}]
    BY DEF DevType
  <2> HIDE DEF c, pb
  <2>5. /\ e \in DevType /\ e.mglContext = d.mglContext /\ e.mglCntxCurrent = d.mglCntxCurrent
        /\ e.PBRC = pb /\ e.refs = d.refs /\ e.queue \subseteq d.queue
    BY <2>1, <2>4 DEF DevType
  <2> HIDE DEF e
  <2>6. Gate(e) <=> Gate(d)
    BY <2>5 DEF Gate
  <2> QED
    BY <1>2, <2>3, <2>5, <2>6, DeleteFacts DEF pb
<1> QED
  BY <1>1, <1>2

LEMMA UnsetFacts ==
  ASSUME NEW w \in DllType, NEW d \in DevType, HasDc(w)
  PROVE  /\ Unset(w) \in DllType
         /\ Unset(w).loaded = w.loaded
         /\ Unset(w).currPixFmt = w.currPixFmt
         /\ Unset(w).level = w.level
         /\ HasDc(Unset(w))
         /\ UnsetWrites(w, d) \in DevType
         /\ UnsetWrites(w, d).refs = d.refs
         /\ UnsetWrites(w, d).queue \subseteq d.queue
         /\ w.currGLRC = NoRc => Unset(w) = w /\ UnsetWrites(w, d) = d
         /\ w.currGLRC # NoRc /\ Gate(d) => UnsetWrites(w, d).queue = {}
         /\ w.currGLRC # NoRc /\ w.level = 0 =>
              /\ Unset(w).currGLRC = NoRc
              /\ Unset(w).currPB = {}
              /\ \A i \in Pb : UnsetWrites(w, d).PBRC[i] =
                                IF i \in w.currPB THEN None ELSE d.PBRC[i]
         /\ w.currGLRC # NoRc /\ w.level # 0 =>
              /\ Unset(w).currPB = w.currPB
              /\ UnsetWrites(w, d).PBRC = d.PBRC
<1> DEFINE n == NotCurrent(w)
           m == MakeCurrentWrites(w, d, NoDC, NoRc, None)
<1>1. CASE w.currGLRC = NoRc
  BY <1>1 DEF Unset, UnsetWrites
<1>2. CASE w.currGLRC # NoRc
  <2>1. w.currDC
    BY <1>2 DEF HasDc
  <2>2. n = [w EXCEPT !.currGLRC = IF w.level # 0 THEN Rc(0) ELSE NoRc]
    BY <2>1, WrapperMakesCurrent DEF NotCurrent, Dc
  <2>3. Rc(0) \in Handle
    BY DEF Handle, Level
  <2>4. /\ n \in DllType /\ n.loaded = w.loaded /\ n.currPixFmt = w.currPixFmt
        /\ n.level = w.level /\ n.currPB = w.currPB /\ n.currDC
        /\ n.currGLRC = IF w.level # 0 THEN Rc(0) ELSE NoRc
    BY <2>1, <2>2, <2>3 DEF DllType
  <2>5. m = WriteMakeCurrent(d, NoRc)
    BY <2>1, MakeCurrentReaches DEF Dc
  <2>6. /\ m \in DevType /\ m.PBRC = d.PBRC /\ m.refs = d.refs
        /\ m.queue \subseteq d.queue /\ (Gate(d) => m.queue = {})
    BY <2>5, MakeCurrentFacts
  <2>7. Unset(w) = mglDeleteContext(n, Rc(0)) /\ UnsetWrites(w, d) = DeleteWrites(n, m, Rc(0))
    BY <1>2 DEF Unset, UnsetWrites
  <2> HIDE DEF n, m
  <2>8. Deletes(n, Rc(0)) <=> w.level = 0
    BY <2>4, Handles DEF Deletes
  <2>9. /\ DeleteWrites(n, m, Rc(0)) \in DevType
        /\ DeleteWrites(n, m, Rc(0)).refs = m.refs
        /\ DeleteWrites(n, m, Rc(0)).queue \subseteq m.queue
        /\ Deletes(n, Rc(0)) =>
             \A i \in Pb : DeleteWrites(n, m, Rc(0)).PBRC[i] =
                            IF i \in n.currPB THEN None ELSE m.PBRC[i]
        /\ ~Deletes(n, Rc(0)) => DeleteWrites(n, m, Rc(0)) = m
    BY <2>3, <2>4, <2>6, DeleteReaches
  <2>10. CASE w.level = 0
    <3>1. Unset(w) = [n EXCEPT !.currDC = FALSE, !.currPB = {}]
      BY <2>7, <2>8, <2>10 DEF mglDeleteContext
    <3>2. /\ Unset(w) \in DllType /\ Unset(w).loaded = w.loaded
          /\ Unset(w).currPixFmt = w.currPixFmt /\ Unset(w).level = 0
          /\ Unset(w).currGLRC = NoRc /\ Unset(w).currPB = {}
      BY <2>4, <2>10, <3>1 DEF DllType
    <3> QED
      BY <1>2, <2>4, <2>6, <2>7, <2>8, <2>9, <2>10, <3>2 DEF HasDc
  <2>11. CASE w.level # 0
    <3>1. Unset(w) = n /\ UnsetWrites(w, d) = m
      BY <2>7, <2>8, <2>9, <2>11 DEF mglDeleteContext
    <3> QED
      BY <1>2, <2>4, <2>6, <2>11, <3>1 DEF HasDc
  <2> QED
    BY <2>10, <2>11
<1> QED
  BY <1>1, <1>2

-----------------------------------------------------------------------------
(* Types, with what holds of the wrapper's variables whatever happens *)

WrapperOK ==
  /\ ~dll.loaded => dll = NewDll /\ app = NewApp
  /\ HasDc(dll)
  /\ dll.currDC \/ app.holds \cup app.old # {} => dll.currPixFmt
  /\ dll.currPixFmt => dll.loaded
  /\ dll.currPB \subseteq {i \in Pb : dev.PBRC[i] # None}

TInv == TypeOK /\ WrapperOK

LEMMA TInvInit == Init => TInv
<1> SUFFICES ASSUME Init PROVE TInv
  OBVIOUS
<1>1. 0 \in Level
  BY DEF Level
<1>2. NoContexts \in [Level -> Id \cup {None}] /\ NoPbuffers \in [Pb -> Id \cup {None}]
  BY DEF NoContexts, NoPbuffers
<1>3. NewDll \in DllType
  BY <1>1 DEF NewDll, DllType
<1>4. NewDev \in DevType
  BY <1>2 DEF NewDev, DevType
<1>5. NewApp \in AppType
  BY DEF NewApp, AppType
<1>6. WrapperOK
  BY DEF Init, WrapperOK, HasDc, NewDll, NewApp
<1> QED
  BY <1>3, <1>4, <1>5, <1>6 DEF Init, TInv, TypeOK

LEMMA NewTypes ==
  /\ NewDll \in DllType /\ NewApp \in AppType
  /\ NewDll.currGLRC = NoRc /\ NewDll.level = 0 /\ ~NewDll.loaded /\ NewDll.currPB = {}
  /\ ~NewDll.currDC /\ ~NewDll.currPixFmt
  /\ NewApp.holds = {} /\ NewApp.old = {} /\ NewApp.cur = <<NoRc, None>>
BY DEF NewDll, NewApp, DllType, AppType, Level

\* A pair the application has was made of a handle and a context.
LEMMA Pairs ==
  ASSUME TypeOK, NEW p \in app.holds \cup app.old
  PROVE  /\ p \in Handle \X Id /\ p[1] \in Handle /\ p[2] \in Id /\ p = <<p[1], p[2]>>
         /\ DcOf(p[1]) \in Dc /\ DcOf(p[1]) # NoDC /\ p[1] # NoRc
<1>1. p \in Handle \X Id
  BY DEF TypeOK, AppType
<1>2. p[1] \in Handle /\ p[2] \in Id /\ p = <<p[1], p[2]>>
  BY <1>1
<1>3. ASSUME NEW n \in Level, p[1] = Rc(n)
      PROVE  DcOf(p[1]) \in Dc /\ DcOf(p[1]) # NoDC /\ p[1] # NoRc
  <2>1. DcOf(p[1]) = Window
    BY <1>3 DEF DcOf, Rc
  <2> QED
    BY <1>3, <2>1, Handles DEF Dc
<1>4. ASSUME NEW i \in Pb, p[1] = PbRc(i)
      PROVE  DcOf(p[1]) \in Dc /\ DcOf(p[1]) # NoDC /\ p[1] # NoRc
  <2>1. DcOf(p[1]) = PbRc(i)
    BY <1>4 DEF DcOf, PbRc
  <2> QED
    BY <1>4, <2>1, Handles DEF Dc
<1> QED
  BY <1>1, <1>2, <1>3, <1>4 DEF Handle

LEMMA ReturnedTypes ==
  ASSUME NEW w \in DllType, NEW i \in Pb
  PROVE  /\ Returned(w, Window) \in {NoRc, Rc(0)}
         /\ Returned(w, PbRc(i)) \in {NoRc, Rc(0), PbRc(i)}
         /\ Rc(0) \in Handle /\ PbRc(i) \in Handle /\ PbRc(i) \in Dc /\ Window \in Dc /\ NoDC \in Dc
BY Handles DEF Returned, Handle, Level, Dc

LEMMA FirstHandle == 0 \in Level /\ Rc(0) \in Handle
BY DEF Level, Handle

LEMMA Restarted ==
  ASSUME NEW w \in DllType, NEW id \in Id
  PROVE  /\ InitClientStates(w, id) \in DllType
         /\ InitClientStates(w, id).loaded = w.loaded
         /\ InitClientStates(w, id).currPixFmt = w.currPixFmt
         /\ InitClientStates(w, id).currGLRC = w.currGLRC
         /\ InitClientStates(w, id).currPB = w.currPB
BY DEF InitClientStates, DllType

LEMMA HoldingTypes ==
  ASSUME app \in AppType, NEW rc \in Handle \cup {NoRc}, NEW id \in Id
  PROVE  /\ Holding(rc, id) \in AppType
         /\ Holding(rc, id).holds = app.holds \cup (IF rc = NoRc THEN {} ELSE {<<rc, id>>})
         /\ Holding(rc, id).old = app.old /\ Holding(rc, id).cur = app.cur
BY DEF Holding, AppType

LEMMA Levels ==
  ASSUME NEW n \in Level
  PROVE  /\ NextLevel(n) \in Level /\ NextLevel(n) # 0
         /\ n + 1 < MaxLvl => NextLevel(n) = n + 1
<1>1. n + 1 < MaxLvl => (n + 1) % MaxLvl = n + 1
  BY DEF Level
<1>2. n + 1 = MaxLvl => (n + 1) % MaxLvl = 0
  BY DEF Level
<1>3. n + 1 < MaxLvl \/ n + 1 = MaxLvl
  BY DEF Level
<1>4. 1 \in Level /\ (n + 1 < MaxLvl => n + 1 \in Level)
  BY DEF Level
<1> QED
  BY <1>1, <1>2, <1>3, <1>4 DEF NextLevel, Level

\* Shared or not, what wglCreateContextAttribsARB does is of the right types.
LEMMA AttribsTypes ==
  ASSUME NEW d \in DevType, NEW share \in BOOLEAN, NEW id \in Id \cup {None}
  PROVE  /\ WriteCreateAttribs(d, share, id) \in DevType
         /\ WriteCreateAttribs(d, share, id).PBRC = d.PBRC
         /\ WriteCreateAttribs(d, share, id).refs = d.refs
         /\ WriteCreateAttribs(d, share, id).queue \subseteq d.queue
         /\ Gate(d) => WriteCreateAttribs(d, share, id).queue = {}
BY AloneFacts, SharedFacts DEF WriteCreateAttribs

LEMMA LeastNumber ==
  ASSUME NEW S \in SUBSET Nat, S # {}
  PROVE  \E n \in S : \A k \in S : n <= k
<1>1. PICK n \in S : \A k \in S : <<k, n>> \notin OpToRel(<, Nat)
  BY WFMin, NatLessThanWellFounded, Zenon
<1>2. \A k \in S : ~(k < n)
  BY <1>1 DEF OpToRel
<1> QED
  BY <1>2

\* The slot that is looked for is the first free one.
LEMMA FirstSlot ==
  ASSUME NEW d, Free(d) # {}
  PROVE  Slot(d) \in Free(d) /\ \A k \in Free(d) : Slot(d) <= k
<1>1. Free(d) \in SUBSET Nat
  BY DEF Free, Level
<1>2. \E n \in Free(d) : \A k \in Free(d) : n <= k
  BY <1>1, LeastNumber
<1> QED
  BY <1>2 DEF Slot

LEMMA FirstPb ==
  ASSUME NEW d, FreePb(d) # {}
  PROVE  PbSlot(d) \in FreePb(d)
<1>1. FreePb(d) \in SUBSET Nat
  BY DEF FreePb, Pb
<1>2. \E n \in FreePb(d) : \A k \in FreePb(d) : n <= k
  BY <1>1, LeastNumber
<1> QED
  BY <1>2 DEF PbSlot

LEMMA TInvProcess ==
  ASSUME TInv,
         \/ \E same \in BOOLEAN : Attach(same)
         \/ Detach
         \/ Killed
         \/ wglSetPixelFormat
  PROVE  TInv'
<1> USE DEF TInv
<1>1. /\ dll \in DllType /\ dev \in DevType /\ app \in AppType
      /\ HasDc(dll) /\ NewDll \in DllType /\ NewApp \in AppType
  BY NewTypes DEF TypeOK, WrapperOK
<1>2. ASSUME NEW same \in BOOLEAN, Attach(same) PROVE TInv'
  <2>1. /\ dll' \in DllType /\ dll'.currGLRC = NoRc /\ dll'.level = 0 /\ dll'.currPB = {} /\ dll'.loaded
        /\ ~dll'.currDC /\ ~dll'.currPixFmt
    BY <1>2, NewTypes DEF Attach, DllType
  <2>2. dev' \in DevType
    <3>1. dev' = [dev EXCEPT !.refs = 1, !.queue = {}] \/ dev' = [dev EXCEPT !.refs = 2]
      BY <1>2 DEF Attach
    <3>2. [dev EXCEPT !.refs = 2] \in DevType
      BY <1>1 DEF DevType
    <3>3. [dev EXCEPT !.refs = 1, !.queue = {}] \in DevType
      <4>1. {} \in SUBSET [made : Id, start : Id \cup {None}] /\ 1 \in 0..2
        OBVIOUS
      <4> QED
        BY <1>1, <4>1 DEF DevType
    <3> QED
      BY <3>1, <3>2, <3>3
  <2>3. app' = NewApp
    BY <1>2 DEF Attach
  <2> QED
    BY <1>1, <2>1, <2>2, <2>3, NewTypes DEF TypeOK, WrapperOK, HasDc
<1>3. CASE Detach
  <2>1. dll' = NewDll /\ app' = NewApp
    BY <1>3 DEF Detach
  <2>2. dev' \in DevType
    <3> DEFINE u == UnsetWrites(dll, dev)
    <3>1. u \in DevType
      BY <1>1, UnsetFacts
    <3>2. WriteUnload(u) \in DevType
      BY <3>1, UnloadFacts
    <3>3. dev' = [WriteUnload(u) EXCEPT !.refs = 0] \/ dev' = [dev EXCEPT !.refs = 1]
      BY <1>3 DEF Detach
    <3> HIDE DEF u
    <3> QED
      BY <1>1, <3>2, <3>3 DEF DevType
  <2> QED
    BY <1>1, <2>1, <2>2, NewTypes DEF TypeOK, WrapperOK, HasDc
<1>4. CASE Killed
  <2>1. dll' = NewDll /\ app' = NewApp /\ dev' = dev
    BY <1>4 DEF Killed
  <2> QED
    BY <1>1, <2>1, NewTypes DEF TypeOK, WrapperOK, HasDc
<1>5. CASE wglSetPixelFormat
  <2> DEFINE w == Unset(dll)
             u == UnsetWrites(dll, dev)
  <2>1. /\ dll' = [w EXCEPT !.currPixFmt = TRUE] /\ dev' = processFifo(u)
        /\ app' = app /\ dll.loaded
    BY <1>5 DEF wglSetPixelFormat
  <2>2. /\ w \in DllType /\ w.loaded = dll.loaded /\ HasDc(w) /\ u \in DevType
    BY <1>1, UnsetFacts
  <2>3. w.currPB \subseteq {i \in Pb : u.PBRC[i] # None}
    <3>1. CASE dll.currGLRC = NoRc
      BY <1>1, <3>1, UnsetFacts DEF WrapperOK
    <3>2. CASE dll.currGLRC # NoRc /\ dll.level = 0
      BY <1>1, <3>2, UnsetFacts
    <3>3. CASE dll.currGLRC # NoRc /\ dll.level # 0
      BY <1>1, <3>3, UnsetFacts DEF WrapperOK
    <3> QED
      BY <3>1, <3>2, <3>3
  <2>4. processFifo(u) \in DevType /\ processFifo(u).PBRC = u.PBRC
    BY <2>2, DrainFacts
  <2> HIDE DEF w, u
  <2>5. /\ dll' \in DllType /\ dll'.loaded /\ HasDc(dll') /\ dll'.currPB = w.currPB /\ dll'.currPixFmt
    BY <2>1, <2>2 DEF DllType, HasDc
  <2> QED
    BY <1>1, <2>1, <2>3, <2>4, <2>5 DEF TypeOK, WrapperOK
<1> QED
  BY <1>2, <1>3, <1>4, <1>5

LEMMA TInvCreate ==
  ASSUME TInv,
         NEW id \in NewId,
         \/ \E ok \in BOOLEAN : wglCreateContext(id, ok)
         \/ \E i \in dll.currPB : wglCreateContextPb(i, id)
         \/ \E ok \in BOOLEAN : AttribsAlone(id, ok)
         \/ \E ok \in BOOLEAN, p \in app.holds : AttribsShared(p, id, ok)
  PROVE  TInv'
<1> USE DEF TInv
<1>1. /\ dll \in DllType /\ dev \in DevType /\ app \in AppType /\ id \in Id
      /\ HasDc(dll)
  BY DEF TypeOK, WrapperOK, NewId
<1>2. ASSUME NEW ok \in BOOLEAN, wglCreateContext(id, ok) PROVE TInv'
  <2> DEFINE e == IF ok THEN id ELSE None
  <2>1. /\ dll.currPixFmt /\ dll' = mglCreateContext(dll, Window, id)
        /\ dev' = WriteCreate(dev, Window, e) /\ app' = Holding(Returned(dll, Window), id)
    BY <1>2 DEF wglCreateContext
  <2>2. e \in Id \cup {None} /\ Window \in Dc
    BY <1>1 DEF Dc
  <2> HIDE DEF e
  <2>3. dev' \in DevType /\ dev'.PBRC = dev.PBRC
    BY <1>1, <2>1, <2>2, CreateFacts
  <2>4. /\ dll' \in DllType /\ HasDc(dll') /\ dll'.loaded = dll.loaded
        /\ dll'.currPixFmt = dll.currPixFmt /\ dll'.currPB = dll.currPB
    <3>1. dll' = IF dll.currGLRC = NoRc
                 THEN [dll EXCEPT !.start = id, !.calls = {}, !.currDC = Window # NoDC] ELSE dll
      BY <1>1, <2>1, <2>2, WrapperCreates
    <3>2. dll' = [dll EXCEPT !.start = id, !.calls = {}, !.currDC = TRUE] \/ dll' = dll
      BY <3>1, Handles
    <3> QED
      BY <1>1, <3>2 DEF DllType, HasDc
  <2>5. app' \in AppType
    <3>1. Returned(dll, Window) \in Handle \cup {NoRc}
      BY <1>1, FirstHandle, Handles DEF Returned
    <3> QED
      BY <1>1, <2>1, <3>1, HoldingTypes
  <2> QED
    BY <1>1, <2>1, <2>3, <2>4, <2>5 DEF TypeOK, WrapperOK
<1>3. ASSUME NEW i \in dll.currPB, wglCreateContextPb(i, id) PROVE TInv'
  <2>1. /\ dll.currPixFmt /\ dll' = mglCreateContext(dll, PbRc(i), id)
        /\ dev' = WriteCreate(dev, PbRc(i), None)
        /\ app' = Holding(Returned(dll, PbRc(i)), dev.PBRC[i])
    BY <1>3 DEF wglCreateContextPb
  <2>2. i \in Pb /\ dev.PBRC[i] \in Id
    BY <1>1 DEF WrapperOK, DevType
  <2>3. dev' \in DevType /\ dev'.PBRC = dev.PBRC
    BY <1>1, <2>1, <2>2, CreateFacts, ReturnedTypes
  <2>4. /\ dll' \in DllType /\ HasDc(dll') /\ dll'.loaded = dll.loaded
        /\ dll'.currPixFmt = dll.currPixFmt /\ dll'.currPB = dll.currPB
    <3>1. dll' = IF dll.currGLRC = NoRc
                 THEN [dll EXCEPT !.start = id, !.calls = {}, !.currDC = PbRc(i) # NoDC] ELSE dll
      BY <1>1, <2>1, <2>2, WrapperCreates, ReturnedTypes
    <3>2. dll' = [dll EXCEPT !.start = id, !.calls = {}, !.currDC = TRUE] \/ dll' = dll
      BY <3>1, Handles
    <3> QED
      BY <1>1, <3>2 DEF DllType, HasDc
  <2>5. app' \in AppType
    BY <1>1, <2>1, <2>2, HoldingTypes, ReturnedTypes
  <2> QED
    BY <1>1, <2>1, <2>3, <2>4, <2>5 DEF TypeOK, WrapperOK
<1>4. ASSUME NEW ok \in BOOLEAN, AttribsAlone(id, ok) PROVE TInv'
  <2>1. /\ dll.currPixFmt /\ dev' = WriteCreateAttribs(dev, FALSE, IF ok THEN id ELSE None)
    BY <1>4 DEF AttribsAlone
  <2>2. dev' \in DevType /\ dev'.PBRC = dev.PBRC
    BY <1>1, <2>1, AttribsTypes
  <2>3. CASE ok
    <3>1. /\ dll' = [InitClientStates(dll, id) EXCEPT !.currDC = TRUE, !.currGLRC = NoRc, !.level = 0]
          /\ app' = [app EXCEPT !.holds = {<<Rc(0), id>>}, !.old = app.holds]
      BY <1>4, <2>3 DEF AttribsAlone
    <3>2. /\ dll' \in DllType /\ HasDc(dll') /\ dll'.loaded = dll.loaded
          /\ dll'.currPixFmt = dll.currPixFmt /\ dll'.currPB = dll.currPB
      BY <1>1, <3>1, Restarted, FirstHandle DEF DllType, HasDc
    <3>3. app' \in AppType
      <4>1. <<Rc(0), id>> \in Handle \X Id
        BY <1>1, FirstHandle
      <4>2. {<<Rc(0), id>>} \in SUBSET (Handle \X Id)
        BY <4>1
      <4> QED
        BY <1>1, <3>1, <4>2 DEF AppType
    <3> QED
      BY <1>1, <2>1, <2>2, <3>2, <3>3 DEF TypeOK, WrapperOK
  <2>4. CASE ~ok
    <3>1. dll' = dll /\ app' = app
      BY <1>4, <2>4 DEF AttribsAlone
    <3> QED
      BY <1>1, <2>2, <3>1 DEF TypeOK, WrapperOK
  <2> QED
    BY <2>3, <2>4
<1>5. ASSUME NEW ok \in BOOLEAN, NEW p \in app.holds, AttribsShared(p, id, ok) PROVE TInv'
  <2>1. /\ dll.currPixFmt /\ dll.loaded /\ dev' = WriteCreateAttribs(dev, TRUE, IF ok THEN id ELSE None)
    BY <1>5 DEF AttribsShared, WrapperOK
  <2>2. dev' \in DevType /\ dev'.PBRC = dev.PBRC
    BY <1>1, <2>1, AttribsTypes
  <2>3. CASE ~ok
    <3>1. dll' = dll /\ app' = app
      BY <1>5, <2>3 DEF AttribsShared
    <3> QED
      BY <1>1, <2>2, <3>1 DEF TypeOK, WrapperOK
  <2>4. CASE ok /\ dll.currGLRC # NoRc
    <3>1. /\ dll' = [dll EXCEPT !.level = NextLevel(dll.level)]
          /\ app' = Holding(Rc(NextLevel(dll.level)), id)
      BY <1>5, <2>4 DEF AttribsShared
    <3>2. dll.level \in Level /\ NextLevel(dll.level) \in Level
      BY <1>1, Levels DEF DllType
    <3>3. /\ dll' \in DllType /\ HasDc(dll') /\ dll'.loaded = dll.loaded
          /\ dll'.currPixFmt = dll.currPixFmt /\ dll'.currPB = dll.currPB
      BY <1>1, <2>4, <3>1, <3>2 DEF DllType, HasDc
    <3>4. app' \in AppType
      BY <1>1, <3>1, <3>2, HoldingTypes DEF Handle
    <3> QED
      BY <1>1, <2>1, <2>2, <3>3, <3>4 DEF TypeOK, WrapperOK
  <2>5. CASE ok /\ dll.currGLRC = NoRc
    <3>1. /\ dll' = [InitClientStates(dll, id) EXCEPT !.currDC = TRUE, !.level = 0]
          /\ app' = Holding(Rc(0), id)
      BY <1>5, <2>5 DEF AttribsShared
    <3>2. /\ dll' \in DllType /\ HasDc(dll') /\ dll'.loaded = dll.loaded
          /\ dll'.currPixFmt = dll.currPixFmt /\ dll'.currPB = dll.currPB
      BY <1>1, <3>1, Restarted, FirstHandle DEF DllType, HasDc
    <3>3. app' \in AppType
      BY <1>1, <3>1, FirstHandle, HoldingTypes
    <3> QED
      BY <1>1, <2>1, <2>2, <3>2, <3>3 DEF TypeOK, WrapperOK
  <2> QED
    BY <2>3, <2>4, <2>5
<1> QED
  BY <1>2, <1>3, <1>4, <1>5

\* Calls on the application's contexts.
LEMMA TInvUse ==
  ASSUME TInv,
         \/ \E id \in NewId, p \in app.holds \cup app.old : wglMakeCurrent(p, id)
         \/ \E id \in NewId : wglMakeCurrentNone(id)
         \/ \E p \in app.holds \cup app.old : wglDeleteContext(p)
         \/ glQueued
         \/ glNow
  PROVE  TInv'
<1> USE DEF TInv
<1>1. /\ dll \in DllType /\ dev \in DevType /\ app \in AppType /\ NewId \subseteq Id
      /\ HasDc(dll)
  BY DEF TypeOK, WrapperOK, NewId
<1>2. ASSUME NEW id \in NewId, NEW p \in app.holds \cup app.old, wglMakeCurrent(p, id) PROVE TInv'
  <2>1. /\ p \in Handle \X Id /\ p[1] \in Handle /\ p[2] \in Id
        /\ DcOf(p[1]) \in Dc /\ DcOf(p[1]) # NoDC /\ p[1] # NoRc
    BY Pairs
  <2>2. /\ dll' = mglMakeCurrent(dll, DcOf(p[1]), p[1], id)
        /\ dev' = MakeCurrentWrites(dll, dev, DcOf(p[1]), p[1], id)
        /\ app' = IF MakeFails(dll, DcOf(p[1])) THEN app ELSE [app EXCEPT !.cur = p]
    BY <1>2 DEF wglMakeCurrent
  <2>3. dev' \in DevType /\ dev'.PBRC = dev.PBRC
    BY <1>1, <2>1, <2>2, MakeCurrentReaches
  <2>4. dll.currPixFmt /\ dll.loaded
    BY DEF WrapperOK
  <2> DEFINE r == mglMakeCurrent(dll, DcOf(p[1]), p[1], id)
  <2>r. /\ r \in DllType /\ r.loaded = dll.loaded /\ r.currPixFmt = dll.currPixFmt
        /\ r.currPB = dll.currPB
        /\ dll.currDC => r.currDC
        /\ ~dll.currDC /\ dll.currPixFmt => r.currDC = (DcOf(p[1]) # NoDC)
    BY <1>1, <2>1, WrapperMakesCurrent
  <2>s. dll' = r
    BY <2>2
  <2> HIDE DEF r
  <2>5. /\ dll' \in DllType /\ dll'.loaded = dll.loaded /\ dll'.currPixFmt = dll.currPixFmt
        /\ dll'.currPB = dll.currPB
    BY <2>r, <2>s
  <2>6. dll'.currDC
    <3>1. CASE dll.currDC
      BY <2>r, <2>s, <3>1
    <3>2. CASE ~dll.currDC
      BY <2>1, <2>4, <2>r, <2>s, <3>2
    <3> QED
      BY <3>1, <3>2
  <2>7. app' \in AppType /\ app'.holds = app.holds /\ app'.old = app.old
    BY <1>1, <2>1, <2>2 DEF AppType
  <2> QED
    BY <1>1, <2>3, <2>4, <2>5, <2>6, <2>7 DEF TypeOK, WrapperOK, HasDc
<1>3. ASSUME NEW id \in NewId, wglMakeCurrentNone(id) PROVE TInv'
  <2>1. /\ dll' = mglMakeCurrent(dll, NoDC, NoRc, id)
        /\ dev' = MakeCurrentWrites(dll, dev, NoDC, NoRc, id)
        /\ app' = [app EXCEPT !.cur = NewApp.cur] /\ dll.loaded
    BY <1>3 DEF wglMakeCurrentNone
  <2>2. NoDC \in Dc
    BY DEF Dc
  <2>3. dev' \in DevType /\ dev'.PBRC = dev.PBRC
    BY <1>1, <2>1, <2>2, MakeCurrentReaches
  <2> DEFINE r == mglMakeCurrent(dll, NoDC, NoRc, id)
  <2>r. /\ r \in DllType /\ r.loaded = dll.loaded /\ r.currPixFmt = dll.currPixFmt
        /\ r.currPB = dll.currPB /\ r.level = dll.level
        /\ dll.currDC => r.currDC
        /\ ~dll.currDC /\ ~dll.currPixFmt => r = dll
        /\ ~dll.currDC /\ dll.currPixFmt => r.currGLRC = NoRc /\ r.currDC = (NoDC # NoDC)
    BY <1>1, <2>2, WrapperMakesCurrent
  <2>s. dll' = r
    BY <2>1
  <2> HIDE DEF r
  <2>4. /\ dll' \in DllType /\ dll'.loaded = dll.loaded /\ dll'.currPixFmt = dll.currPixFmt
        /\ dll'.currPB = dll.currPB
    BY <2>r, <2>s
  <2>5. HasDc(dll') /\ (dll'.currDC => dll.currDC)
    <3>1. CASE dll.currDC
      BY <2>r, <2>s, <3>1 DEF HasDc
    <3>2. CASE ~dll.currDC /\ dll.currPixFmt
      BY <1>1, <2>r, <2>s, <3>2 DEF HasDc
    <3>3. CASE ~dll.currDC /\ ~dll.currPixFmt
      BY <1>1, <2>r, <2>s, <3>3
    <3> QED
      BY <3>1, <3>2, <3>3
  <2>6. app' \in AppType /\ app'.holds = app.holds /\ app'.old = app.old
    BY <1>1, <2>1 DEF AppType
  <2> QED
    BY <1>1, <2>1, <2>3, <2>4, <2>5, <2>6 DEF TypeOK, WrapperOK
<1>4. ASSUME NEW p \in app.holds \cup app.old, wglDeleteContext(p) PROVE TInv'
  <2>1. p[1] \in Handle
    BY Pairs
  <2>2. /\ dll' = mglDeleteContext(dll, p[1]) /\ dev' = DeleteWrites(dll, dev, p[1])
        /\ app' = [app EXCEPT !.holds = @ \ {p}, !.old = @ \ {p},
                              !.cur = IF @ = p THEN NewApp.cur ELSE @]
    BY <1>4 DEF wglDeleteContext
  <2>3. app' \in AppType /\ app'.holds \subseteq app.holds /\ app'.old \subseteq app.old
    BY <1>1, <2>2 DEF AppType
  <2>4. dll.currPixFmt /\ dll.loaded
    BY DEF WrapperOK
  <2>5. CASE Deletes(dll, p[1])
    <3>1. dll' = [dll EXCEPT !.currDC = FALSE, !.currPB = {}] /\ dll.level = 0 /\ dll.currGLRC = NoRc
      BY <2>2, <2>5 DEF mglDeleteContext, Deletes
    <3>2. /\ dll' \in DllType /\ HasDc(dll') /\ dll'.loaded /\ dll'.currPixFmt
          /\ dll'.currPB = {}
      BY <1>1, <2>4, <3>1 DEF DllType, HasDc
    <3>3. dev' \in DevType
      BY <1>1, <2>1, <2>2, DeleteReaches
    <3> QED
      BY <1>1, <2>3, <3>2, <3>3 DEF TypeOK, WrapperOK
  <2>6. CASE ~Deletes(dll, p[1])
    <3>1. dll' = dll /\ dev' = dev
      BY <1>1, <2>1, <2>2, <2>6, DeleteReaches DEF mglDeleteContext
    <3> QED
      BY <1>1, <2>3, <2>4, <3>1 DEF TypeOK, WrapperOK
  <2> QED
    BY <2>5, <2>6
<1>5. ASSUME glQueued \/ glNow PROVE TInv'
  <2>1. /\ app' = app /\ dll' = [dll EXCEPT !.calls = @ \cup {dll.start}]
    BY <1>5 DEF glQueued, glNow
  <2>2. Call \in [made : Id, start : Id \cup {None}]
    <3>1. app.cur \in app.holds
      BY <1>5 DEF glQueued, glNow, CanCall
    <3>2. app.cur[2] \in Id
      BY <3>1, Pairs
    <3> QED
      BY <1>1, <3>2 DEF Call, DllType
  <2> DEFINE q == [dev EXCEPT !.queue = @ \cup {Call}]
  <2>3. q \in DevType /\ q.PBRC = dev.PBRC
    BY <1>1, <2>2 DEF DevType
  <2>4. dev' \in {q, processFifo(q), dev}
    BY <1>5 DEF glQueued, glNow
  <2> HIDE DEF q
  <2>5. dev' \in DevType /\ dev'.PBRC = dev.PBRC
    BY <1>1, <2>3, <2>4, DrainFacts
  <2>6. /\ dll' \in DllType /\ HasDc(dll') /\ dll'.loaded = dll.loaded /\ dll'.currDC = dll.currDC
        /\ dll'.currPixFmt = dll.currPixFmt /\ dll'.currPB = dll.currPB /\ dll'.calls # {}
    BY <1>1, <2>1 DEF DllType, HasDc
  <2>7. dll.loaded
    BY <1>5 DEF glQueued, glNow, CanCall, WrapperOK
  <2> QED
    BY <1>1, <2>1, <2>5, <2>6, <2>7 DEF TypeOK, WrapperOK
<1> QED
  BY <1>2, <1>3, <1>4, <1>5

LEMMA TInvPbuffers ==
  ASSUME TInv,
         \/ \E id \in NewId, width \in Pb : wglCreatePbufferARB(id, width)
         \/ \E i \in dll.currPB : wglDestroyPbufferARB(i)
  PROVE  TInv'
<1> USE DEF TInv
<1>1. /\ dll \in DllType /\ dev \in DevType /\ app \in AppType /\ NewId \subseteq Id
      /\ HasDc(dll)
  BY DEF TypeOK, WrapperOK, NewId
<1>p. /\ processFifo(dev) \in DevType /\ processFifo(dev).PBRC = dev.PBRC
  BY <1>1, DrainFacts
<1>2. ASSUME NEW id \in NewId, NEW width \in Pb, wglCreatePbufferARB(id, width) PROVE TInv'
  <2> DEFINE full == FreePb(dev) = {}
             i == IF full THEN width ELSE PbSlot(dev)
  <2>1. /\ dev' = IF full THEN processFifo(dev) ELSE [processFifo(dev) EXCEPT !.PBRC[i] = id]
        /\ dll' = [dll EXCEPT !.currPB = IF full THEN @ \ {i} ELSE @ \cup {i}]
        /\ app' = app /\ dll.currPixFmt
    BY <1>2 DEF wglCreatePbufferARB
  <2>2. i \in Pb
    <3>1. CASE full
      BY <3>1
    <3>2. CASE ~full
      BY <3>2, FirstPb DEF FreePb
    <3> QED
      BY <3>1, <3>2
  <2> HIDE DEF full, i
  <2>3. /\ dll' \in DllType /\ HasDc(dll') /\ dll'.loaded = dll.loaded /\ dll'.currDC = dll.currDC
        /\ dll'.currPixFmt /\ dll'.currPB = IF full THEN dll.currPB \ {i} ELSE dll.currPB \cup {i}
    BY <1>1, <2>1, <2>2 DEF DllType, HasDc
  <2>4. dev' \in DevType /\ \A k \in Pb : dev'.PBRC[k] = IF ~full /\ k = i THEN id ELSE dev.PBRC[k]
    BY <1>1, <1>p, <2>1, <2>2 DEF DevType
  <2>5. id # None /\ dll.loaded
    BY <1>1, <2>1 DEF WrapperOK
  <2>6. dll'.currPB \subseteq {k \in Pb : dev'.PBRC[k] # None}
    <3>1. dll.currPB \subseteq {k \in Pb : dev.PBRC[k] # None}
      BY DEF WrapperOK
    <3> SUFFICES ASSUME NEW k \in dll'.currPB PROVE k \in Pb /\ dev'.PBRC[k] # None
      OBVIOUS
    <3>2. CASE k = i
      BY <2>2, <2>3, <2>4, <2>5, <3>2
    <3>3. CASE k # i
      BY <2>3, <2>4, <3>1, <3>3
    <3> QED
      BY <3>2, <3>3
  <2> QED
    BY <1>1, <2>1, <2>3, <2>4, <2>5, <2>6 DEF TypeOK, WrapperOK
<1>3. ASSUME NEW i \in dll.currPB, wglDestroyPbufferARB(i) PROVE TInv'
  <2>1. /\ dev' = [processFifo(dev) EXCEPT !.PBRC[i] = None]
        /\ dll' = [dll EXCEPT !.currPB = @ \ {i}]
        /\ app' = [app EXCEPT !.holds = {p \in @ : p[1] # PbRc(i)}]
    BY <1>3 DEF wglDestroyPbufferARB
  <2>2. i \in Pb /\ dll.loaded
    BY <1>1, NewTypes DEF WrapperOK, DllType
  <2>3. /\ dll' \in DllType /\ HasDc(dll') /\ dll'.loaded = dll.loaded /\ dll'.currDC = dll.currDC
        /\ dll'.currPixFmt = dll.currPixFmt /\ dll'.currPB = dll.currPB \ {i}
    BY <1>1, <2>1 DEF DllType, HasDc
  <2>4. dev' \in DevType /\ \A k \in Pb : dev'.PBRC[k] = IF k = i THEN None ELSE dev.PBRC[k]
    BY <1>1, <1>p, <2>1, <2>2 DEF DevType
  <2>5. app' \in AppType /\ app'.holds \subseteq app.holds /\ app'.old = app.old
    BY <1>1, <2>1 DEF AppType
  <2> QED
    BY <1>1, <2>2, <2>3, <2>4, <2>5 DEF TypeOK, WrapperOK
<1> QED
  BY <1>2, <1>3

LEMMA TInvNext == TInv /\ [Next]_vars => TInv'
<1> SUFFICES ASSUME TInv, [Next]_vars PROVE TInv'
  OBVIOUS
<1>1. CASE UNCHANGED vars
  BY <1>1 DEF vars, TInv, TypeOK, WrapperOK
<1>2. CASE Next
  BY <1>2, TInvProcess, TInvCreate, TInvUse, TInvPbuffers DEF Next
<1> QED
  BY <1>1, <1>2

\* Handles, slots and pairs of them stay ones the program has, whatever is
\* called in whatever order.
THEOREM ContextsTyped == Spec => []TypeOK
<1>1. TInv => TypeOK
  BY DEF TInv
<1> QED
  BY <1>1, TInvInit, TInvNext, PTL DEF Spec

-----------------------------------------------------------------------------
(* Pixel buffers *)

\* The calls that make no pixel buffer, destroy none, and load or unload nothing.
Keeps ==
  \/ \E id \in NewId, ok \in BOOLEAN : wglCreateContext(id, ok)
  \/ \E id \in NewId, i \in dll.currPB : wglCreateContextPb(i, id)
  \/ \E id \in NewId, ok \in BOOLEAN : AttribsAlone(id, ok)
  \/ \E id \in NewId, ok \in BOOLEAN, p \in app.holds : AttribsShared(p, id, ok)
  \/ \E id \in NewId, p \in app.holds \cup app.old : wglMakeCurrent(p, id)
  \/ \E id \in NewId : wglMakeCurrentNone(id)
  \/ glQueued
  \/ glNow

LEMMA Kept ==
  ASSUME TInv, Keeps
  PROVE  /\ dev'.PBRC = dev.PBRC /\ dev'.refs = dev.refs
         /\ dll'.loaded = dll.loaded /\ dll'.currPB = dll.currPB
<1> USE DEF TInv
<1>1. /\ dll \in DllType /\ dev \in DevType /\ HasDc(dll)
      /\ NewId \subseteq Id /\ None \in Id \cup {None} /\ NoDC \in Dc /\ Window \in Dc
  BY DEF TypeOK, WrapperOK, NewId, Dc
<1>c. ASSUME NEW dc \in Dc, NEW id \in Id
      PROVE  /\ mglCreateContext(dll, dc, id).loaded = dll.loaded
             /\ mglCreateContext(dll, dc, id).currPB = dll.currPB
  <2> DEFINE r == mglCreateContext(dll, dc, id)
  <2>1. r = [dll EXCEPT !.start = id, !.calls = {}, !.currDC = dc # NoDC] \/ r = dll
    BY <1>1, WrapperCreates
  <2> HIDE DEF r
  <2>2. r.loaded = dll.loaded /\ r.currPB = dll.currPB
    BY <1>1, <2>1 DEF DllType
  <2> QED
    BY <2>2 DEF r
<1>2. ASSUME NEW id \in NewId, NEW ok \in BOOLEAN, wglCreateContext(id, ok)
      PROVE  /\ dev'.PBRC = dev.PBRC /\ dev'.refs = dev.refs
             /\ dll'.loaded = dll.loaded /\ dll'.currPB = dll.currPB
  <2> DEFINE e == IF ok THEN id ELSE None
  <2>1. /\ dll' = mglCreateContext(dll, Window, id)
        /\ dev' = WriteCreate(dev, Window, e) /\ e \in Id \cup {None}
    BY <1>1, <1>2 DEF wglCreateContext
  <2> HIDE DEF e
  <2> QED
    <3>1. dll'.loaded = dll.loaded /\ dll'.currPB = dll.currPB
      BY <1>1, <1>c, <2>1
    <3>2. dev'.PBRC = dev.PBRC /\ dev'.refs = dev.refs
      BY <1>1, <2>1, CreateFacts
    <3> QED
      BY <3>1, <3>2
<1>3. ASSUME NEW id \in NewId, NEW i \in dll.currPB, wglCreateContextPb(i, id)
      PROVE  /\ dev'.PBRC = dev.PBRC /\ dev'.refs = dev.refs
             /\ dll'.loaded = dll.loaded /\ dll'.currPB = dll.currPB
  <2>1. /\ dll' = mglCreateContext(dll, PbRc(i), id) /\ dev' = WriteCreate(dev, PbRc(i), None)
    BY <1>3 DEF wglCreateContextPb
  <2>2. PbRc(i) \in Dc
    BY <1>1 DEF DllType, Dc
  <2> QED
    BY <1>1, <1>c, <2>1, <2>2, CreateFacts
<1>4. ASSUME NEW id \in NewId, NEW ok \in BOOLEAN, AttribsAlone(id, ok)
      PROVE  /\ dev'.PBRC = dev.PBRC /\ dev'.refs = dev.refs
             /\ dll'.loaded = dll.loaded /\ dll'.currPB = dll.currPB
  <2> DEFINE r == InitClientStates(dll, id)
  <2>1. /\ dev' = WriteCreateAttribs(dev, FALSE, IF ok THEN id ELSE None)
        /\ \/ dll' = dll
           \/ dll' = [r EXCEPT !.currDC = TRUE, !.currGLRC = NoRc, !.level = 0]
    BY <1>4 DEF AttribsAlone
  <2>r. r \in DllType /\ r.loaded = dll.loaded /\ r.currPB = dll.currPB
    BY <1>1, Restarted
  <2> HIDE DEF r
  <2>2. dll'.loaded = dll.loaded /\ dll'.currPB = dll.currPB
    BY <1>1, <2>1, <2>r DEF DllType
  <2> QED
    BY <1>1, <2>1, <2>2, AttribsTypes
<1>5. ASSUME NEW id \in NewId, NEW ok \in BOOLEAN, NEW p \in app.holds, AttribsShared(p, id, ok)
      PROVE  /\ dev'.PBRC = dev.PBRC /\ dev'.refs = dev.refs
             /\ dll'.loaded = dll.loaded /\ dll'.currPB = dll.currPB
  <2> DEFINE r == InitClientStates(dll, id)
  <2>1. /\ dev' = WriteCreateAttribs(dev, TRUE, IF ok THEN id ELSE None)
        /\ \/ dll' = dll
           \/ dll' = [dll EXCEPT !.level = NextLevel(@)]
           \/ dll' = [r EXCEPT !.currDC = TRUE, !.level = 0]
    BY <1>5 DEF AttribsShared
  <2>r. r \in DllType /\ r.loaded = dll.loaded /\ r.currPB = dll.currPB
    BY <1>1, Restarted
  <2> HIDE DEF r
  <2>2. dll'.loaded = dll.loaded /\ dll'.currPB = dll.currPB
    BY <1>1, <2>1, <2>r DEF DllType
  <2> QED
    BY <1>1, <2>1, <2>2, AttribsTypes
<1>6. ASSUME NEW id \in NewId, NEW p \in app.holds \cup app.old, wglMakeCurrent(p, id)
      PROVE  /\ dev'.PBRC = dev.PBRC /\ dev'.refs = dev.refs
             /\ dll'.loaded = dll.loaded /\ dll'.currPB = dll.currPB
  <2>1. /\ dll' = mglMakeCurrent(dll, DcOf(p[1]), p[1], id)
        /\ dev' = MakeCurrentWrites(dll, dev, DcOf(p[1]), p[1], id)
    BY <1>6 DEF wglMakeCurrent
  <2>2. p[1] \in Handle /\ DcOf(p[1]) \in Dc
    BY Pairs
  <2> QED
    BY <1>1, <2>1, <2>2, WrapperMakesCurrent, MakeCurrentReaches
<1>7. ASSUME NEW id \in NewId, wglMakeCurrentNone(id)
      PROVE  /\ dev'.PBRC = dev.PBRC /\ dev'.refs = dev.refs
             /\ dll'.loaded = dll.loaded /\ dll'.currPB = dll.currPB
  <2>1. /\ dll' = mglMakeCurrent(dll, NoDC, NoRc, id)
        /\ dev' = MakeCurrentWrites(dll, dev, NoDC, NoRc, id)
    BY <1>7 DEF wglMakeCurrentNone
  <2> QED
    BY <1>1, <2>1, WrapperMakesCurrent, MakeCurrentReaches
<1>8. ASSUME glQueued \/ glNow
      PROVE  /\ dev'.PBRC = dev.PBRC /\ dev'.refs = dev.refs
             /\ dll'.loaded = dll.loaded /\ dll'.currPB = dll.currPB
  <2>1. dll' = [dll EXCEPT !.calls = @ \cup {dll.start}] /\ CanCall
    BY <1>8 DEF glQueued, glNow
  <2>2. Call \in [made : Id, start : Id \cup {None}]
    BY <1>1, <2>1, Pairs DEF Call, CanCall, DllType
  <2> DEFINE q == [dev EXCEPT !.queue = @ \cup {Call}]
  <2>3. q \in DevType /\ q.PBRC = dev.PBRC /\ q.refs = dev.refs
    BY <1>1, <2>2 DEF DevType
  <2>4. dev' \in {q, processFifo(q), dev}
    BY <1>8 DEF glQueued, glNow
  <2> HIDE DEF q
  <2> QED
    BY <1>1, <2>1, <2>3, <2>4, DrainFacts DEF DllType
<1> QED
  BY <1>2, <1>3, <1>4, <1>5, <1>6, <1>7, <1>8 DEF Keeps

\* What has happened has happened.
LEMMA Remembered == ASSUME Next PROVE mishaps \subseteq mishaps'
BY DEF Next, Attach, Detach, Killed, wglSetPixelFormat, wglCreateContext, wglCreateContextPb,
       AttribsAlone, AttribsShared, wglMakeCurrent, wglMakeCurrentNone, wglDeleteContext,
       wglCreatePbufferARB, wglDestroyPbufferARB, glQueued, glNow, Happens

Agree ==
  /\ dev.refs = IF dll.loaded THEN 1 ELSE 0
  /\ dll.loaded => dll.currPB = {i \in Pb : dev.PBRC[i] # None}
  /\ ~dll.loaded => dev.PBRC = NoPbuffers

\* Between processes there are no pixel buffers, and the memory is not mapped.
PInv == Spared({"pbuffers", "left", "killed"}) => Agree

LEMMA PInvProcess ==
  ASSUME TInv, Agree, Spared({"pbuffers", "left", "killed"})',
         \/ \E same \in BOOLEAN : Attach(same)
         \/ Detach
         \/ Killed
         \/ wglSetPixelFormat
  PROVE  Agree'
<1> USE DEF TInv
<1>1. dll \in DllType /\ dev \in DevType /\ HasDc(dll)
  BY DEF TypeOK, WrapperOK
<1> DEFINE u == UnsetWrites(dll, dev)
<1>u. /\ Unset(dll) \in DllType /\ Unset(dll).loaded = dll.loaded /\ u \in DevType /\ u.refs = dev.refs
      /\ dll.currGLRC = NoRc => Unset(dll) = dll /\ u = dev
      /\ dll.currGLRC # NoRc /\ dll.level = 0 =>
           /\ Unset(dll).currPB = {}
           /\ \A i \in Pb : u.PBRC[i] = IF i \in dll.currPB THEN None ELSE dev.PBRC[i]
      /\ dll.currGLRC # NoRc /\ dll.level # 0 =>
           /\ Unset(dll).currPB = dll.currPB
           /\ u.PBRC = dev.PBRC
  BY <1>1, UnsetFacts
<1>2. ASSUME NEW same \in BOOLEAN, Attach(same) PROVE Agree'
  <2>1. /\ ~dll.loaded /\ dll' = [NewDll EXCEPT !.loaded = TRUE]
        /\ dev.refs = 0 => dev' = [dev EXCEPT !.refs = 1, !.queue = {}]
    BY <1>2 DEF Attach
  <2>2. dev.refs = 0 /\ dev.PBRC = NoPbuffers
    BY <2>1 DEF Agree
  <2>3. dll'.loaded /\ dll'.currPB = {}
    BY <2>1, NewTypes DEF DllType
  <2>4. dev'.refs = 1 /\ dev'.PBRC = NoPbuffers
    BY <1>1, <2>1, <2>2 DEF DevType
  <2> QED
    BY <2>3, <2>4 DEF Agree, NoPbuffers
<1>3. CASE Detach
  <2>1. /\ dll.loaded /\ dll' = NewDll
        /\ dev.refs = 1 => dev' = [WriteUnload(u) EXCEPT !.refs = 0]
        /\ dll.currPB # {} => dll.currGLRC # NoRc /\ dll.level = 0
    BY <1>3 DEF Detach, Spared, If
  <2>2. dev.refs = 1 /\ dll.currPB = {i \in Pb : dev.PBRC[i] # None}
    BY <2>1 DEF Agree
  <2> HIDE DEF u
  <2>3. dev'.refs = 0 /\ dev'.PBRC = u.PBRC
    BY <1>u, <2>1, <2>2, UnloadFacts DEF DevType
  <2>4. \A i \in Pb : u.PBRC[i] = None
    <3>1. CASE dll.currPB = {}
      BY <1>u, <2>2, <3>1
    <3>2. CASE dll.currPB # {}
      BY <1>u, <2>1, <2>2, <3>2
    <3> QED
      BY <3>1, <3>2
  <2>5. u.PBRC = NoPbuffers
    BY <1>u, <2>4 DEF DevType, NoPbuffers
  <2> QED
    BY <2>1, <2>3, <2>5, NewTypes DEF Agree
<1>4. CASE Killed
  BY <1>4 DEF Killed, Happens, Spared
<1>5. CASE wglSetPixelFormat
  <2>1. dll' = [Unset(dll) EXCEPT !.currPixFmt = TRUE] /\ dev' = processFifo(u) /\ dll.loaded
    BY <1>5 DEF wglSetPixelFormat
  <2>2. dev.refs = 1 /\ dll.currPB = {i \in Pb : dev.PBRC[i] # None}
    BY <2>1 DEF Agree
  <2> HIDE DEF u
  <2>3. dll'.loaded /\ dll'.currPB = Unset(dll).currPB
    BY <1>u, <2>1 DEF DllType
  <2>4. dev'.refs = 1 /\ dev'.PBRC = u.PBRC
    BY <1>u, <2>1, <2>2, DrainFacts
  <2>5. Unset(dll).currPB = {i \in Pb : u.PBRC[i] # None}
    BY <1>u, <2>2
  <2> QED
    BY <2>3, <2>4, <2>5 DEF Agree
<1> QED
  BY <1>2, <1>3, <1>4, <1>5

LEMMA PInvPbuffers ==
  ASSUME TInv, Agree, Spared({"pbuffers", "left", "killed"})',
         \/ \E p \in app.holds \cup app.old : wglDeleteContext(p)
         \/ \E id \in NewId, width \in Pb : wglCreatePbufferARB(id, width)
         \/ \E i \in dll.currPB : wglDestroyPbufferARB(i)
  PROVE  Agree'
<1> USE DEF TInv
<1>1. dll \in DllType /\ dev \in DevType
  BY DEF TypeOK
<1>p. processFifo(dev) \in DevType /\ processFifo(dev).PBRC = dev.PBRC /\ processFifo(dev).refs = dev.refs
  BY <1>1, DrainFacts
<1>2. ASSUME NEW p \in app.holds \cup app.old, wglDeleteContext(p) PROVE Agree'
  <2>1. /\ dll' = mglDeleteContext(dll, p[1]) /\ dev' = DeleteWrites(dll, dev, p[1])
        /\ p[1] \in Handle
    BY <1>2, Pairs DEF wglDeleteContext
  <2>2. /\ dev'.refs = dev.refs
        /\ ~Deletes(dll, p[1]) => dev' = dev
        /\ Deletes(dll, p[1]) =>
             \A i \in Pb : dev'.PBRC[i] = IF i \in dll.currPB THEN None ELSE dev.PBRC[i]
    BY <1>1, <2>1, DeleteReaches
  <2>3. CASE Deletes(dll, p[1])
    <3>1. dll' = [dll EXCEPT !.currDC = FALSE, !.currPB = {}]
      BY <2>1, <2>3 DEF mglDeleteContext
    <3>2. dll'.loaded = dll.loaded /\ dll'.currPB = {}
      BY <1>1, <3>1 DEF DllType
    <3>3. dll.loaded
      BY DEF WrapperOK, NewApp
    <3> QED
      BY <2>2, <2>3, <3>2, <3>3 DEF Agree
  <2>4. CASE ~Deletes(dll, p[1])
    BY <2>1, <2>2, <2>4 DEF Agree, mglDeleteContext
  <2> QED
    BY <2>3, <2>4
<1>3. ASSUME NEW id \in NewId, NEW width \in Pb, wglCreatePbufferARB(id, width) PROVE Agree'
  <2> DEFINE i == PbSlot(dev)
  <2>1. FreePb(dev) # {} /\ dll.currPixFmt
    BY <1>3 DEF wglCreatePbufferARB, Happens, Spared, If
  <2>2. /\ dev' = [processFifo(dev) EXCEPT !.PBRC[i] = id]
        /\ dll' = [dll EXCEPT !.currPB = @ \cup {i}]
    BY <1>3, <2>1 DEF wglCreatePbufferARB
  <2>3. i \in Pb /\ id # None
    BY <2>1, FirstPb DEF FreePb, NewId
  <2> HIDE DEF i
  <2>4. dll.loaded
    BY <2>1 DEF WrapperOK
  <2>5. dll'.loaded /\ dll'.currPB = dll.currPB \cup {i}
    BY <1>1, <2>2, <2>4 DEF DllType
  <2>6. dev'.refs = dev.refs /\ \A k \in Pb : dev'.PBRC[k] = IF k = i THEN id ELSE dev.PBRC[k]
    BY <1>p, <2>2, <2>3 DEF DevType
  <2>7. dll'.currPB = {k \in Pb : dev'.PBRC[k] # None}
    BY <2>3, <2>4, <2>5, <2>6 DEF Agree
  <2> QED
    BY <2>4, <2>5, <2>6, <2>7 DEF Agree
<1>4. ASSUME NEW i \in dll.currPB, wglDestroyPbufferARB(i) PROVE Agree'
  <2>1. /\ dev' = [processFifo(dev) EXCEPT !.PBRC[i] = None]
        /\ dll' = [dll EXCEPT !.currPB = @ \ {i}]
    BY <1>4 DEF wglDestroyPbufferARB
  <2>2. i \in Pb /\ dll.loaded
    BY <1>1, NewTypes DEF WrapperOK, DllType
  <2>3. dll'.loaded /\ dll'.currPB = dll.currPB \ {i}
    BY <1>1, <2>1, <2>2 DEF DllType
  <2>4. dev'.refs = dev.refs /\ \A k \in Pb : dev'.PBRC[k] = IF k = i THEN None ELSE dev.PBRC[k]
    BY <1>p, <2>1, <2>2 DEF DevType
  <2>5. dll'.currPB = {k \in Pb : dev'.PBRC[k] # None}
    BY <2>2, <2>3, <2>4 DEF Agree
  <2> QED
    BY <2>2, <2>3, <2>4, <2>5 DEF Agree
<1> QED
  BY <1>2, <1>3, <1>4

LEMMA PInvNext == TInv /\ PInv /\ [Next]_vars => PInv'
<1> SUFFICES ASSUME TInv, PInv, [Next]_vars PROVE PInv'
  OBVIOUS
<1>1. CASE UNCHANGED vars
  BY <1>1 DEF vars, PInv, Agree, Spared
<1>2. CASE Next
  <2> SUFFICES ASSUME Spared({"pbuffers", "left", "killed"})' PROVE Agree'
    BY DEF PInv
  <2>1. Agree
    BY <1>2, Remembered DEF PInv, Spared
  <2>2. CASE Keeps
    BY <2>1, <2>2, Kept DEF Agree
  <2> QED
    BY <1>2, <2>1, <2>2, PInvProcess, PInvPbuffers DEF Next, Keeps
<1> QED
  BY <1>1, <1>2

\* For as many pixel buffers as the device has room for, whatever contexts are
\* made, deleted, or fail to be made in between.
THEOREM PbuffersAlwaysAgree == Spec => []PbuffersAgree
<1>1. Init => PInv
  BY DEF Init, PInv, Agree, NewDll, NewDev
<1>2. PInv => PbuffersAgree
  BY DEF PInv, Agree, PbuffersAgree
<1> QED
  BY <1>1, <1>2, TInvInit, TInvNext, PInvNext, PTL DEF Spec

-----------------------------------------------------------------------------
(* The right context for every call *)

Expected == {"again", "temp", "failed", "idle", "levels", "shared", "order"}

\* A handle the application holds finds the context it was returned for.
HeldExist ==
  \A p \in app.holds :
     \/ \E n \in Level : p[1] = Rc(n) /\ dev.ctx[n] = p[2]
     \/ \E i \in Pb : p[1] = PbRc(i) /\ dev.PBRC[i] = p[2]

\* With contexts, the wrapper has a device context, the device a context, and
\* the two count levels alike.
CountedAlike ==
  app.holds # {} \/ dll.currGLRC # NoRc =>
    /\ dll.currDC /\ dev.mglContext
    /\ \A n \in Level : dev.ctx[n] # None <=> n <= dll.level

LevelHeld == dll.level # 0 => \E p \in app.holds : p[1][1] = "rc"

CurrentReady == Current => dll.currGLRC # NoRc /\ Gate(dev) /\ dev.cur = app.cur[2]

QueueReady == \A c \in dev.queue : Gate(dev) /\ c.made = dev.cur

\* What waits is this process's, unless the last one was killed.
QueueOurs == dll.loaded /\ dev.refs = 1 /\ dev.queue # {} => dll.currGLRC # NoRc

\* A pair of a pixel buffer's handle and context is not made a second time.
NoneComesBack ==
  dll.currGLRC # NoRc =>
    \A i \in Pb : app.cur[1] = PbRc(i) /\ dev.PBRC[i] = app.cur[2] => Current

Good ==
  /\ HeldExist
  /\ CountedAlike
  /\ LevelHeld
  /\ CurrentReady
  /\ QueueReady
  /\ QueueOurs
  /\ NoneComesBack

RInv == Spared(Expected) => Good

LEMMA CurTypes ==
  ASSUME TypeOK
  PROVE  /\ \/ app.cur[1] = NoRc /\ app.cur[2] = None
            \/ app.cur[1] \in Handle /\ app.cur[2] \in Id
         /\ NewApp.cur[1] = NoRc /\ NewApp.cur \notin app.holds
         /\ NoRc \notin Handle
<1>1. NewApp.cur = <<NoRc, None>>
  BY NewTypes
<1>2. NoRc \notin Handle
  BY Handles DEF Handle
<1>3. app.cur \in (Handle \X Id) \cup {<<NoRc, None>>} /\ app.holds \in SUBSET (Handle \X Id)
  BY <1>1 DEF TypeOK, AppType
<1> QED
  BY <1>1, <1>2, <1>3

\* Without contexts there is nothing to show but that the queue is in order.
LEMMA GoodEmpty ==
  ASSUME app'.holds = {}, dll'.level = 0, dll'.currGLRC = NoRc, QueueReady',
         dll'.loaded /\ dev'.refs = 1 => dev'.queue = {}
  PROVE  Good'
<1>1. ~Current'
  BY DEF Current
<1> QED
  BY <1>1 DEF Good, HeldExist, CountedAlike, LevelHeld, CurrentReady, QueueOurs, NoneComesBack

LEMMA GoodProcess ==
  ASSUME TInv, Good, Spared(Expected)',
         \/ \E same \in BOOLEAN : Attach(same)
         \/ Detach
         \/ Killed
         \/ wglSetPixelFormat
  PROVE  Good'
<1> USE DEF TInv
<1>1. dll \in DllType /\ dev \in DevType /\ HasDc(dll)
  BY DEF TypeOK, WrapperOK
<1> DEFINE u == UnsetWrites(dll, dev)
<1>u. /\ u \in DevType /\ u.queue \subseteq dev.queue
      /\ dll.currGLRC = NoRc => Unset(dll) = dll /\ u = dev
      /\ dll.currGLRC # NoRc /\ Gate(dev) => u.queue = {}
      /\ dll.currGLRC # NoRc /\ dll.level = 0 => Unset(dll).currGLRC = NoRc
      /\ Unset(dll) \in DllType /\ Unset(dll).level = dll.level /\ Unset(dll).loaded = dll.loaded
  BY <1>1, UnsetFacts
<1>q. dll.currGLRC # NoRc => u.queue = {}
  BY <1>u DEF Good, QueueReady
<1>2. ASSUME NEW same \in BOOLEAN, Attach(same) PROVE Good'
  <2>1. /\ dll' = [NewDll EXCEPT !.loaded = TRUE] /\ app' = NewApp
        /\ \/ dev' = [dev EXCEPT !.refs = 1, !.queue = {}]
           \/ dev' = [dev EXCEPT !.refs = 2]
    BY <1>2 DEF Attach
  <2>2. dll'.level = 0 /\ dll'.currGLRC = NoRc /\ app'.holds = {}
    BY <2>1, NewTypes DEF DllType
  <2>4. dev'.refs = 1 => dev'.queue = {}
    <3>1. CASE dev' = [dev EXCEPT !.refs = 1, !.queue = {}]
      BY <1>1, <3>1 DEF DevType
    <3>2. CASE dev' = [dev EXCEPT !.refs = 2]
      BY <1>1, <3>2 DEF DevType
    <3> QED
      BY <2>1, <3>1, <3>2
  <2>3. QueueReady'
    BY <1>1, <2>1 DEF Good, QueueReady, Gate, DevType
  <2> QED
    BY <2>2, <2>3, <2>4, GoodEmpty
<1>3. CASE Detach
  <2>1. /\ dll' = NewDll /\ app' = NewApp
        /\ dll.loaded
        /\ IF dev.refs = 1 THEN dev' = [WriteUnload(u) EXCEPT !.refs = 0]
           ELSE dev' = [dev EXCEPT !.refs = 1]
    BY <1>3 DEF Detach
  <2>2. dll'.level = 0 /\ dll'.currGLRC = NoRc /\ app'.holds = {} /\ ~dll'.loaded
    BY <2>1, NewTypes
  <2> HIDE DEF u
  <2>3. QueueReady'
    <3>1. CASE dev.refs = 1
      <4>1. u.queue = {}
        BY <1>u, <1>q, <2>1, <3>1 DEF Good, QueueOurs
      <4>2. dev'.queue = {}
        BY <1>u, <2>1, <3>1, <4>1, UnloadFacts DEF DevType
      <4> QED
        BY <4>2 DEF QueueReady
    <3>2. CASE dev.refs # 1
      BY <1>1, <2>1, <3>2 DEF Good, QueueReady, Gate, DevType
    <3> QED
      BY <3>1, <3>2
  <2> QED
    BY <2>2, <2>3, GoodEmpty
<1>4. CASE Killed
  <2>1. dll' = NewDll /\ app' = NewApp /\ dev' = dev
    BY <1>4 DEF Killed
  <2>2. dll'.level = 0 /\ dll'.currGLRC = NoRc /\ app'.holds = {} /\ ~dll'.loaded
    BY <2>1, NewTypes
  <2>3. QueueReady'
    BY <2>1 DEF Good, QueueReady, Gate
  <2> QED
    BY <2>2, <2>3, GoodEmpty
<1>5. CASE wglSetPixelFormat
  <2>1. /\ dll' = [Unset(dll) EXCEPT !.currPixFmt = TRUE] /\ dev' = processFifo(u)
        /\ app' = app /\ dll.loaded /\ app.holds = {}
    BY <1>5 DEF wglSetPixelFormat, Happens, Spared, If, Expected
  <2>2. dll.level = 0
    BY <2>1 DEF Good, LevelHeld
  <2>3. dll'.level = 0 /\ dll'.currGLRC = NoRc
    BY <1>u, <2>1, <2>2 DEF DllType
  <2> HIDE DEF u
  <2>4. CASE dll.currGLRC # NoRc
    <3>1. dev'.queue = {}
      BY <1>u, <1>q, <2>1, <2>4, DrainFacts
    <3> QED
      BY <2>1, <2>3, <3>1, GoodEmpty DEF QueueReady
  <2>5. CASE dll.currGLRC = NoRc
    <3>1. /\ dev'.queue \subseteq dev.queue /\ dev'.cur = dev.cur /\ dev'.refs = dev.refs
          /\ dev'.mglContext = dev.mglContext /\ dev'.mglCntxCurrent = dev.mglCntxCurrent
      BY <1>1, <1>u, <2>1, <2>5, DrainFacts
    <3>2. QueueReady'
      BY <3>1 DEF Good, QueueReady, Gate
    <3>3. dev'.refs = 1 => dev'.queue = {}
      BY <2>1, <2>5, <3>1 DEF Good, QueueOurs
    <3> QED
      BY <2>1, <2>3, <3>2, <3>3, GoodEmpty
  <2> QED
    BY <2>4, <2>5
<1> QED
  BY <1>2, <1>3, <1>4, <1>5

\* When the only context is a new one.
LEMMA GoodFirst ==
  ASSUME NEW id \in Id, dev'.ctx = FirstContext(id), dev'.mglContext, dev'.queue = {},
         dll'.level = 0, dll'.currDC, app'.holds \subseteq {<<Rc(0), id>>},
         app'.cur[2] # id, NoneComesBack'
  PROVE  Good'
<1>1. ~Current'
  BY DEF Current
<1>2. HeldExist'
  BY FirstHandle, Handles DEF HeldExist, FirstContext
<1>3. CountedAlike'
  BY DEF CountedAlike, FirstContext, Level
<1> QED
  BY <1>1, <1>2, <1>3 DEF Good, LevelHeld, CurrentReady, QueueReady, QueueOurs

LEMMA GoodCreate ==
  ASSUME TInv, Good, Spared(Expected)',
         NEW id \in NewId,
         \/ \E ok \in BOOLEAN : wglCreateContext(id, ok)
         \/ \E i \in dll.currPB : wglCreateContextPb(i, id)
         \/ \E ok \in BOOLEAN : AttribsAlone(id, ok)
         \/ \E ok \in BOOLEAN, p \in app.holds : AttribsShared(p, id, ok)
  PROVE  Good'
<1> USE DEF TInv
<1>1. /\ dll \in DllType /\ dev \in DevType /\ app \in AppType /\ id \in Id
      /\ HasDc(dll) /\ app.cur[2] # id /\ Window \in Dc
  BY DEF TypeOK, WrapperOK, NewId, InUse, Dc
<1>q. ~Gate(dev) => dev.queue = {}
  BY DEF Good, QueueReady
<1>2. ASSUME NEW ok \in BOOLEAN, wglCreateContext(id, ok) PROVE Good'
  <2>1. /\ dll.currPixFmt /\ dll' = mglCreateContext(dll, Window, id)
        /\ dev' = WriteCreate(dev, Window, id) /\ app' = Holding(Returned(dll, Window), id)
        /\ app.holds = {}
    BY <1>2 DEF wglCreateContext, Happens, Spared, If, Expected
  <2>2. dll.level = 0
    BY <2>1 DEF Good, LevelHeld
  <2>3. /\ dev'.ctx = FirstContext(id) /\ dev'.mglContext /\ dev'.PBRC = dev.PBRC
        /\ dev'.queue \subseteq dev.queue /\ (Gate(dev) => dev'.queue = {})
    BY <1>1, <2>1, CreateFacts, Handles
  <2>4. dev'.queue = {}
    BY <1>q, <2>3
  <2>5. Returned(dll, Window) \in {NoRc, Rc(0)} /\ NoRc # Rc(0) /\ Rc(0) \in Handle
    BY <1>1, FirstHandle, Handles DEF Returned
  <2>6. app'.holds \subseteq {<<Rc(0), id>>} /\ app'.cur = app.cur
    <3>1. CASE Returned(dll, Window) = NoRc
      BY <2>1, <3>1 DEF Holding
    <3>2. CASE Returned(dll, Window) = Rc(0)
      BY <1>1, <2>1, <2>5, <3>2 DEF Holding, AppType
    <3> QED
      BY <2>5, <3>1, <3>2
  <2>7. CASE dll.currGLRC = NoRc
    <3>1. dll' = [dll EXCEPT !.start = id, !.calls = {}, !.currDC = TRUE]
      <4>1. ASSUME NEW dc \in Dc, dc # NoDC
            PROVE  mglCreateContext(dll, dc, id) = [dll EXCEPT !.start = id, !.calls = {}, !.currDC = TRUE]
        <5>1. mglCreateContext(dll, dc, id) = [InitClientStates(dll, id) EXCEPT !.currDC = dc # NoDC]
          BY <2>1, <2>7 DEF mglCreateContext
        <5>2. (dc # NoDC) = TRUE
          BY <4>1
        <5>3. mglCreateContext(dll, dc, id) = [InitClientStates(dll, id) EXCEPT !.currDC = TRUE]
          BY <5>1, <5>2
        <5> QED
          BY <1>1, <5>3 DEF InitClientStates, DllType
      <4> QED
        BY <1>1, <2>1, <4>1, Handles
    <3>2. dll'.level = 0 /\ dll'.currGLRC = NoRc /\ dll'.currDC
      BY <1>1, <2>2, <2>7, <3>1 DEF DllType
    <3> QED
      BY <1>1, <2>3, <2>4, <2>6, <3>2, GoodFirst DEF NoneComesBack
  <2>8. CASE dll.currGLRC # NoRc
    <3>1. dll' = dll /\ Returned(dll, Window) = NoRc
      <4>1. dll' = dll
        BY <1>1, <2>1, <2>8, WrapperCreates
      <4>2. Returned(dll, Window) = NoRc
        BY <2>1, <2>8 DEF Returned, Window
      <4> QED
        BY <4>1, <4>2
    <3>2. app' = app
      BY <2>1, <3>1 DEF Holding
    <3>3. dll.currDC
      BY <2>8 DEF Good, CountedAlike
    <3>4. NoneComesBack'
      BY <2>3, <3>1, <3>2 DEF Good, NoneComesBack, Current
    <3> QED
      BY <1>1, <2>1, <2>2, <2>3, <2>4, <3>1, <3>2, <3>3, <3>4, GoodFirst
  <2> QED
    BY <2>7, <2>8
<1>3. ASSUME NEW i \in dll.currPB, wglCreateContextPb(i, id) PROVE Good'
  <2>1. /\ dll.currPixFmt /\ dll' = mglCreateContext(dll, PbRc(i), id)
        /\ dev' = WriteCreate(dev, PbRc(i), None)
        /\ app' = Holding(Returned(dll, PbRc(i)), dev.PBRC[i])
        /\ dll.currGLRC # NoRc
    BY <1>3 DEF wglCreateContextPb, Happens, Spared, If, Expected
  <2>2. i \in Pb /\ dev.PBRC[i] \in Id /\ PbRc(i) \in Handle /\ PbRc(i) \in Dc
    BY <1>1 DEF WrapperOK, DevType, Handle, Dc
  <2>3. dll' = dll
    BY <1>1, <2>1, <2>2, WrapperCreates
  <2>4. Returned(dll, PbRc(i)) = PbRc(i) /\ PbRc(i) # NoRc
    BY <2>1, Handles DEF Returned
  <2>5. app'.holds = app.holds \cup {<<PbRc(i), dev.PBRC[i]>>} /\ app'.cur = app.cur
    BY <1>1, <2>1, <2>2, <2>4, HoldingTypes
  <2>6. dll.currDC /\ dev.mglContext
    BY <2>1 DEF Good, CountedAlike
  <2>7. /\ dev'.mglContext /\ dev'.mglCntxCurrent = dev.mglCntxCurrent /\ dev'.ctx = dev.ctx
        /\ dev'.PBRC = dev.PBRC /\ dev'.cur = dev.cur
        /\ dev'.queue \subseteq dev.queue /\ (Gate(dev) => dev'.queue = {})
    <3> DEFINE r == WriteCreate(dev, PbRc(i), None)
    <3>1. None \in Id \cup {None} /\ PbRc(i)[1] = "pb"
      BY Handles
    <3>2. /\ r.mglContext /\ r.mglCntxCurrent = dev.mglCntxCurrent /\ r.ctx = dev.ctx
          /\ r.PBRC = dev.PBRC /\ r.cur = dev.cur
          /\ r.queue \subseteq dev.queue /\ (Gate(dev) => r.queue = {})
      <4>1. ASSUME NEW dc \in Dc, dc[1] = "pb", NEW e \in Id \cup {None}
            PROVE  /\ WriteCreate(dev, dc, e).mglContext
                   /\ WriteCreate(dev, dc, e).mglCntxCurrent = dev.mglCntxCurrent
                   /\ WriteCreate(dev, dc, e).ctx = dev.ctx
                   /\ WriteCreate(dev, dc, e).PBRC = dev.PBRC
                   /\ WriteCreate(dev, dc, e).cur = dev.cur
                   /\ WriteCreate(dev, dc, e).queue \subseteq dev.queue
                   /\ (Gate(dev) => WriteCreate(dev, dc, e).queue = {})
        <5>1. dev \in DevType
          BY <1>1
        <5>2. WriteCreate(dev, dc, e).mglContext
          BY <2>6, <4>1, <5>1, CreateFacts
        <5>3. /\ WriteCreate(dev, dc, e).mglCntxCurrent = dev.mglCntxCurrent
              /\ WriteCreate(dev, dc, e).ctx = dev.ctx
              /\ WriteCreate(dev, dc, e).PBRC = dev.PBRC
          BY <4>1, <5>1, CreateFacts
        <5>4. /\ WriteCreate(dev, dc, e).cur = dev.cur
              /\ WriteCreate(dev, dc, e).queue \subseteq dev.queue
              /\ (Gate(dev) => WriteCreate(dev, dc, e).queue = {})
          BY <4>1, <5>1, CreateFacts
        <5> QED
          BY <5>2, <5>3, <5>4
      <4> QED
        BY <2>2, <3>1, <4>1
    <3>3. dev' = r
      BY <2>1
    <3> HIDE DEF r
    <3> QED
      BY <3>2, <3>3
  <2>8. dev'.queue = {}
    BY <1>q, <2>7
  <2>9. HeldExist'
    BY <2>2, <2>5, <2>7 DEF Good, HeldExist
  <2>10. CountedAlike'
    BY <2>1, <2>3, <2>7 DEF Good, CountedAlike
  <2>11. LevelHeld'
    BY <2>3, <2>5 DEF Good, LevelHeld
  <2>12. Current' => Current
    BY <2>1, <2>2, <2>5, Handles DEF Good, NoneComesBack, Current
  <2>13. CurrentReady'
    BY <2>3, <2>5, <2>6, <2>7, <2>12 DEF Good, CurrentReady, Gate
  <2>14. NoneComesBack'
    BY <2>3, <2>5, <2>7 DEF Good, NoneComesBack, Current
  <2> QED
    BY <2>8, <2>9, <2>10, <2>11, <2>13, <2>14 DEF Good, QueueReady, QueueOurs
<1>4. ASSUME NEW ok \in BOOLEAN, AttribsAlone(id, ok) PROVE Good'
  <2>1. /\ dev' = CreateAlone(dev, id)
        /\ dll' = [InitClientStates(dll, id) EXCEPT !.currDC = TRUE, !.currGLRC = NoRc, !.level = 0]
        /\ app' = [app EXCEPT !.holds = {<<Rc(0), id>>}, !.old = app.holds]
    BY <1>4 DEF AttribsAlone, WriteCreateAttribs, Happens, Spared, If, Expected
  <2>2. id # None
    BY <1>1
  <2>3. /\ dev'.ctx = FirstContext(id) /\ dev'.mglContext
        /\ dev'.queue \subseteq dev.queue /\ (Gate(dev) => dev'.queue = {})
    BY <1>1, <2>1, <2>2, AloneFacts
  <2> DEFINE r == InitClientStates(dll, id)
  <2>r. r \in DllType /\ dll' = [r EXCEPT !.currDC = TRUE, !.currGLRC = NoRc, !.level = 0]
    BY <1>1, <2>1, Restarted
  <2> HIDE DEF r
  <2>4. dll'.level = 0 /\ dll'.currDC /\ dll'.currGLRC = NoRc
    BY <2>r DEF DllType
  <2>5. app'.holds = {<<Rc(0), id>>} /\ app'.cur = app.cur
    BY <1>1, <2>1 DEF AppType
  <2> QED
    BY <1>1, <1>q, <2>3, <2>4, <2>5, GoodFirst DEF NoneComesBack
<1>5. ASSUME NEW ok \in BOOLEAN, NEW p \in app.holds, AttribsShared(p, id, ok) PROVE Good'
  <2> DEFINE n == dll.level
  <2>1. ok /\ dll.currGLRC # NoRc /\ Free(dev) # {}
    BY <1>5 DEF AttribsShared, Happens, Spared, If, Expected
  <2>2. /\ dev' = WriteCreateAttribs(dev, TRUE, id)
        /\ dll' = [dll EXCEPT !.level = NextLevel(n)] /\ app' = Holding(Rc(NextLevel(n)), id)
    BY <1>5, <2>1 DEF AttribsShared
  <2>3. /\ n \in Level /\ dll.currDC /\ dev.mglContext
        /\ \A k \in Level : dev.ctx[k] # None <=> k <= n
    BY <1>1, <2>1 DEF Good, CountedAlike, DllType
  <2>4. Slot(dev) = n + 1 /\ n + 1 \in Level /\ NextLevel(n) = n + 1
    <3>1. Slot(dev) \in Free(dev) /\ \A k \in Free(dev) : Slot(dev) <= k
      BY <2>1, FirstSlot
    <3>2. Slot(dev) \in Level /\ n < Slot(dev)
      BY <2>3, <3>1 DEF Free, Level
    <3>3. n + 1 \in Level
      BY <2>3, <3>2 DEF Level
    <3>4. n + 1 \in Free(dev)
      BY <2>3, <3>3 DEF Free, Level
    <3>5. Slot(dev) <= n + 1
      BY <3>1, <3>4
    <3>6. n + 1 < MaxLvl
      BY <3>3 DEF Level
    <3>7. NextLevel(n) = n + 1
      BY <2>3, <3>6, Levels
    <3> QED
      BY <2>3, <3>2, <3>3, <3>5, <3>7 DEF Level
  <2>5. dev' = CreateShared(dev, id)
    <3>1. 0 \in Level /\ 0 <= n
      BY <2>3 DEF Level
    <3> QED
      BY <2>2, <2>3, <3>1 DEF WriteCreateAttribs, Free
  <2> HIDE DEF n
  <2>6. /\ dev'.mglContext /\ dev'.mglCntxCurrent = dev.mglCntxCurrent /\ dev'.PBRC = dev.PBRC
        /\ dev'.cur = dev.cur /\ dev'.ctx = [dev.ctx EXCEPT ![n + 1] = id]
        /\ dev'.queue \subseteq dev.queue /\ (Gate(dev) => dev'.queue = {})
    BY <1>1, <2>1, <2>3, <2>4, <2>5, SharedFacts
  <2>7. \A k \in Level : dev'.ctx[k] = IF k = n + 1 THEN id ELSE dev.ctx[k]
    BY <1>1, <2>4, <2>6 DEF DevType
  <2>8. dev'.queue = {}
    BY <1>q, <2>6
  <2>9. /\ dll'.level = n + 1 /\ dll'.currDC /\ dll'.currGLRC = dll.currGLRC
    BY <1>1, <2>2, <2>3, <2>4 DEF DllType
  <2>10. Rc(n + 1) \in Handle /\ Rc(n + 1) # NoRc
    BY <2>4, Handles DEF Handle
  <2>11. app'.holds = app.holds \cup {<<Rc(n + 1), id>>} /\ app'.cur = app.cur
    BY <1>1, <2>2, <2>4, <2>10, HoldingTypes
  <2>12. HeldExist'
    <3>1. dev.ctx[n + 1] = None
      BY <2>3, <2>4 DEF Level
    <3> SUFFICES ASSUME NEW q \in app'.holds
                 PROVE  \/ \E k \in Level : q[1] = Rc(k) /\ dev'.ctx[k] = q[2]
                        \/ \E i \in Pb : q[1] = PbRc(i) /\ dev'.PBRC[i] = q[2]
      BY DEF HeldExist
    <3>2. CASE q = <<Rc(n + 1), id>>
      BY <2>4, <2>7, <3>2
    <3>3. CASE q \in app.holds
      <4>1. q[2] # None
        BY <3>3, Pairs
      <4> QED
        BY <2>6, <2>7, <3>1, <3>3, <4>1 DEF Good, HeldExist
    <3> QED
      BY <2>11, <3>2, <3>3
  <2>13. CountedAlike'
    <3>1. \A k \in Level : k <= n + 1 <=> k <= n \/ k = n + 1
      BY <2>3 DEF Level
    <3> QED
      BY <1>1, <2>3, <2>6, <2>7, <2>9, <3>1 DEF CountedAlike
  <2>14. LevelHeld'
    <3>1. <<Rc(n + 1), id>>[1][1] = "rc"
      BY Handles
    <3>2. <<Rc(n + 1), id>> \in app'.holds
      BY <2>11
    <3> QED
      BY <3>1, <3>2 DEF LevelHeld
  <2>15. Current' <=> Current
    BY <1>1, <2>11 DEF Current
  <2>16. CurrentReady'
    BY <2>3, <2>6, <2>9, <2>11, <2>15 DEF Good, CurrentReady, Gate
  <2>17. NoneComesBack'
    BY <2>6, <2>9, <2>11, <2>15 DEF Good, NoneComesBack
  <2> QED
    BY <2>8, <2>12, <2>13, <2>14, <2>16, <2>17 DEF Good, QueueReady, QueueOurs
<1> QED
  BY <1>2, <1>3, <1>4, <1>5

LEMMA GoodUse ==
  ASSUME TInv, Good, Spared(Expected)',
         \/ \E id \in NewId, p \in app.holds \cup app.old : wglMakeCurrent(p, id)
         \/ \E id \in NewId : wglMakeCurrentNone(id)
         \/ \E p \in app.holds \cup app.old : wglDeleteContext(p)
         \/ glQueued
         \/ glNow
  PROVE  Good'
<1> USE DEF TInv
<1>1. /\ dll \in DllType /\ dev \in DevType /\ app \in AppType /\ NewId \subseteq Id
      /\ HasDc(dll) /\ NoDC \in Dc
  BY DEF TypeOK, WrapperOK, NewId, Dc
<1>q. ~Gate(dev) => dev.queue = {}
  BY DEF Good, QueueReady
<1>2. ASSUME NEW id \in NewId, NEW p \in app.holds \cup app.old, wglMakeCurrent(p, id) PROVE Good'
  <2>1. /\ p \in app.holds /\ dll' = mglMakeCurrent(dll, DcOf(p[1]), p[1], id)
        /\ dev' = MakeCurrentWrites(dll, dev, DcOf(p[1]), p[1], id)
        /\ app' = IF MakeFails(dll, DcOf(p[1])) THEN app ELSE [app EXCEPT !.cur = p]
    BY <1>2 DEF wglMakeCurrent, Happens, Spared, If, Expected
  <2>2. p[1] \in Handle /\ DcOf(p[1]) \in Dc /\ p[1] # NoRc /\ Rc(0) # NoRc /\ p[2] # None
    BY Handles, Pairs
  <2>3. dll.currDC /\ dev.mglContext
    BY <2>1 DEF Good, CountedAlike
  <2> DEFINE r == mglMakeCurrent(dll, DcOf(p[1]), p[1], id)
             e == WriteMakeCurrent(dev, p[1])
  <2>4. r.level = dll.level /\ r.currGLRC = (IF dll.level # 0 THEN Rc(0) ELSE p[1]) /\ r.currDC
    BY <1>1, <2>2, <2>3, WrapperMakesCurrent
  <2>5. MakeCurrentWrites(dll, dev, DcOf(p[1]), p[1], id) = e
    BY <2>3 DEF MakeCurrentWrites
  <2>6. /\ e.mglContext /\ e.mglCntxCurrent /\ e.ctx = dev.ctx /\ e.PBRC = dev.PBRC
        /\ \A n \in Level : p[1] = Rc(n) => e.cur = dev.ctx[n]
        /\ \A i \in Pb : p[1] = PbRc(i) => e.cur = dev.PBRC[i]
        /\ e.queue \subseteq dev.queue /\ (Gate(dev) => e.queue = {})
    BY <1>1, <2>2, <2>3, MakeCurrentFacts
  <2>7. app'.holds = app.holds /\ app'.cur = p
    BY <1>1, <2>1, <2>3 DEF MakeFails, AppType
  <2>8. dll' = r /\ dev' = e
    BY <2>1, <2>5
  <2> HIDE DEF r, e
  <2>9. dll'.currGLRC # NoRc
    BY <2>2, <2>4, <2>8
  <2>10. dev'.queue = {}
    BY <1>q, <2>6, <2>8
  <2>11. dev'.cur = p[2]
    BY <2>1, <2>6, <2>8 DEF Good, HeldExist
  <2>12. HeldExist'
    BY <2>6, <2>7, <2>8 DEF Good, HeldExist
  <2>13. CountedAlike'
    BY <2>1, <2>4, <2>6, <2>8 DEF Good, CountedAlike
  <2>14. LevelHeld'
    BY <2>4, <2>7, <2>8 DEF Good, LevelHeld
  <2>15. CurrentReady'
    BY <2>6, <2>7, <2>8, <2>9, <2>11 DEF CurrentReady, Gate
  <2>16. NoneComesBack'
    BY <2>1, <2>7 DEF NoneComesBack, Current
  <2> QED
    BY <2>10, <2>12, <2>13, <2>14, <2>15, <2>16 DEF Good, QueueReady, QueueOurs
<1>3. ASSUME NEW id \in NewId, wglMakeCurrentNone(id) PROVE Good'
  <2>1. /\ dll' = mglMakeCurrent(dll, NoDC, NoRc, id)
        /\ dev' = MakeCurrentWrites(dll, dev, NoDC, NoRc, id)
        /\ app' = [app EXCEPT !.cur = NewApp.cur] /\ dll.loaded
    BY <1>3 DEF wglMakeCurrentNone
  <2>2. app'.holds = app.holds /\ app'.cur = NewApp.cur
    BY <1>1, <2>1 DEF AppType
  <2>3. ~Current' /\ app'.cur[1] = NoRc
    BY <2>2, CurTypes DEF Current
  <2>4. NoneComesBack'
    BY <2>3, Handles DEF NoneComesBack
  <2> DEFINE r == mglMakeCurrent(dll, NoDC, NoRc, id)
             e == MakeCurrentWrites(dll, dev, NoDC, NoRc, id)
  <2>r. /\ r.level = dll.level /\ r.loaded = dll.loaded
        /\ dll.currDC => r.currDC /\ r.currGLRC = IF dll.level # 0 THEN Rc(0) ELSE NoRc
        /\ ~dll.currDC /\ ~dll.currPixFmt => r = dll
        /\ ~dll.currDC /\ dll.currPixFmt => r.currGLRC = NoRc
    BY <1>1, WrapperMakesCurrent
  <2>e. /\ e.queue \subseteq dev.queue
        /\ dll.currDC => e = WriteMakeCurrent(dev, NoRc)
        /\ ~dll.currPixFmt /\ ~dll.currDC => e = dev
        /\ dll.currPixFmt /\ Gate(dev) => e.queue = {}
    BY <1>1, MakeCurrentReaches
  <2>5. dll' = r /\ dev' = e
    BY <2>1
  <2> HIDE DEF r, e
  <2>6. CASE dll.currDC
    <3>1. dll.currPixFmt
      BY <2>6 DEF WrapperOK
    <3>2. dev'.queue = {}
      BY <1>q, <2>e, <2>5, <3>1
    <3>3. /\ dev'.mglContext = dev.mglContext /\ dev'.ctx = dev.ctx /\ dev'.PBRC = dev.PBRC
      BY <1>1, <2>e, <2>5, <2>6, MakeCurrentFacts
    <3>4. /\ dll'.level = dll.level /\ dll'.currDC
          /\ dll'.currGLRC # NoRc => dll.level # 0
      BY <2>r, <2>5, <2>6
    <3>5. HeldExist'
      BY <2>2, <3>3 DEF Good, HeldExist
    <3>6. LevelHeld'
      BY <2>2, <3>4 DEF Good, LevelHeld
    <3>7. CountedAlike'
      <4>1. ASSUME app'.holds # {} \/ dll'.currGLRC # NoRc PROVE app.holds # {}
        BY <2>2, <3>4, <4>1 DEF Good, LevelHeld
      <4> QED
        BY <2>6, <3>3, <3>4, <4>1 DEF Good, CountedAlike
    <3> QED
      BY <2>3, <2>4, <3>2, <3>5, <3>6, <3>7 DEF Good, CurrentReady, QueueReady, QueueOurs
  <2>7. CASE ~dll.currDC
    <3>1. dll.currGLRC = NoRc /\ dll.level = 0 /\ app.holds = {}
      BY <2>7 DEF HasDc, WrapperOK, Good, CountedAlike
    <3>2. dll'.currGLRC = NoRc /\ dll'.level = 0 /\ app'.holds = {}
      BY <2>r, <2>2, <2>5, <2>7, <3>1
    <3>3. CASE dll.currPixFmt
      <4>1. dev'.queue = {}
        BY <1>q, <2>e, <2>5, <3>3
      <4> QED
        BY <3>2, <4>1, GoodEmpty DEF QueueReady
    <3>4. CASE ~dll.currPixFmt
      <4>1. dev' = dev
        BY <2>e, <2>5, <2>7, <3>4
      <4>2. QueueReady'
        BY <4>1 DEF Good, QueueReady, Gate
      <4>3. dll'.loaded /\ dev'.refs = 1 => dev'.queue = {}
        BY <2>1, <3>1, <4>1 DEF Good, QueueOurs
      <4> QED
        BY <3>2, <4>2, <4>3, GoodEmpty
    <3> QED
      BY <3>3, <3>4
  <2> QED
    BY <2>6, <2>7
<1>4. ASSUME NEW p \in app.holds \cup app.old, wglDeleteContext(p) PROVE Good'
  <2>1. /\ dll' = mglDeleteContext(dll, p[1]) /\ dev' = DeleteWrites(dll, dev, p[1])
        /\ app' = [app EXCEPT !.holds = @ \ {p}, !.old = @ \ {p},
                              !.cur = IF @ = p THEN NewApp.cur ELSE @]
        /\ p \in app.holds /\ dll.level = 0
        /\ p[1] = Rc(0) => \A q \in app.holds : q[1][1] # "pb"
    BY <1>4 DEF wglDeleteContext, Happens, Spared, If, Expected
  <2>2. app'.holds = app.holds \ {p} /\ app'.cur = IF app.cur = p THEN NewApp.cur ELSE app.cur
    BY <1>1, <2>1 DEF AppType
  <2>3. p[1] \in Handle
    BY Pairs
  <2>4. CASE Deletes(dll, p[1])
    <3>1. dll.currGLRC = NoRc /\ p[1] = Rc(0)
      BY <2>4 DEF Deletes
    <3>2. app'.holds = {}
      <4> SUFFICES ASSUME NEW q \in app.holds PROVE q = p
        BY <2>2
      <4>1. \A i \in Pb : q[1] # PbRc(i) /\ p[1] # PbRc(i)
        BY <2>1, <3>1, Handles
      <4>2. PICK n \in Level : q[1] = Rc(n) /\ dev.ctx[n] = q[2]
        BY <4>1 DEF Good, HeldExist
      <4>3. PICK m \in Level : p[1] = Rc(m) /\ dev.ctx[m] = p[2]
        BY <2>1, <4>1 DEF Good, HeldExist
      <4>4. q[2] # None
        BY Pairs
      <4>5. n = 0
        BY <2>1, <4>2, <4>4 DEF Good, CountedAlike, Level
      <4>6. m = 0
        BY <3>1, <4>3, Handles
      <4>7. q = <<q[1], q[2]>> /\ p = <<p[1], p[2]>>
        BY Pairs
      <4> QED
        BY <4>2, <4>3, <4>5, <4>6, <4>7
    <3>3. dev'.queue = {}
      BY <1>1, <1>q, <2>1, <2>3, <2>4, DeleteReaches
    <3>4. dll' = [dll EXCEPT !.currDC = FALSE, !.currPB = {}]
      BY <2>1, <2>4 DEF mglDeleteContext
    <3>5. dll'.level = 0 /\ dll'.currGLRC = NoRc
      BY <1>1, <2>1, <3>1, <3>4 DEF DllType
    <3> QED
      BY <3>2, <3>3, <3>5, GoodEmpty DEF QueueReady
  <2>5. CASE ~Deletes(dll, p[1])
    <3>1. dll' = dll /\ dev' = dev
      BY <1>1, <2>1, <2>3, <2>5, DeleteReaches DEF mglDeleteContext
    <3>2. Current' => Current /\ app'.cur = app.cur
      BY <2>2, CurTypes DEF Current
    <3>3. HeldExist' /\ CountedAlike' /\ LevelHeld'
      BY <2>1, <2>2, <3>1 DEF Good, HeldExist, CountedAlike, LevelHeld
    <3>4. CurrentReady' /\ QueueReady' /\ QueueOurs'
      BY <3>1, <3>2 DEF Good, CurrentReady, QueueReady, QueueOurs, Gate
    <3>5. NoneComesBack'
      <4>1. \A i \in Pb : app'.cur[1] = PbRc(i) => app'.cur = app.cur /\ app.cur # p
        BY <2>2, CurTypes, Handles
      <4> QED
        BY <2>2, <3>1, <4>1 DEF Good, NoneComesBack, Current
    <3> QED
      BY <3>3, <3>4, <3>5 DEF Good
  <2> QED
    BY <2>4, <2>5
<1>5. ASSUME glQueued \/ glNow PROVE Good'
  <2>1. /\ app' = app /\ dll' = [dll EXCEPT !.calls = @ \cup {dll.start}] /\ Current
    BY <1>5 DEF glQueued, glNow, CanCall, Current
  <2>2. dll.currGLRC # NoRc /\ Gate(dev) /\ dev.cur = app.cur[2]
    BY <2>1 DEF Good, CurrentReady
  <2>3. app.cur[2] \in Id
    BY <2>1, Pairs DEF Current
  <2>4. Call \in [made : Id, start : Id \cup {None}] /\ Call.made = dev.cur
    BY <1>1, <2>2, <2>3 DEF Call, DllType
  <2> DEFINE q == [dev EXCEPT !.queue = @ \cup {Call}]
  <2>5. /\ q \in DevType /\ q.mglContext = dev.mglContext /\ q.mglCntxCurrent = dev.mglCntxCurrent
        /\ q.ctx = dev.ctx /\ q.PBRC = dev.PBRC /\ q.cur = dev.cur /\ q.refs = dev.refs
        /\ q.queue = dev.queue \cup {Call}
    BY <1>1, <2>4 DEF DevType
  <2>6. dev' \in {q, processFifo(q)}
    BY <1>5, <2>2 DEF glQueued, glNow
  <2> HIDE DEF q
  <2>7. /\ dev'.mglContext = dev.mglContext /\ dev'.mglCntxCurrent = dev.mglCntxCurrent
        /\ dev'.ctx = dev.ctx /\ dev'.PBRC = dev.PBRC /\ dev'.cur = dev.cur /\ dev'.refs = dev.refs
        /\ dev'.queue \subseteq dev.queue \cup {Call}
    BY <2>5, <2>6, DrainFacts
  <2>8. /\ dll'.currGLRC = dll.currGLRC /\ dll'.level = dll.level /\ dll'.currDC = dll.currDC
        /\ dll'.loaded = dll.loaded
    BY <1>1, <2>1 DEF DllType
  <2>9. HeldExist' /\ CountedAlike' /\ LevelHeld'
    BY <2>1, <2>7, <2>8 DEF Good, HeldExist, CountedAlike, LevelHeld
  <2>10. CurrentReady' /\ QueueReady' /\ QueueOurs'
    BY <2>1, <2>2, <2>4, <2>7, <2>8 DEF Good, CurrentReady, QueueReady, QueueOurs, Gate
  <2>11. NoneComesBack'
    BY <2>1 DEF NoneComesBack, Current
  <2> QED
    BY <2>9, <2>10, <2>11 DEF Good
<1> QED
  BY <1>2, <1>3, <1>4, <1>5

LEMMA GoodPbuffers ==
  ASSUME TInv, Good, Spared(Expected)',
         \/ \E id \in NewId, width \in Pb : wglCreatePbufferARB(id, width)
         \/ \E i \in dll.currPB : wglDestroyPbufferARB(i)
  PROVE  Good'
<1> USE DEF TInv
<1>1. dll \in DllType /\ dev \in DevType /\ app \in AppType
  BY DEF TypeOK
<1> DEFINE f == processFifo(dev)
<1>f. /\ f \in DevType /\ f.mglContext = dev.mglContext /\ f.mglCntxCurrent = dev.mglCntxCurrent
      /\ f.ctx = dev.ctx /\ f.PBRC = dev.PBRC /\ f.cur = dev.cur /\ f.refs = dev.refs
      /\ f.queue \subseteq dev.queue
  BY <1>1, DrainFacts
<1> HIDE DEF f
\* Everything but one pixel buffer stays.
<1>2. ASSUME NEW i \in Pb, NEW e \in Id \cup {None}, NEW S \in SUBSET app.holds,
             dev' = f \/ dev' = [f EXCEPT !.PBRC[i] = e],
             dll'.currDC = dll.currDC, dll'.currGLRC = dll.currGLRC, dll'.level = dll.level,
             dll'.loaded = dll.loaded, app'.cur = app.cur, app'.holds = S,
             \A p \in app.holds : p \in S \/ p[1] = PbRc(i),
             \A p \in S : p[1] = PbRc(i) => dev'.PBRC[i] = dev.PBRC[i],
             app.cur[1] = PbRc(i) => (dev'.PBRC[i] = dev.PBRC[i] /\ S = app.holds) \/ dev'.PBRC[i] # app.cur[2]
      PROVE  Good'
  <2>1. /\ dev'.mglContext = dev.mglContext /\ dev'.mglCntxCurrent = dev.mglCntxCurrent
        /\ dev'.ctx = dev.ctx /\ dev'.cur = dev.cur /\ dev'.refs = dev.refs
        /\ dev'.queue \subseteq dev.queue
        /\ \A k \in Pb : k # i => dev'.PBRC[k] = dev.PBRC[k]
    BY <1>2, <1>f DEF DevType
  <2>2. HeldExist'
    BY <1>2, <2>1, Handles DEF Good, HeldExist
  <2>3. CountedAlike'
    BY <1>2, <2>1 DEF Good, CountedAlike
  <2>4. LevelHeld'
    BY <1>2, Handles DEF Good, LevelHeld
  <2>5. Current' => Current
    BY <1>2 DEF Current
  <2>6. CurrentReady' /\ QueueReady' /\ QueueOurs'
    BY <1>2, <2>1, <2>5 DEF Good, CurrentReady, QueueReady, QueueOurs, Gate
  <2>7. NoneComesBack'
    <3> SUFFICES ASSUME dll.currGLRC # NoRc, NEW k \in Pb, app.cur[1] = PbRc(k), dev'.PBRC[k] = app.cur[2]
                 PROVE  app.cur \in S
      BY <1>2 DEF NoneComesBack, Current
    <3>1. CASE k = i
      BY <1>2, <3>1 DEF Good, NoneComesBack, Current
    <3>2. CASE k # i
      <4>1. app.cur \in app.holds
        BY <2>1, <3>2 DEF Good, NoneComesBack, Current
      <4> QED
        BY <1>2, <3>2, <4>1, Handles
    <3> QED
      BY <3>1, <3>2
  <2> QED
    BY <2>2, <2>3, <2>4, <2>6, <2>7 DEF Good
<1>3. ASSUME NEW id \in NewId, NEW width \in Pb, wglCreatePbufferARB(id, width) PROVE Good'
  <2> DEFINE full == FreePb(dev) = {}
             i == IF full THEN width ELSE PbSlot(dev)
  <2>1. /\ dev' = IF full THEN f ELSE [f EXCEPT !.PBRC[i] = id]
        /\ dll' = [dll EXCEPT !.currPB = IF full THEN @ \ {i} ELSE @ \cup {i}]
        /\ app' = app /\ id \in Id /\ app.cur[2] # id
    BY <1>3 DEF wglCreatePbufferARB, f, NewId, InUse
  <2>2. i \in Pb /\ (~full => dev.PBRC[i] = None)
    <3>1. CASE full
      BY <3>1
    <3>2. CASE ~full
      BY <3>2, FirstPb DEF FreePb
    <3> QED
      BY <3>1, <3>2
  <2> HIDE DEF full, i
  <2>3. /\ dll'.currDC = dll.currDC /\ dll'.currGLRC = dll.currGLRC /\ dll'.level = dll.level
        /\ dll'.loaded = dll.loaded
    BY <1>1, <2>1 DEF DllType
  <2>4. dev'.PBRC[i] = IF full THEN dev.PBRC[i] ELSE id
    BY <1>f, <2>1, <2>2 DEF DevType
  <2>5. ~full => \A p \in app.holds : p[1] # PbRc(i)
    <3> SUFFICES ASSUME ~full, NEW p \in app.holds, p[1] = PbRc(i) PROVE FALSE
      OBVIOUS
    <3>1. dev.PBRC[i] = p[2]
      BY Handles DEF Good, HeldExist
    <3>2. p[2] # None
      BY Pairs
    <3> QED
      BY <2>2, <3>1, <3>2
  <2>6. CASE full
    BY <1>2, <2>1, <2>2, <2>3, <2>4, <2>6
  <2>7. CASE ~full
    BY <1>2, <2>1, <2>2, <2>3, <2>4, <2>5, <2>7
  <2> QED
    BY <2>6, <2>7
<1>4. ASSUME NEW i \in dll.currPB, wglDestroyPbufferARB(i) PROVE Good'
  <2> DEFINE S == {p \in app.holds : p[1] # PbRc(i)}
  <2>1. /\ dev' = [f EXCEPT !.PBRC[i] = None] /\ dll' = [dll EXCEPT !.currPB = @ \ {i}]
        /\ app' = [app EXCEPT !.holds = S]
    BY <1>4 DEF wglDestroyPbufferARB, f
  <2>2. i \in Pb
    BY <1>1 DEF DllType
  <2>3. /\ dll'.currDC = dll.currDC /\ dll'.currGLRC = dll.currGLRC /\ dll'.level = dll.level
        /\ dll'.loaded = dll.loaded
    BY <1>1, <2>1 DEF DllType
  <2>4. app'.cur = app.cur /\ app'.holds = S
    BY <1>1, <2>1 DEF AppType
  <2>5. dev'.PBRC[i] = None
    BY <1>f, <2>1, <2>2 DEF DevType
  <2>6. app.cur[1] = PbRc(i) => app.cur[2] # None
    BY CurTypes, Handles
  <2>7. S \in SUBSET app.holds /\ (\A p \in app.holds : p \in S \/ p[1] = PbRc(i))
        /\ (\A p \in S : p[1] # PbRc(i))
    OBVIOUS
  <2> HIDE DEF S
  <2> QED
    BY <1>2, <2>1, <2>2, <2>3, <2>4, <2>5, <2>6, <2>7
<1> QED
  BY <1>3, <1>4

LEMMA RInvNext == TInv /\ RInv /\ [Next]_vars => RInv'
<1> SUFFICES ASSUME TInv, RInv, [Next]_vars PROVE RInv'
  OBVIOUS
<1>1. CASE UNCHANGED vars
  <2>1. Spared(Expected)' = Spared(Expected) /\ Good' = Good
    BY <1>1 DEF vars, Spared, Good, HeldExist, CountedAlike, LevelHeld, CurrentReady,
                QueueReady, QueueOurs, NoneComesBack, Current, Gate
  <2> QED
    BY <2>1 DEF RInv
<1>2. CASE Next
  <2> SUFFICES ASSUME Spared(Expected)' PROVE Good'
    BY DEF RInv
  <2>1. Good
    BY <1>2, Remembered DEF RInv, Spared
  <2> QED
    BY <1>2, <2>1, GoodProcess, GoodCreate, GoodUse, GoodPbuffers DEF Next
<1> QED
  BY <1>1, <1>2

LEMMA RInvInit == Init => RInv
<1> SUFFICES ASSUME Init PROVE Good
  BY DEF RInv
<1>1. NewDev.queue = {} /\ NewDll.currGLRC = NoRc /\ NewDll.level = 0 /\ NewApp.holds = {}
  BY NewTypes DEF NewDev
<1> QED
  BY <1>1 DEF Init, Good, HeldExist, CountedAlike, LevelHeld, CurrentReady, QueueReady, QueueOurs,
              NoneComesBack, Current

\* For every number of slots and pixel buffers: what the application has made
\* current is current, and the gate is open.
THEOREM ContextIsRight == Spec => []RightContext
<1>1. RInv => RightContext
  BY DEF RInv, Good, CurrentReady, RightContext, Expected
<1> QED
  BY <1>1, TInvInit, TInvNext, RInvInit, RInvNext, PTL DEF Spec

\* And no call that waits is ever carried out in another context than its own.
THEOREM CallsStayInOwn == Spec => []CallsInOwn
<1>1. RInv => CallsInOwn
  BY DEF RInv, Good, QueueReady, CallsInOwn, Expected
<1> QED
  BY <1>1, TInvInit, TInvNext, RInvInit, RInvNext, PTL DEF Spec

-----------------------------------------------------------------------------
(* Nothing is left of a process *)

Orderly == {"temp", "busy", "shared", "order", "pbuffers", "left", "killed"}

HasRc == \E p \in app.holds : p[1][1] = "rc"
Bare == dev.cur = None /\ dev.ctx = NoContexts

GoneEmpty == ~dll.loaded => ~dev.mglContext /\ ~dev.mglCntxCurrent /\ Bare

\* A gate can only be open for an application that holds a context of the window.
GateHeld == dll.loaded /\ dev.mglCntxCurrent => dev.mglContext /\ HasRc

\* The context the wrapper believes current is the first one, or the deletion
\* that ends it would have no effect.
RcHeld ==
  /\ dll.currGLRC # NoRc => HasRc
  /\ dll.level # 0 => dll.currGLRC # NoRc
  /\ \A p \in app.holds : p[1][1] = "rc" => dll.level # 0 \/ p[1] = Rc(0)
  /\ \A p \in app.holds : p[1][1] = "pb" => HasRc

NoneCurrent == app.cur = NewApp.cur /\ dll.level = 0 => dll.currGLRC = NoRc

BareWithout == ~dev.mglContext /\ ~HasRc => Bare

Tidy == GoneEmpty /\ GateHeld /\ RcHeld /\ NoneCurrent /\ BareWithout

NInv == Spared(Orderly) => Tidy

\* The flag of a context made current is never set without that of a context.
Paired(d) == d.mglCntxCurrent => d.mglContext

LEMMA DeleteShuts ==
  ASSUME NEW w \in DllType, NEW d \in DevType, NEW rc \in Handle, Deletes(w, rc), Paired(d)
  PROVE  ~DeleteWrites(w, d, rc).mglCntxCurrent
<1> DEFINE c == IF w.currPB = {} THEN d ELSE processFifo(d)
           pb == [i \in Pb |-> IF i \in w.currPB THEN None ELSE c.PBRC[i]]
           e == [c EXCEPT !.PBRC = pb]
           f == processFifo(e)
           x == MGLDeleteContext(f)
<1>1. /\ c \in DevType /\ c.mglContext = d.mglContext /\ c.mglCntxCurrent = d.mglCntxCurrent
  BY DrainFacts
<1>2. DeleteWrites(w, d, rc) = WriteDelete(e)
  BY DEF DeleteWrites
<1> HIDE DEF c
<1>3. pb \in [Pb -> Id \cup {None}]
  BY <1>1 DEF DevType
<1> HIDE DEF pb
<1>4. e \in DevType /\ e.mglContext = d.mglContext /\ e.mglCntxCurrent = d.mglCntxCurrent
  BY <1>1, <1>3 DEF DevType
<1>5. WriteDelete(e) =
        IF Gate(e) THEN [x EXCEPT !.mglContext = FALSE, !.mglCntxCurrent = FALSE] ELSE x
  BY DEF WriteDelete
<1> HIDE DEF e
<1>f. f \in DevType /\ f.mglContext = e.mglContext /\ f.mglCntxCurrent = e.mglCntxCurrent
  BY <1>4, DrainFacts
<1> HIDE DEF f
<1>6. x = [f EXCEPT !.cur = None, !.ctx = NoContexts]
  BY DEF MGLDeleteContext
<1>7. NoContexts \in [Level -> Id \cup {None}]
  BY DEF NoContexts
<1>8. x \in DevType /\ x.mglContext = e.mglContext /\ x.mglCntxCurrent = e.mglCntxCurrent
  BY <1>f, <1>6, <1>7 DEF DevType
<1> HIDE DEF x
<1>9. CASE Gate(e)
  BY <1>2, <1>5, <1>8, <1>9 DEF DevType
<1>10. CASE ~Gate(e)
  BY <1>2, <1>4, <1>5, <1>8, <1>10 DEF Gate, Paired
<1> QED
  BY <1>9, <1>10

LEMMA UnloadClears ==
  ASSUME NEW d \in DevType
  PROVE  /\ ~WriteUnload(d).mglContext
         /\ WriteUnload(d).mglCntxCurrent = d.mglCntxCurrent
         /\ d.mglContext \/ (d.cur = None /\ d.ctx = NoContexts) =>
              WriteUnload(d).cur = None /\ WriteUnload(d).ctx = NoContexts
<1>1. WriteUnload(d) =
        IF d.mglContext THEN [d EXCEPT !.cur = None, !.ctx = NoContexts, !.mglContext = FALSE] ELSE d
  BY DEF WriteUnload, MGLDeleteContext, DevType
<1> QED
  BY <1>1 DEF DevType

LEMMA AloneShuts ==
  ASSUME NEW d \in DevType, NEW id \in Id \cup {None}, Paired(d)
  PROVE  /\ Paired(CreateAlone(d, id))
         /\ CreateAlone(d, id).mglCntxCurrent => d.mglCntxCurrent
         /\ id # None => ~CreateAlone(d, id).mglCntxCurrent
         /\ CreateAlone(d, id).cur = None
<1> DEFINE p == processFifo(d)
           c == [p EXCEPT !.cur = None, !.ctx = FirstContext(id)]
<1>1. /\ p \in DevType /\ p.mglContext = d.mglContext /\ p.mglCntxCurrent = d.mglCntxCurrent
  BY DrainFacts
<1>2. CreateAlone(d, id) =
        IF id = None THEN c
        ELSE [c EXCEPT !.mglContext = TRUE, !.mglCntxCurrent = FALSE, !.calls = {}]
  BY DEF CreateAlone
<1>3. FirstContext(id) \in [Level -> Id \cup {None}]
  BY DEF FirstContext
<1> HIDE DEF p
<1>4. /\ c \in DevType /\ c.mglContext = d.mglContext /\ c.mglCntxCurrent = d.mglCntxCurrent
      /\ c.cur = None
  BY <1>1, <1>3 DEF DevType
<1> HIDE DEF c
<1> QED
  BY <1>2, <1>4 DEF DevType, Paired

LEMMA MakeCurrentPairs ==
  ASSUME NEW d \in DevType, NEW rc \in Handle \cup {NoRc}, Paired(d)
  PROVE  /\ Paired(WriteMakeCurrent(d, rc))
         /\ rc = NoRc => WriteMakeCurrent(d, rc).mglCntxCurrent = d.mglCntxCurrent
<1> DEFINE c == MGLMakeCurrent(processFifo(d), rc)
           id == CASE rc[1] = "rc" -> processFifo(d).ctx[rc[2]]
                   [] rc[1] = "pb" -> processFifo(d).PBRC[rc[2]]
                   [] OTHER -> processFifo(d).cur
<1>1. c = [processFifo(d) EXCEPT !.cur = id]
  BY DEF MGLMakeCurrent
<1> HIDE DEF id
<1>2. c.mglContext = d.mglContext /\ c.mglCntxCurrent = d.mglCntxCurrent
  BY <1>1, DrainFacts DEF DevType
<1>3. WriteMakeCurrent(d, rc) =
        IF d.mglContext /\ ~d.mglCntxCurrent /\ rc # NoRc
        THEN [c EXCEPT !.mglCntxCurrent = TRUE] ELSE c
  BY DEF WriteMakeCurrent
<1>4. [c EXCEPT !.mglCntxCurrent = TRUE].mglContext = c.mglContext
  BY <1>1, DrainFacts DEF DevType
<1> HIDE DEF c
<1> QED
  BY <1>2, <1>3, <1>4 DEF Paired

LEMMA MakeCurrentLeaves ==
  ASSUME NEW w \in DllType, NEW d \in DevType, NEW dc \in Dc, NEW rc \in Handle \cup {NoRc},
         NEW id \in Id, HasDc(w), Paired(d)
  PROVE  /\ Paired(MakeCurrentWrites(w, d, dc, rc, id))
         /\ rc = NoRc =>
              /\ MakeCurrentWrites(w, d, dc, rc, id).mglCntxCurrent = d.mglCntxCurrent
              /\ ~MakeCurrentWrites(w, d, dc, rc, id).mglContext =>
                   /\ ~d.mglContext
                   /\ MakeCurrentWrites(w, d, dc, rc, id).cur = d.cur
                   /\ MakeCurrentWrites(w, d, dc, rc, id).ctx = d.ctx
<1>1. CASE w.currDC
  BY <1>1, MakeCurrentFacts, MakeCurrentPairs DEF MakeCurrentWrites
<1>2. CASE ~w.currDC /\ ~w.currPixFmt
  BY <1>2 DEF MakeCurrentWrites
<1>3. CASE ~w.currDC /\ w.currPixFmt
  <2> DEFINE c == WriteCreate(d, dc, id)
             m == WriteMakeCurrent(c, rc)
  <2>1. c \in DevType /\ c.mglContext /\ c.mglCntxCurrent = d.mglCntxCurrent
    BY CreateFacts
  <2>2. MakeCurrentWrites(w, d, dc, rc, id) \in {c, m}
    BY <1>3 DEF MakeCurrentWrites
  <2> HIDE DEF c
  <2>3. /\ m.mglContext /\ Paired(m) /\ Paired(c)
        /\ rc = NoRc => m.mglCntxCurrent = c.mglCntxCurrent
    BY <2>1, MakeCurrentFacts, MakeCurrentPairs DEF Paired
  <2> HIDE DEF m
  <2> QED
    BY <2>1, <2>2, <2>3
<1> QED
  BY <1>1, <1>2, <1>3

LEMMA UnsetShuts ==
  ASSUME NEW w \in DllType, NEW d \in DevType, HasDc(w), Paired(d)
  PROVE  /\ Paired(UnsetWrites(w, d))
         /\ w.currGLRC # NoRc /\ w.level = 0 =>
              /\ ~UnsetWrites(w, d).mglCntxCurrent
              /\ UnsetWrites(w, d).cur = None /\ UnsetWrites(w, d).ctx = NoContexts
         /\ w.currGLRC # NoRc /\ w.level # 0 => Unset(w).currGLRC # NoRc
<1> DEFINE n == NotCurrent(w)
           m == MakeCurrentWrites(w, d, NoDC, NoRc, None)
<1>1. CASE w.currGLRC = NoRc
  BY <1>1 DEF UnsetWrites
<1>2. CASE w.currGLRC # NoRc
  <2>1. w.currDC
    BY <1>2 DEF HasDc
  <2>2. n = [w EXCEPT !.currGLRC = IF w.level # 0 THEN Rc(0) ELSE NoRc]
    BY <2>1, WrapperMakesCurrent DEF NotCurrent, Dc
  <2>3. Rc(0) \in Handle /\ Rc(0) # NoRc
    BY Handles DEF Handle, Level
  <2>4. n \in DllType /\ n.level = w.level /\ n.currGLRC = IF w.level # 0 THEN Rc(0) ELSE NoRc
    BY <2>2, <2>3 DEF DllType
  <2>5. m = WriteMakeCurrent(d, NoRc)
    BY <2>1, MakeCurrentReaches DEF Dc
  <2>6. m \in DevType /\ Paired(m)
    BY <2>5, MakeCurrentFacts, MakeCurrentPairs
  <2>7. Unset(w) = mglDeleteContext(n, Rc(0)) /\ UnsetWrites(w, d) = DeleteWrites(n, m, Rc(0))
    BY <1>2 DEF Unset, UnsetWrites
  <2> HIDE DEF n, m
  <2>8. Deletes(n, Rc(0)) <=> w.level = 0
    BY <2>3, <2>4 DEF Deletes
  <2>9. CASE w.level = 0
    <3>1. /\ ~UnsetWrites(w, d).mglCntxCurrent
          /\ UnsetWrites(w, d).cur = None /\ UnsetWrites(w, d).ctx = NoContexts
      BY <2>3, <2>4, <2>6, <2>7, <2>8, <2>9, DeleteReaches, DeleteShuts
    <3> QED
      BY <2>9, <3>1 DEF Paired
  <2>10. CASE w.level # 0
    <3>1. Unset(w) = n /\ UnsetWrites(w, d) = m
      BY <2>3, <2>4, <2>6, <2>7, <2>8, <2>10, DeleteReaches DEF mglDeleteContext
    <3> QED
      BY <2>3, <2>4, <2>6, <2>10, <3>1
  <2> QED
    BY <2>9, <2>10
<1> QED
  BY <1>1, <1>2

\* The device is one that a process can leave or find.
LEMMA TidyPaired == ASSUME Tidy PROVE Paired(dev)
BY DEF Tidy, GoneEmpty, GateHeld, Paired

LEMMA TidyProcess ==
  ASSUME TInv, Agree, Tidy, Spared(Orderly)',
         \/ \E same \in BOOLEAN : Attach(same)
         \/ Detach
         \/ Killed
         \/ wglSetPixelFormat
  PROVE  Tidy'
<1> USE DEF TInv
<1>1. dll \in DllType /\ dev \in DevType /\ app \in AppType /\ HasDc(dll) /\ Paired(dev)
  BY TidyPaired DEF TypeOK, WrapperOK
<1> DEFINE u == UnsetWrites(dll, dev)
<1>u. /\ u \in DevType /\ u.refs = dev.refs
      /\ Unset(dll) \in DllType /\ Unset(dll).level = dll.level /\ Unset(dll).loaded = dll.loaded
      /\ dll.currGLRC = NoRc => Unset(dll) = dll /\ u = dev
      /\ dll.currGLRC # NoRc /\ dll.level = 0 => Unset(dll).currGLRC = NoRc
  BY <1>1, UnsetFacts
<1>s. /\ Paired(u)
      /\ dll.currGLRC # NoRc /\ dll.level = 0 =>
           ~u.mglCntxCurrent /\ u.cur = None /\ u.ctx = NoContexts
      /\ dll.currGLRC # NoRc /\ dll.level # 0 => Unset(dll).currGLRC # NoRc
  BY <1>1, UnsetShuts
<1>2. ASSUME NEW same \in BOOLEAN, Attach(same) PROVE Tidy'
  <2>1. /\ ~dll.loaded /\ dll' = [NewDll EXCEPT !.loaded = TRUE] /\ app' = NewApp
        /\ dev' = [dev EXCEPT !.refs = 1, !.queue = {}] \/ dev' = [dev EXCEPT !.refs = 2]
    BY <1>2 DEF Attach
  <2>2. dll'.loaded /\ dll'.currGLRC = NoRc /\ dll'.level = 0 /\ app'.holds = {}
    BY <2>1, NewTypes DEF DllType
  <2>3. /\ dev'.mglContext = dev.mglContext /\ dev'.mglCntxCurrent = dev.mglCntxCurrent
        /\ dev'.cur = dev.cur /\ dev'.ctx = dev.ctx
    BY <1>1, <2>1 DEF DevType
  <2>4. ~HasRc'
    BY <2>2 DEF HasRc
  <2> QED
    BY <2>1, <2>2, <2>3 DEF Tidy, GoneEmpty, GateHeld, RcHeld, NoneCurrent, BareWithout, Bare
<1>3. CASE Detach
  <2>1. /\ dll.loaded /\ dll' = NewDll /\ app' = NewApp
        /\ dev.refs = 1 => dev' = [WriteUnload(u) EXCEPT !.refs = 0]
        /\ app.holds # {} => dll.currGLRC # NoRc /\ dll.level = 0
    BY <1>3 DEF Detach, Spared, If, Orderly
  <2>2. dev.refs = 1
    BY <2>1 DEF Agree
  <2> HIDE DEF u
  <2>3. ~u.mglCntxCurrent /\ (u.mglContext \/ (u.cur = None /\ u.ctx = NoContexts))
    <3>1. CASE dll.currGLRC # NoRc /\ dll.level = 0
      BY <1>s, <3>1
    <3>2. CASE ~(dll.currGLRC # NoRc /\ dll.level = 0)
      <4>1. ~HasRc
        BY <2>1, <3>2 DEF HasRc
      <4>2. u = dev
        BY <1>u, <4>1 DEF Tidy, RcHeld
      <4> QED
        BY <2>1, <4>1, <4>2 DEF Tidy, GateHeld, BareWithout, Bare
    <3> QED
      BY <3>1, <3>2
  <2>4. /\ WriteUnload(u) \in DevType /\ ~WriteUnload(u).mglContext
        /\ ~WriteUnload(u).mglCntxCurrent
        /\ WriteUnload(u).cur = None /\ WriteUnload(u).ctx = NoContexts
    BY <1>u, <2>3, UnloadFacts, UnloadClears
  <2>5. ~dev'.mglContext /\ ~dev'.mglCntxCurrent /\ Bare'
    BY <2>1, <2>2, <2>4 DEF DevType, Bare
  <2>6. dll'.currGLRC = NoRc /\ dll'.level = 0 /\ app'.holds = {}
    BY <2>1, NewTypes
  <2> QED
    BY <2>5, <2>6 DEF Tidy, GoneEmpty, GateHeld, RcHeld, NoneCurrent, BareWithout
<1>4. CASE Killed
  BY <1>4 DEF Killed, Happens, Spared, Orderly
<1>5. CASE wglSetPixelFormat
  <2>1. /\ dll' = [Unset(dll) EXCEPT !.currPixFmt = TRUE] /\ dev' = processFifo(u)
        /\ app' = app /\ dll.loaded
    BY <1>5 DEF wglSetPixelFormat
  <2> HIDE DEF u
  <2>2. /\ dll'.loaded /\ dll'.level = dll.level /\ dll'.currGLRC = Unset(dll).currGLRC
        /\ dev'.mglContext = u.mglContext /\ dev'.mglCntxCurrent = u.mglCntxCurrent
        /\ dev'.cur = u.cur /\ dev'.ctx = u.ctx
    BY <1>u, <2>1, DrainFacts DEF DllType
  <2>3. HasRc' = HasRc /\ app'.holds = app.holds /\ app'.cur = app.cur
    BY <2>1 DEF HasRc
  <2>4. CASE dll.currGLRC = NoRc
    BY <1>u, <2>1, <2>2, <2>3, <2>4
       DEF Tidy, GoneEmpty, GateHeld, RcHeld, NoneCurrent, BareWithout, Bare
  <2>5. CASE dll.currGLRC # NoRc /\ dll.level = 0
    BY <1>u, <1>s, <2>2, <2>3, <2>5
       DEF Tidy, GoneEmpty, GateHeld, RcHeld, NoneCurrent, BareWithout, Bare
  <2>6. CASE dll.currGLRC # NoRc /\ dll.level # 0
    <3>1. HasRc
      BY <2>6 DEF Tidy, RcHeld
    <3> QED
      BY <1>s, <2>2, <2>3, <2>6, <3>1
         DEF Tidy, GoneEmpty, GateHeld, RcHeld, NoneCurrent, BareWithout, Paired
  <2> QED
    BY <2>4, <2>5, <2>6
<1> QED
  BY <1>2, <1>3, <1>4, <1>5

\* With a context of the window in hand only the flags and the handles are left
\* to show.
LEMMA TidyHeld ==
  ASSUME dll'.loaded, HasRc', Paired(dev'),
         dll'.level # 0 => dll'.currGLRC # NoRc,
         \A p \in app'.holds : p[1][1] = "rc" => dll'.level # 0 \/ p[1] = Rc(0),
         NoneCurrent'
  PROVE  Tidy'
BY DEF Tidy, GoneEmpty, GateHeld, RcHeld, BareWithout, Paired

LEMMA HoldsRc ==
  ASSUME app \in AppType, NEW n \in Level, NEW id \in Id, app' = Holding(Rc(n), id)
  PROVE  HasRc' /\ app'.holds = app.holds \cup {<<Rc(n), id>>} /\ app'.cur = app.cur
<1>1. Rc(n) \in Handle \cup {NoRc} /\ Rc(n) # NoRc
  BY Handles DEF Handle
<1>2. app'.holds = app.holds \cup {<<Rc(n), id>>} /\ app'.cur = app.cur
  BY <1>1, HoldingTypes
<1>3. <<Rc(n), id>>[1][1] = "rc"
  BY Handles
<1> QED
  BY <1>2, <1>3 DEF HasRc

LEMMA TidyCreate ==
  ASSUME TInv, Tidy, Spared(Orderly)', NEW id \in NewId,
         \/ \E ok \in BOOLEAN : wglCreateContext(id, ok)
         \/ \E i \in dll.currPB : wglCreateContextPb(i, id)
         \/ \E ok \in BOOLEAN : AttribsAlone(id, ok)
         \/ \E ok \in BOOLEAN, p \in app.holds : AttribsShared(p, id, ok)
  PROVE  Tidy'
<1> USE DEF TInv
<1>1. /\ dll \in DllType /\ dev \in DevType /\ app \in AppType /\ HasDc(dll) /\ Paired(dev)
      /\ id \in Id
  BY TidyPaired DEF TypeOK, WrapperOK, NewId
<1>2. ASSUME NEW dc \in {Window} \cup {PbRc(i) : i \in Pb}, NEW e \in Id \cup {None}, NEW made \in Id,
             dll.currPixFmt, dll' = mglCreateContext(dll, dc, id), dev' = WriteCreate(dev, dc, e),
             app' = Holding(Returned(dll, dc), made)
      PROVE  Tidy'
  <2>1. dc \in Dc /\ dll.loaded
    BY <1>2 DEF Dc, WrapperOK
  <2>2. /\ dll' = [dll EXCEPT !.start = id, !.calls = {}, !.currDC = dc # NoDC] \/ dll' = dll
    BY <1>1, <1>2, <2>1, WrapperCreates
  <2>3. dll'.loaded /\ dll'.level = dll.level /\ dll'.currGLRC = dll.currGLRC
    BY <1>1, <2>1, <2>2 DEF DllType
  <2>4. Paired(dev')
    BY <1>1, <1>2, <2>1, CreateFacts DEF Paired
  <2>5. CASE dll.currGLRC = NoRc
    <3>1. app' = Holding(Rc(0), made) /\ dll.level = 0
      BY <1>2, <2>5 DEF Returned, Tidy, RcHeld
    <3>2. HasRc' /\ app'.holds = app.holds \cup {<<Rc(0), made>>} /\ app'.cur = app.cur
      BY <1>1, <3>1, FirstHandle, HoldsRc
    <3> QED
      BY <2>3, <2>4, <2>5, <3>1, <3>2, TidyHeld DEF Tidy, RcHeld, NoneCurrent
  <2>6. CASE dll.currGLRC # NoRc
    <3>1. /\ app'.holds \in {app.holds, app.holds \cup {<<dc, made>>}} /\ app'.cur = app.cur
          /\ dc = Window => app'.holds = app.holds
      <4>1. CASE dc = Window
        <5>1. app' = app
          BY <1>2, <2>6, <4>1, Handles DEF Returned, Holding
        <5> QED
          BY <5>1
      <4>2. CASE dc \in {PbRc(i) : i \in Pb}
        <5>1. dc \in Handle \cup {NoRc} /\ dc # NoRc /\ dc # Window /\ dc[1] = "pb"
          BY <4>2, Handles DEF Handle
        <5>2. app' = Holding(dc, made)
          BY <1>2, <2>6, <5>1 DEF Returned
        <5> QED
          BY <1>1, <5>1, <5>2, HoldingTypes
      <4> QED
        BY <4>1, <4>2
    <3>2. HasRc
      BY <2>6 DEF Tidy, RcHeld
    <3>3. HasRc'
      BY <3>1, <3>2 DEF HasRc
    <3>4. \A p \in app'.holds : p[1][1] = "rc" => p \in app.holds
      BY <1>2, <3>1, Handles
    <3> QED
      BY <2>3, <2>4, <2>6, <3>1, <3>3, <3>4, TidyHeld DEF Tidy, RcHeld, NoneCurrent
  <2> QED
    BY <2>5, <2>6
<1>3. ASSUME NEW ok \in BOOLEAN, wglCreateContext(id, ok) PROVE Tidy'
  BY <1>1, <1>2, <1>3 DEF wglCreateContext
<1>4. ASSUME NEW i \in dll.currPB, wglCreateContextPb(i, id) PROVE Tidy'
  <2>1. PbRc(i) \in {PbRc(k) : k \in Pb} /\ dev.PBRC[i] \in Id
    BY <1>1 DEF WrapperOK, DevType, DllType
  <2> QED
    BY <1>1, <1>2, <1>4, <2>1 DEF wglCreateContextPb
<1>a. ASSUME NEW e \in Id \cup {None}
      PROVE  LET a == CreateAlone(dev, e) IN
             /\ Paired(a) /\ (a.mglCntxCurrent => dev.mglCntxCurrent)
             /\ e # None => ~a.mglCntxCurrent
             /\ a.cur = None /\ (e = None => a.ctx = NoContexts)
  <2>1. FirstContext(None) = NoContexts
    BY DEF FirstContext, NoContexts
  <2> QED
    BY <1>1, <2>1, AloneFacts, AloneShuts
<1>5. ASSUME NEW ok \in BOOLEAN, AttribsAlone(id, ok) PROVE Tidy'
  <2>1. /\ dev' = CreateAlone(dev, IF ok THEN id ELSE None) /\ dll.loaded
    BY <1>5 DEF AttribsAlone, WriteCreateAttribs, WrapperOK
  <2>2. CASE ok
    <3>1. /\ dll' = [InitClientStates(dll, id) EXCEPT !.currDC = TRUE, !.currGLRC = NoRc, !.level = 0]
          /\ app' = [app EXCEPT !.holds = {<<Rc(0), id>>}, !.old = app.holds]
      BY <1>5, <2>2 DEF AttribsAlone
    <3>2. dll'.loaded /\ dll'.level = 0 /\ dll'.currGLRC = NoRc
      BY <1>1, <2>1, <3>1, Restarted DEF DllType
    <3>3. app'.holds = {<<Rc(0), id>>} /\ <<Rc(0), id>>[1][1] = "rc"
      BY <1>1, <3>1, Handles DEF AppType
    <3>4. Paired(dev')
      BY <1>1, <1>a, <2>1, <2>2
    <3> QED
      BY <3>2, <3>3, <3>4, TidyHeld DEF HasRc, NoneCurrent
  <2>3. CASE ~ok
    <3>1. dll' = dll /\ app' = app /\ dev' = CreateAlone(dev, None)
      BY <1>5, <2>1, <2>3 DEF AttribsAlone
    <3>2. Paired(dev') /\ (dev'.mglCntxCurrent => dev.mglCntxCurrent) /\ Bare'
      BY <1>a, <3>1 DEF Bare
    <3>3. HasRc' = HasRc
      BY <3>1 DEF HasRc
    <3> QED
      BY <2>1, <3>1, <3>2, <3>3
         DEF Tidy, GoneEmpty, GateHeld, RcHeld, NoneCurrent, BareWithout, Paired
  <2> QED
    BY <2>2, <2>3
<1>6. ASSUME NEW ok \in BOOLEAN, NEW p \in app.holds, AttribsShared(p, id, ok) PROVE Tidy'
  <2>1. dll.loaded /\ dev' = WriteCreateAttribs(dev, TRUE, IF ok THEN id ELSE None)
    BY <1>6 DEF AttribsShared, WrapperOK
  <2>2. Paired(dev')
    BY <1>1, <1>a, <2>1, SharedFacts DEF WriteCreateAttribs, Paired
  <2>3. HasRc
    <3>1. p[1][1] \in {"rc", "pb"}
      <4>1. p[1] \in Handle
        BY Pairs
      <4> QED
        BY <4>1, Handles DEF Handle
    <3> QED
      BY <3>1 DEF Tidy, RcHeld, HasRc
  <2>4. CASE ~ok
    <3>1. dll' = dll /\ app' = app
      BY <1>6, <2>4 DEF AttribsShared
    <3>2. HasRc'
      BY <2>3, <3>1 DEF HasRc
    <3> QED
      BY <2>1, <2>2, <3>1, <3>2, TidyHeld DEF Tidy, RcHeld, NoneCurrent
  <2>5. CASE ok /\ dll.currGLRC # NoRc
    <3>1. /\ dll' = [dll EXCEPT !.level = NextLevel(dll.level)]
          /\ app' = Holding(Rc(NextLevel(dll.level)), id)
      BY <1>6, <2>5 DEF AttribsShared
    <3>2. NextLevel(dll.level) \in Level /\ NextLevel(dll.level) # 0
      BY <1>1, Levels DEF DllType
    <3>3. HasRc'
      BY <1>1, <3>1, <3>2, HoldsRc
    <3>4. dll'.loaded /\ dll'.level # 0 /\ dll'.currGLRC # NoRc
      BY <1>1, <2>1, <2>5, <3>1, <3>2 DEF DllType
    <3> QED
      BY <2>2, <3>3, <3>4, TidyHeld DEF NoneCurrent
  <2>6. CASE ok /\ dll.currGLRC = NoRc
    <3>1. /\ dll' = [InitClientStates(dll, id) EXCEPT !.currDC = TRUE, !.level = 0]
          /\ app' = Holding(Rc(0), id)
      BY <1>6, <2>6 DEF AttribsShared
    <3>2. HasRc' /\ app'.holds = app.holds \cup {<<Rc(0), id>>}
      BY <1>1, <3>1, FirstHandle, HoldsRc
    <3>3. dll'.loaded /\ dll'.level = 0 /\ dll'.currGLRC = NoRc /\ dll.level = 0
      BY <1>1, <2>1, <2>6, <3>1, Restarted DEF DllType, Tidy, RcHeld
    <3> QED
      BY <2>2, <3>2, <3>3, TidyHeld DEF Tidy, RcHeld, NoneCurrent
  <2> QED
    BY <2>4, <2>5, <2>6
<1> QED
  BY <1>3, <1>4, <1>5, <1>6

LEMMA TidyUse ==
  ASSUME TInv, Tidy, Spared(Orderly)',
         \/ \E id \in NewId, p \in app.holds \cup app.old : wglMakeCurrent(p, id)
         \/ \E id \in NewId : wglMakeCurrentNone(id)
         \/ \E p \in app.holds \cup app.old : wglDeleteContext(p)
         \/ glQueued
         \/ glNow
  PROVE  Tidy'
<1> USE DEF TInv
<1>1. /\ dll \in DllType /\ dev \in DevType /\ app \in AppType /\ HasDc(dll) /\ Paired(dev)
      /\ NewId \subseteq Id /\ NoRc \in Handle \cup {NoRc} /\ NoDC \in Dc
  BY TidyPaired DEF TypeOK, WrapperOK, NewId, Dc
<1>2. ASSUME NEW id \in NewId, NEW p \in app.holds \cup app.old, wglMakeCurrent(p, id) PROVE Tidy'
  <2> DEFINE dc == DcOf(p[1])
             r == mglMakeCurrent(dll, dc, p[1], id)
  <2>1. /\ dll' = r /\ dev' = MakeCurrentWrites(dll, dev, dc, p[1], id) /\ p \in app.holds
        /\ app' = IF MakeFails(dll, dc) THEN app ELSE [app EXCEPT !.cur = p]
    BY <1>2 DEF wglMakeCurrent, Happens, Spared, If, Orderly
  <2>2. p[1] \in Handle /\ dc \in Dc /\ p[1] # NoRc /\ p \in Handle \X Id /\ p[1][1] \in {"rc", "pb"}
    <3>1. p[1] \in Handle
      BY Pairs
    <3>2. p[1][1] \in {"rc", "pb"}
      BY <3>1, Handles DEF Handle
    <3> QED
      BY <3>2, Pairs
  <2>3. Paired(dev')
    BY <1>1, <2>1, <2>2, MakeCurrentLeaves
  <2>4. dll.currPixFmt /\ dll.loaded
    BY <2>1 DEF WrapperOK
  <2> HIDE DEF dc
  <2>5. ~MakeFails(dll, dc)
    BY <2>4, Handles DEF MakeFails, Returned, HasDc, WrapperOK
  <2>6. app'.holds = app.holds /\ app'.cur = p
    BY <1>1, <2>1, <2>2, <2>5 DEF AppType
  <2>7. /\ r.loaded = dll.loaded /\ r.level = dll.level
        /\ dll.level # 0 => r.currGLRC # NoRc
    <3>1. /\ r.loaded = dll.loaded /\ r.level = dll.level
          /\ dll.currDC => r.currGLRC = IF dll.level # 0 THEN Rc(0) ELSE p[1]
      BY <1>1, <2>2, WrapperMakesCurrent
    <3>2. dll.level # 0 => dll.currDC
      BY DEF WrapperOK, HasDc
    <3> QED
      BY <3>1, <3>2, Handles
  <2> HIDE DEF r
  <2>8. HasRc'
    BY <2>1, <2>2, <2>6 DEF HasRc, Tidy, RcHeld
  <2>9. app'.cur # NewApp.cur
    BY <2>2, <2>6, NewTypes
  <2> QED
    BY <2>1, <2>3, <2>4, <2>6, <2>7, <2>8, <2>9, TidyHeld DEF Tidy, RcHeld, NoneCurrent
<1>3. ASSUME NEW id \in NewId, wglMakeCurrentNone(id) PROVE Tidy'
  <2> DEFINE r == mglMakeCurrent(dll, NoDC, NoRc, id)
             e == MakeCurrentWrites(dll, dev, NoDC, NoRc, id)
  <2>1. dll' = r /\ dev' = e /\ app' = [app EXCEPT !.cur = NewApp.cur] /\ dll.loaded
    BY <1>3 DEF wglMakeCurrentNone
  <2>2. /\ Paired(e) /\ e.mglCntxCurrent = dev.mglCntxCurrent
        /\ ~e.mglContext => ~dev.mglContext /\ e.cur = dev.cur /\ e.ctx = dev.ctx
    BY <1>1, <1>3, MakeCurrentLeaves
  <2>3. /\ r.loaded = dll.loaded /\ r.level = dll.level
        /\ dll.currDC => r.currGLRC = IF dll.level # 0 THEN Rc(0) ELSE NoRc
        /\ ~dll.currDC /\ ~dll.currPixFmt => r = dll
        /\ ~dll.currDC /\ dll.currPixFmt => r.currGLRC = NoRc
    BY <1>1, <1>3, WrapperMakesCurrent
  <2> HIDE DEF r, e
  <2>4. dll.level = 0 => r.currGLRC = NoRc
    BY <2>3 DEF WrapperOK, HasDc
  <2>5. dll.level # 0 => r.currGLRC # NoRc /\ HasRc
    BY <2>3, Handles DEF WrapperOK, HasDc, Tidy, RcHeld
  <2>6. app'.holds = app.holds /\ HasRc' = HasRc
    BY <1>1, <2>1 DEF HasRc, AppType
  <2> QED
    BY <2>1, <2>2, <2>3, <2>4, <2>5, <2>6
       DEF Tidy, GoneEmpty, GateHeld, RcHeld, NoneCurrent, BareWithout, Bare, Paired
<1>4. ASSUME NEW p \in app.holds \cup app.old, wglDeleteContext(p) PROVE Tidy'
  <2>1. /\ dll' = mglDeleteContext(dll, p[1]) /\ dev' = DeleteWrites(dll, dev, p[1])
        /\ app' = [app EXCEPT !.holds = @ \ {p}, !.old = @ \ {p},
                              !.cur = IF @ = p THEN NewApp.cur ELSE @]
        /\ p \in app.holds /\ dll.level = 0 /\ app.cur = NewApp.cur
        /\ p[1] = Rc(0) => \A q \in app.holds : q[1][1] # "pb"
    BY <1>4 DEF wglDeleteContext, Happens, Spared, If, Orderly
  <2>2. app'.holds = app.holds \ {p} /\ app'.cur = NewApp.cur
    BY <1>1, <2>1 DEF AppType
  <2>3. dll.currGLRC = NoRc /\ dll.loaded
    BY <2>1 DEF Tidy, NoneCurrent, WrapperOK
  <2>4. p[1] \in Handle
    BY Pairs
  <2>5. CASE p[1] = Rc(0)
    <3>1. Deletes(dll, p[1])
      BY <2>1, <2>3, <2>5 DEF Deletes
    <3>2. dll' = [dll EXCEPT !.currDC = FALSE, !.currPB = {}]
      BY <2>1, <3>1 DEF mglDeleteContext
    <3>3. dll'.loaded /\ dll'.level = 0 /\ dll'.currGLRC = NoRc
      BY <1>1, <2>1, <2>3, <3>2 DEF DllType
    <3>4. ~dev'.mglCntxCurrent /\ Bare'
      BY <1>1, <2>1, <2>4, <3>1, DeleteReaches, DeleteShuts DEF Bare
    <3>5. \A q \in app'.holds : q[1][1] # "pb" /\ (q[1][1] = "rc" => q[1] = Rc(0))
      BY <2>1, <2>2, <2>5 DEF Tidy, RcHeld
    <3> QED
      BY <3>3, <3>4, <3>5 DEF Tidy, GoneEmpty, GateHeld, RcHeld, NoneCurrent, BareWithout
  <2>6. CASE p[1] # Rc(0)
    <3>1. ~Deletes(dll, p[1])
      BY <2>6 DEF Deletes
    <3>2. dll' = dll /\ dev' = dev
      BY <1>1, <2>1, <2>4, <3>1, DeleteReaches DEF mglDeleteContext
    <3>3. p[1][1] # "rc"
      BY <2>1, <2>6 DEF Tidy, RcHeld
    <3>4. HasRc' = HasRc
      BY <2>1, <2>2, <3>3 DEF HasRc
    <3> QED
      BY <2>1, <2>2, <2>3, <3>2, <3>4
         DEF Tidy, GoneEmpty, GateHeld, RcHeld, NoneCurrent, BareWithout, Bare
  <2> QED
    BY <2>5, <2>6
<1>5. ASSUME glQueued \/ glNow PROVE Tidy'
  <2>1. app' = app /\ dll' = [dll EXCEPT !.calls = @ \cup {dll.start}] /\ app.cur \in app.holds
    BY <1>5 DEF glQueued, glNow, CanCall
  <2>2. Call \in [made : Id, start : Id \cup {None}]
    BY <1>1, <2>1, Pairs DEF Call, DllType
  <2> DEFINE q == [dev EXCEPT !.queue = @ \cup {Call}]
  <2>3. /\ q \in DevType /\ q.mglContext = dev.mglContext /\ q.mglCntxCurrent = dev.mglCntxCurrent
        /\ q.ctx = dev.ctx /\ q.cur = dev.cur
    BY <1>1, <2>2 DEF DevType
  <2>4. dev' \in {q, processFifo(q), dev}
    BY <1>5 DEF glQueued, glNow
  <2> HIDE DEF q
  <2>5. /\ dev'.mglContext = dev.mglContext /\ dev'.mglCntxCurrent = dev.mglCntxCurrent
        /\ dev'.ctx = dev.ctx /\ dev'.cur = dev.cur
    BY <2>3, <2>4, DrainFacts
  <2>6. dll'.loaded = dll.loaded /\ dll'.level = dll.level /\ dll'.currGLRC = dll.currGLRC
    BY <1>1, <2>1 DEF DllType
  <2>7. HasRc' = HasRc
    BY <2>1 DEF HasRc
  <2> QED
    BY <2>1, <2>5, <2>6, <2>7
       DEF Tidy, GoneEmpty, GateHeld, RcHeld, NoneCurrent, BareWithout, Bare
<1> QED
  BY <1>2, <1>3, <1>4, <1>5

LEMMA TidyPbuffers ==
  ASSUME TInv, Tidy,
         \/ \E id \in NewId, width \in Pb : wglCreatePbufferARB(id, width)
         \/ \E i \in dll.currPB : wglDestroyPbufferARB(i)
  PROVE  Tidy'
<1> USE DEF TInv
<1>1. dll \in DllType /\ dev \in DevType /\ app \in AppType
  BY DEF TypeOK
<1> DEFINE f == processFifo(dev)
<1>f. /\ f \in DevType /\ f.mglContext = dev.mglContext /\ f.mglCntxCurrent = dev.mglCntxCurrent
      /\ f.ctx = dev.ctx /\ f.cur = dev.cur
  BY <1>1, DrainFacts
<1>2. /\ \/ dev' = f
         \/ \E i \in Pb, e \in Id \cup {None} : dev' = [f EXCEPT !.PBRC[i] = e]
      /\ \E S \in SUBSET Pb : dll' = [dll EXCEPT !.currPB = S]
      /\ \/ app' = app
         \/ \E i \in Pb : app' = [app EXCEPT !.holds = {p \in @ : p[1] # PbRc(i)}]
  <2>1. ASSUME NEW id \in NewId, NEW width \in Pb, wglCreatePbufferARB(id, width)
        PROVE  /\ \/ dev' = f
                  \/ \E i \in Pb, e \in Id \cup {None} : dev' = [f EXCEPT !.PBRC[i] = e]
               /\ \E S \in SUBSET Pb : dll' = [dll EXCEPT !.currPB = S]
               /\ app' = app
    <3> DEFINE full == FreePb(dev) = {}
               i == IF full THEN width ELSE PbSlot(dev)
               S == IF full THEN dll.currPB \ {i} ELSE dll.currPB \cup {i}
    <3>1. /\ dev' = IF full THEN f ELSE [f EXCEPT !.PBRC[i] = id]
          /\ dll' = [dll EXCEPT !.currPB = S] /\ app' = app /\ id \in Id
      BY <2>1 DEF wglCreatePbufferARB, NewId
    <3>2. i \in Pb
      <4>1. CASE ~full
        BY <4>1, FirstPb DEF FreePb
      <4> QED
        BY <4>1
    <3>3. S \in SUBSET Pb
      BY <1>1, <3>2 DEF DllType
    <3> HIDE DEF full, i, S, f
    <3> QED
      BY <3>1, <3>2, <3>3
  <2>2. ASSUME NEW i \in dll.currPB, wglDestroyPbufferARB(i)
        PROVE  /\ \E k \in Pb, e \in Id \cup {None} : dev' = [f EXCEPT !.PBRC[k] = e]
               /\ \E S \in SUBSET Pb : dll' = [dll EXCEPT !.currPB = S]
               /\ \E k \in Pb : app' = [app EXCEPT !.holds = {p \in @ : p[1] # PbRc(k)}]
    <3>1. /\ dev' = [f EXCEPT !.PBRC[i] = None]
          /\ dll' = [dll EXCEPT !.currPB = dll.currPB \ {i}]
          /\ app' = [app EXCEPT !.holds = {p \in @ : p[1] # PbRc(i)}]
      BY <2>2 DEF wglDestroyPbufferARB
    <3>2. i \in Pb /\ dll.currPB \ {i} \in SUBSET Pb
      BY <1>1 DEF DllType
    <3> HIDE DEF f
    <3> QED
      BY <3>1, <3>2
  <2> QED
    BY <2>1, <2>2
<1> HIDE DEF f
<1>3. /\ dev'.mglContext = dev.mglContext /\ dev'.mglCntxCurrent = dev.mglCntxCurrent
      /\ dev'.ctx = dev.ctx /\ dev'.cur = dev.cur
  BY <1>f, <1>2 DEF DevType
<1>4. dll'.loaded = dll.loaded /\ dll'.level = dll.level /\ dll'.currGLRC = dll.currGLRC
  BY <1>1, <1>2 DEF DllType
<1>5. /\ app'.cur = app.cur /\ app'.holds \subseteq app.holds
      /\ \A p \in app.holds : p[1][1] = "rc" => p \in app'.holds
  BY <1>1, <1>2, Handles DEF AppType
<1>6. HasRc' = HasRc
  BY <1>5 DEF HasRc
<1> QED
  BY <1>3, <1>4, <1>5, <1>6
     DEF Tidy, GoneEmpty, GateHeld, RcHeld, NoneCurrent, BareWithout, Bare

LEMMA NInvNext == TInv /\ PInv /\ NInv /\ [Next]_vars => NInv'
<1> SUFFICES ASSUME TInv, PInv, NInv, [Next]_vars PROVE NInv'
  OBVIOUS
<1>1. CASE UNCHANGED vars
  BY <1>1 DEF vars, Spared, NInv, Tidy, GoneEmpty, GateHeld, RcHeld, NoneCurrent, BareWithout,
              Bare, HasRc
<1>2. CASE Next
  <2> SUFFICES ASSUME Spared(Orderly)' PROVE Tidy'
    BY DEF NInv
  <2>1. Tidy /\ Agree
    BY <1>2, Remembered DEF NInv, PInv, Spared, Orderly
  <2> QED
    BY <1>2, <2>1, TidyProcess, TidyCreate, TidyUse, TidyPbuffers DEF Next
<1> QED
  BY <1>1, <1>2

LEMMA NInvInit == Init => NInv
<1> SUFFICES ASSUME Init PROVE Tidy
  BY DEF NInv
<1>1. dll.currGLRC = NoRc /\ dll.level = 0 /\ app.holds = {} /\ ~dll.loaded
  BY NewTypes DEF Init
<1>2. ~dev.mglContext /\ ~dev.mglCntxCurrent /\ Bare
  BY DEF Init, NewDev, Bare
<1> QED
  BY <1>1, <1>2 DEF Tidy, GoneEmpty, GateHeld, RcHeld, NoneCurrent, BareWithout

\* A process that deletes its contexts in order, or leaves it to DllMain, leaves
\* the device as it found it, whatever failed to be made meanwhile.
THEOREM NothingIsLeft == Spec => []NothingLeft
<1>1. Init => PInv
  BY DEF Init, PInv, Agree, NewDll, NewDev
<1>2. PInv /\ NInv => NothingLeft
  <2> SUFFICES ASSUME PInv, NInv, ~dll.loaded, Spared(Orderly)
               PROVE  /\ ~dev.mglContext /\ ~dev.mglCntxCurrent /\ Bare
                      /\ dev.PBRC = NoPbuffers
    BY DEF NothingLeft, Orderly, Bare
  <2>1. Tidy /\ Agree
    BY DEF NInv, PInv, Spared, Orderly
  <2> QED
    BY <2>1 DEF Tidy, GoneEmpty, Agree
<1> QED
  BY <1>1, <1>2, TInvInit, TInvNext, PInvNext, NInvInit, NInvNext, PTL DEF Spec

-----------------------------------------------------------------------------
(* The client state is started over on both sides alike *)

Straight == {"again", "temp", "failed", "idle", "busy", "order", "killed"}

\* The starts of the calls the device has carried out or will.
Done(d) == d.calls \cup {c.start : c \in d.queue}

LEMMA DoneDrained ==
  ASSUME NEW d \in DevType
  PROVE  Done(processFifo(d)) = Done(d)
<1>1. CASE Gate(d)
  <2>1. processFifo(d) = [d EXCEPT !.calls = d.calls \cup {c.start : c \in d.queue}, !.queue = {}]
    BY <1>1 DEF processFifo
  <2>2. /\ processFifo(d).calls = d.calls \cup {c.start : c \in d.queue}
        /\ processFifo(d).queue = {}
    BY <2>1 DEF DevType
  <2> QED
    BY <2>2 DEF Done
<1>2. CASE ~Gate(d)
  BY <1>2 DEF processFifo
<1> QED
  BY <1>1, <1>2

LEMMA DoneCreate ==
  ASSUME NEW d \in DevType, NEW dc \in Dc, NEW id \in Id \cup {None}
  PROVE  /\ d.mglContext => Done(WriteCreate(d, dc, id)) = Done(d)
         /\ ~d.mglContext /\ d.queue = {} => Done(WriteCreate(d, dc, id)) = {}
<1> DEFINE p == processFifo(d)
           c == MGLCreateContext(p, dc, id)
           x == [c EXCEPT !.mglContext = dc[1] = "pb" \/ id # None, !.calls = {}]
<1>1. p \in DevType /\ p.queue \subseteq d.queue /\ Done(p) = Done(d)
  BY DrainFacts, DoneDrained
<1> HIDE DEF p
<1>2. c = IF dc[1] = "pb" THEN p ELSE [p EXCEPT !.cur = None, !.ctx = FirstContext(id)]
  BY DEF MGLCreateContext
<1>3. c.calls = p.calls /\ c.queue = p.queue /\ c \in DevType
  <2>1. FirstContext(id) \in [Level -> Id \cup {None}]
    BY DEF FirstContext
  <2> QED
    BY <1>1, <1>2, <2>1 DEF DevType
<1> HIDE DEF c
<1>4. x.calls = {} /\ x.queue = c.queue
  BY <1>3 DEF DevType
<1>5. WriteCreate(d, dc, id) = IF d.mglContext THEN c ELSE x
  BY DEF WriteCreate, c, p
<1> HIDE DEF x
<1> QED
  BY <1>1, <1>3, <1>4, <1>5 DEF Done

LEMMA DoneMakeCurrent ==
  ASSUME NEW d \in DevType, NEW rc \in Handle \cup {NoRc}
  PROVE  Done(WriteMakeCurrent(d, rc)) = Done(d)
<1> DEFINE p == processFifo(d)
           c == MGLMakeCurrent(p, rc)
           x == [c EXCEPT !.mglCntxCurrent = TRUE]
<1>1. p \in DevType /\ Done(p) = Done(d)
  BY DrainFacts, DoneDrained
<1> HIDE DEF p
<1>2. c.calls = p.calls /\ c.queue = p.queue /\ x.calls = c.calls /\ x.queue = c.queue
  BY <1>1 DEF MGLMakeCurrent, DevType
<1>3. WriteMakeCurrent(d, rc) \in {c, x}
  BY DEF WriteMakeCurrent, p
<1> HIDE DEF c, x
<1> QED
  BY <1>1, <1>2, <1>3 DEF Done

LEMMA DoneDelete ==
  ASSUME NEW w \in DllType, NEW d \in DevType, NEW rc \in Handle, Deletes(w, rc)
  PROVE  /\ Done(DeleteWrites(w, d, rc)) = Done(d)
         /\ DeleteWrites(w, d, rc).mglContext => d.mglContext /\ ~d.mglCntxCurrent
<1> DEFINE c == IF w.currPB = {} THEN d ELSE processFifo(d)
           pb == [i \in Pb |-> IF i \in w.currPB THEN None ELSE c.PBRC[i]]
           e == [c EXCEPT !.PBRC = pb]
           f == processFifo(e)
           x == MGLDeleteContext(f)
           y == [x EXCEPT !.mglContext = FALSE, !.mglCntxCurrent = FALSE]
<1>1. /\ c \in DevType /\ c.mglContext = d.mglContext /\ c.mglCntxCurrent = d.mglCntxCurrent
      /\ Done(c) = Done(d)
  BY DrainFacts, DoneDrained
<1>2. DeleteWrites(w, d, rc) = WriteDelete(e)
  BY DEF DeleteWrites
<1> HIDE DEF c
<1>3. pb \in [Pb -> Id \cup {None}]
  BY <1>1 DEF DevType
<1> HIDE DEF pb
<1>4. /\ e \in DevType /\ e.mglContext = d.mglContext /\ e.mglCntxCurrent = d.mglCntxCurrent
      /\ e.calls = c.calls /\ e.queue = c.queue
  BY <1>1, <1>3 DEF DevType
<1>5. WriteDelete(e) = IF Gate(e) THEN y ELSE x
  BY DEF WriteDelete
<1> HIDE DEF e
<1>6. /\ f \in DevType /\ f.mglContext = e.mglContext /\ f.mglCntxCurrent = e.mglCntxCurrent
      /\ Done(f) = Done(e)
  BY <1>4, DrainFacts, DoneDrained
<1> HIDE DEF f
<1>7. /\ x.mglContext = f.mglContext /\ x.calls = f.calls /\ x.queue = f.queue
      /\ ~y.mglContext /\ y.calls = f.calls /\ y.queue = f.queue
  BY <1>6 DEF MGLDeleteContext, DevType
<1> HIDE DEF x, y
<1>8. Done(x) = Done(d) /\ Done(y) = Done(d)
  BY <1>1, <1>4, <1>6, <1>7 DEF Done
<1>9. CASE Gate(e)
  BY <1>2, <1>5, <1>7, <1>8, <1>9
<1>10. CASE ~Gate(e)
  BY <1>2, <1>4, <1>5, <1>6, <1>7, <1>8, <1>10 DEF Gate
<1> QED
  BY <1>9, <1>10

\* Nor does a shared context touch the first one.
LEMMA DoneShared ==
  ASSUME NEW d \in DevType, NEW id \in Id \cup {None}
  PROVE  /\ Done(CreateShared(d, id)) = Done(d)
         /\ 0 \notin Free(d) => CreateShared(d, id).ctx[0] = d.ctx[0]
<1> DEFINE p == processFifo(d)
           pushed == [n \in Level |-> IF n = 0 THEN d.ctx[0]
                                      ELSE IF n = MaxLvl - 1 THEN id ELSE d.ctx[n + 1]]
<1>1. p \in DevType /\ Done(p) = Done(d) /\ p.ctx = d.ctx
  BY DrainFacts, DoneDrained
<1> HIDE DEF p
<1>2. CASE Free(d) # {}
  <2>1. CreateShared(d, id) = [p EXCEPT !.ctx[Slot(d)] = id]
    BY <1>2 DEF CreateShared, p
  <2>2. Slot(d) \in Free(d)
    BY <1>2, FirstSlot
  <2> QED
    BY <1>1, <2>1, <2>2, FirstHandle DEF Done, DevType
<1>3. CASE Free(d) = {}
  <2>1. CreateShared(d, id) = [p EXCEPT !.ctx = pushed]
    BY <1>3 DEF CreateShared, p
  <2> QED
    BY <1>1, <2>1, FirstHandle DEF Done, DevType
<1> QED
  BY <1>2, <1>3

LEMMA DoneAlone ==
  ASSUME NEW d \in DevType, NEW id \in Id, d.queue # {} => Gate(d)
  PROVE  Done(CreateAlone(d, id)) = {} /\ CreateAlone(d, id).queue = {}
<1> DEFINE p == processFifo(d)
           c == [p EXCEPT !.cur = None, !.ctx = FirstContext(id)]
<1>1. p \in DevType
  BY DrainFacts
<1>2. CreateAlone(d, id) = [c EXCEPT !.mglContext = TRUE, !.mglCntxCurrent = FALSE, !.calls = {}]
  BY DEF CreateAlone
<1> HIDE DEF p
<1>3. CreateAlone(d, id).calls = {}
  BY <1>1, <1>2 DEF DevType
<1>4. CreateAlone(d, id).queue = {}
  BY AloneFacts
<1> QED
  BY <1>3, <1>4 DEF Done

Active == app.holds # {} \/ dll.currGLRC # NoRc

Mapped == dev.refs = (IF dll.loaded THEN 1 ELSE 0) /\ (~dll.loaded => ~dev.mglContext)

Drainable == dll.loaded /\ dev.queue # {} => Gate(dev)

ActiveSame == Active => dev.mglContext /\ dev.ctx[0] # None /\ dll.calls = Done(dev)

\* The device will not start over for a context it has: then nothing was done in it.
Unused == dev.mglContext /\ (~Active \/ ~dev.mglCntxCurrent) => Done(dev) = {}

Believed ==
  /\ dll.currGLRC # NoRc => Gate(dev)
  /\ Current => dll.currGLRC # NoRc
  /\ dll.level # 0 => dll.currGLRC # NoRc
  /\ app.holds # {} => dll.currDC

\* Without shared contexts there is one of the window.
OnlyOne ==
  dll.level = 0 =>
    /\ Active => HasRc
    /\ \A p \in app.holds : p[1][1] = "rc" => p[1] = Rc(0)
    /\ \A p, q \in app.holds : p[1][1] = "rc" /\ q[1][1] = "rc" => p = q

Alike ==
  /\ Mapped
  /\ Drainable
  /\ ActiveSame
  /\ Unused
  /\ Believed
  /\ OnlyOne
  /\ NoneCurrent

SInv == Spared(Straight) => Alike

\* For the device nothing has changed, but that it may have carried out calls.
DevSame ==
  /\ dev'.refs = dev.refs
  /\ dev'.mglContext = dev.mglContext /\ dev'.mglCntxCurrent = dev.mglCntxCurrent
  /\ dev'.ctx[0] = dev.ctx[0]
  /\ Done(dev') = Done(dev) /\ dev'.queue \subseteq dev.queue

LEMMA AlikeEmpty ==
  ASSUME app'.holds = {}, dll'.currGLRC = NoRc, dll'.level = 0, Mapped', Drainable',
         dev'.mglContext => Done(dev') = {}
  PROVE  Alike'
<1>1. ~Current' /\ ~Active'
  BY DEF Current, Active
<1> QED
  BY <1>1 DEF Alike, ActiveSame, Unused, Believed, OnlyOne, NoneCurrent

LEMMA AlikeSame ==
  ASSUME Alike, DevSame,
         dll'.loaded = dll.loaded, dll'.level = dll.level, dll'.calls = dll.calls,
         dll'.currDC = dll.currDC,
         dll'.currGLRC # NoRc => dll.currGLRC # NoRc,
         dll.level # 0 => dll'.currGLRC # NoRc,
         app'.holds \subseteq app.holds,
         dll.level = 0 => \A p \in app.holds : p[1][1] = "rc" => p \in app'.holds,
         Current' => dll'.currGLRC # NoRc, NoneCurrent'
  PROVE  Alike'
<1>1. dll.level = 0 /\ Active => HasRc'
  BY DEF Alike, OnlyOne, HasRc
<1>2. HasRc' => app'.holds # {}
  BY DEF HasRc
<1>3. Active' <=> Active
  BY <1>1, <1>2 DEF Active
<1>4. Gate(dev') <=> Gate(dev)
  BY DEF DevSame, Gate
<1>5. Mapped' /\ Drainable' /\ ActiveSame' /\ Unused'
  BY <1>3, <1>4 DEF Alike, DevSame, Mapped, Drainable, ActiveSame, Unused
<1>6. Believed'
  BY <1>4 DEF Alike, Believed
<1>7. OnlyOne'
  BY <1>1, <1>3 DEF Alike, OnlyOne
<1> QED
  BY <1>5, <1>6, <1>7 DEF Alike

LEMMA DrainSame ==
  ASSUME NEW d \in DevType, dev' = processFifo(d)
  PROVE  /\ dev'.refs = d.refs /\ dev'.mglContext = d.mglContext
         /\ dev'.mglCntxCurrent = d.mglCntxCurrent /\ dev'.ctx = d.ctx
         /\ Done(dev') = Done(d) /\ dev'.queue \subseteq d.queue
BY DrainFacts, DoneDrained

LEMMA UnsetShared ==
  ASSUME NEW w \in DllType, NEW d \in DevType, HasDc(w), w.currGLRC # NoRc, w.level # 0
  PROVE  /\ Unset(w) = [w EXCEPT !.currGLRC = Rc(0)]
         /\ UnsetWrites(w, d) = WriteMakeCurrent(d, NoRc)
<1> DEFINE n == NotCurrent(w)
           m == MakeCurrentWrites(w, d, NoDC, NoRc, None)
<1>1. w.currDC
  BY DEF HasDc
<1>2. n = [w EXCEPT !.currGLRC = Rc(0)]
  BY <1>1, WrapperMakesCurrent DEF NotCurrent, Dc
<1>3. m = WriteMakeCurrent(d, NoRc)
  BY <1>1, MakeCurrentReaches DEF Dc
<1>4. Unset(w) = mglDeleteContext(n, Rc(0)) /\ UnsetWrites(w, d) = DeleteWrites(n, m, Rc(0))
  BY DEF Unset, UnsetWrites
<1>5. n.level = w.level
  BY <1>2 DEF DllType
<1> HIDE DEF n, m
<1> QED
  BY <1>2, <1>3, <1>4, <1>5 DEF mglDeleteContext, DeleteWrites, Deletes

LEMMA AlikeProcess ==
  ASSUME TInv, Alike, Spared(Straight)',
         \/ \E same \in BOOLEAN : Attach(same)
         \/ Detach
         \/ Killed
         \/ wglSetPixelFormat
  PROVE  Alike'
<1> USE DEF TInv
<1>1. dll \in DllType /\ dev \in DevType /\ app \in AppType /\ HasDc(dll)
  BY DEF TypeOK, WrapperOK
<1>2. ASSUME NEW same \in BOOLEAN, Attach(same) PROVE Alike'
  <2>1. /\ ~dll.loaded /\ dll' = [NewDll EXCEPT !.loaded = TRUE] /\ app' = NewApp
        /\ dev.refs = 0 => dev' = [dev EXCEPT !.refs = 1, !.queue = {}]
    BY <1>2 DEF Attach
  <2>2. dev.refs = 0 /\ ~dev.mglContext
    BY <2>1 DEF Alike, Mapped
  <2>3. dev'.refs = 1 /\ dev'.queue = {} /\ ~dev'.mglContext
    BY <1>1, <2>1, <2>2 DEF DevType
  <2>4. dll'.loaded /\ dll'.currGLRC = NoRc /\ dll'.level = 0 /\ app'.holds = {}
    BY <2>1, NewTypes DEF DllType
  <2> QED
    BY <2>3, <2>4, AlikeEmpty DEF Mapped, Drainable
<1>3. CASE Detach
  <2> DEFINE u == UnsetWrites(dll, dev)
  <2>1. /\ dll.loaded /\ dll' = NewDll /\ app' = NewApp
        /\ dev.refs = 1 => dev' = [WriteUnload(u) EXCEPT !.refs = 0]
    BY <1>3 DEF Detach
  <2>2. u \in DevType
    BY <1>1, UnsetFacts
  <2> HIDE DEF u
  <2>3. WriteUnload(u) \in DevType /\ ~WriteUnload(u).mglContext
    BY <2>2, UnloadFacts, UnloadClears
  <2>4. dev'.refs = 0 /\ ~dev'.mglContext
    BY <2>1, <2>3 DEF Alike, Mapped, DevType
  <2>5. ~dll'.loaded /\ dll'.currGLRC = NoRc /\ dll'.level = 0 /\ app'.holds = {}
    BY <2>1, NewTypes
  <2> QED
    BY <2>4, <2>5, AlikeEmpty DEF Mapped, Drainable
<1>4. CASE Killed
  BY <1>4 DEF Killed, Happens, Spared, Straight
<1>5. CASE wglSetPixelFormat
  <2>1. /\ dll' = [Unset(dll) EXCEPT !.currPixFmt = TRUE] /\ dev' = processFifo(UnsetWrites(dll, dev))
        /\ app' = app /\ dll.loaded /\ app.holds = {}
    BY <1>5 DEF wglSetPixelFormat, Happens, Spared, If, Straight
  <2>2. ~Current' /\ app'.holds = app.holds /\ app'.cur = app.cur
    BY <2>1 DEF Current
  <2>3. CASE dll.currGLRC = NoRc
    <3>1. dll' = [dll EXCEPT !.currPixFmt = TRUE] /\ dev' = processFifo(dev)
      BY <1>1, <2>1, <2>3, UnsetFacts
    <3>2. DevSame
      BY <1>1, <3>1, DrainSame DEF DevSame
    <3>3. /\ dll'.loaded = dll.loaded /\ dll'.level = dll.level /\ dll'.calls = dll.calls
          /\ dll'.currDC = dll.currDC /\ dll'.currGLRC = NoRc
      BY <1>1, <2>3, <3>1 DEF DllType
    <3> QED
      BY <2>1, <2>2, <2>3, <3>2, <3>3, AlikeSame DEF Alike, Believed, NoneCurrent
  <2>4. CASE dll.currGLRC # NoRc
    <3>1. dll.level # 0
      BY <2>1, <2>4 DEF Alike, OnlyOne, Active, HasRc
    <3> DEFINE m == WriteMakeCurrent(dev, NoRc)
               v == [dll EXCEPT !.currGLRC = Rc(0)]
    <3>2. dll' = [v EXCEPT !.currPixFmt = TRUE] /\ dev' = processFifo(m)
      BY <1>1, <2>1, <2>4, <3>1, UnsetShared
    <3>3. Paired(dev)
      BY <2>4 DEF Alike, Believed, Gate, Paired
    <3>4. /\ m \in DevType /\ m.refs = dev.refs /\ m.mglContext = dev.mglContext
          /\ m.mglCntxCurrent = dev.mglCntxCurrent /\ m.ctx = dev.ctx
          /\ Done(m) = Done(dev) /\ m.queue \subseteq dev.queue
      BY <1>1, <3>3, MakeCurrentFacts, MakeCurrentPairs, DoneMakeCurrent
    <3> HIDE DEF m
    <3>5. DevSame
      BY <3>2, <3>4, DrainSame DEF DevSame
    <3>6. Rc(0) \in Handle /\ Rc(0) # NoRc
      BY FirstHandle, Handles
    <3>7. /\ dll'.loaded = dll.loaded /\ dll'.level = dll.level /\ dll'.calls = dll.calls
          /\ dll'.currDC = dll.currDC /\ dll'.currGLRC # NoRc
      BY <1>1, <3>2, <3>6 DEF DllType
    <3> QED
      BY <2>1, <2>2, <2>4, <3>1, <3>5, <3>7, AlikeSame DEF NoneCurrent
  <2> QED
    BY <2>3, <2>4
<1> QED
  BY <1>2, <1>3, <1>4, <1>5

LEMMA AlikeCreate ==
  ASSUME TInv, Alike, Spared(Straight)', NEW id \in NewId,
         \/ \E ok \in BOOLEAN : wglCreateContext(id, ok)
         \/ \E i \in dll.currPB : wglCreateContextPb(i, id)
         \/ \E ok \in BOOLEAN : AttribsAlone(id, ok)
         \/ \E ok \in BOOLEAN, p \in app.holds : AttribsShared(p, id, ok)
  PROVE  Alike'
<1> USE DEF TInv
<1>1. /\ dll \in DllType /\ dev \in DevType /\ app \in AppType /\ HasDc(dll) /\ id \in Id
      /\ app.cur[2] # id /\ id # None /\ Window \in Dc
  BY DEF TypeOK, WrapperOK, NewId, InUse, Dc
<1>g. dll.currGLRC # NoRc => Gate(dev) /\ dev.mglContext
  BY DEF Alike, Believed, Gate
\* A first context: both sides start over.
<1>2. ASSUME app'.holds = {<<Rc(0), id>>}, app'.cur = app.cur,
             dll'.loaded = dll.loaded, dll.loaded, dll'.level = 0, dll'.currGLRC = NoRc, dll'.currDC,
             dll'.calls = {}, dev'.refs = dev.refs, dev'.mglContext, dev'.ctx[0] = id,
             Done(dev') = {}, dev'.queue = {}
      PROVE  Alike'
  <2>1. ~Current'
    BY <1>1, <1>2 DEF Current
  <2>2. <<Rc(0), id>>[1] = Rc(0) /\ Rc(0)[1] = "rc"
    BY Handles
  <2>3. HasRc'
    BY <1>2, <2>2 DEF HasRc
  <2>4. OnlyOne'
    BY <1>2, <2>2, <2>3 DEF OnlyOne
  <2>5. Mapped'
    BY <1>2 DEF Alike, Mapped
  <2> QED
    BY <1>1, <1>2, <2>1, <2>4, <2>5
       DEF Alike, Drainable, ActiveSame, Unused, Believed, NoneCurrent
<1>3. ASSUME NEW ok \in BOOLEAN, wglCreateContext(id, ok) PROVE Alike'
  <2>1. /\ dll.currPixFmt /\ dll.loaded /\ dll' = mglCreateContext(dll, Window, id)
        /\ dev' = WriteCreate(dev, Window, id) /\ app' = Holding(Returned(dll, Window), id)
        /\ app.holds = {}
    BY <1>3 DEF wglCreateContext, Happens, Spared, If, Straight, WrapperOK
  <2>2. /\ dev'.refs = dev.refs /\ dev'.mglContext /\ dev'.mglCntxCurrent = dev.mglCntxCurrent
        /\ dev'.ctx = FirstContext(id) /\ dev'.queue \subseteq dev.queue
        /\ Gate(dev) => dev'.queue = {}
        /\ dev.mglContext => Done(dev') = Done(dev)
        /\ ~dev.mglContext /\ dev.queue = {} => Done(dev') = {}
    BY <1>1, <2>1, CreateFacts, DoneCreate, Handles
  <2>3. dev'.ctx[0] = id
    BY <2>2, FirstHandle DEF FirstContext
  <2>4. dev'.queue = {}
    BY <2>1, <2>2 DEF Alike, Drainable
  <2>5. CASE dll.currGLRC = NoRc
    <3>1. ~Active /\ dll.level = 0
      BY <2>1, <2>5 DEF Active, Alike, Believed
    <3>2. Done(dev') = {}
      <4>1. CASE dev.mglContext
        BY <2>2, <3>1, <4>1 DEF Alike, Unused
      <4>2. CASE ~dev.mglContext
        BY <2>1, <2>2, <4>2 DEF Alike, Drainable, Gate
      <4> QED
        BY <4>1, <4>2
    <3>3. dll' = [dll EXCEPT !.start = id, !.calls = {}, !.currDC = TRUE]
      <4>1. dll' = IF dll.currPixFmt /\ dll.currGLRC = NoRc
                   THEN [dll EXCEPT !.start = id, !.calls = {}, !.currDC = Window # NoDC] ELSE dll
        <5>1. id \in Id \cup {None}
          BY <1>1
        <5> QED
          BY <1>1, <2>1, <5>1, WrapperCreates
      <4>2. (Window # NoDC) = TRUE
        BY Handles
      <4> QED
        BY <2>1, <2>5, <4>1, <4>2
    <3>4. /\ dll'.loaded = dll.loaded /\ dll'.level = 0 /\ dll'.currGLRC = NoRc /\ dll'.currDC
          /\ dll'.calls = {}
      BY <1>1, <2>5, <3>1, <3>3 DEF DllType
    <3>5. app' = Holding(Rc(0), id)
      BY <2>1, <2>5 DEF Returned
    <3>6. app'.holds = {<<Rc(0), id>>} /\ app'.cur = app.cur
      BY <1>1, <2>1, <3>5, HoldsRc, FirstHandle
    <3> QED
      BY <1>2, <2>1, <2>2, <2>3, <2>4, <3>2, <3>4, <3>6
  <2>6. CASE dll.currGLRC # NoRc
    <3>1. dll' = dll
      BY <1>1, <2>1, <2>6, WrapperCreates
    <3>2. app' = app
      BY <2>1, <2>6, Handles DEF Returned, Holding
    <3>3. Done(dev') = Done(dev) /\ Gate(dev')
      BY <1>g, <2>2, <2>6 DEF Gate
    <3>4. Active /\ Active'
      BY <2>6, <3>1 DEF Active
    <3>5. Mapped' /\ Drainable' /\ ActiveSame' /\ Unused'
      BY <1>1, <2>2, <2>3, <3>1, <3>3, <3>4
         DEF Alike, Mapped, Drainable, ActiveSame, Unused, Gate
    <3>6. Believed' /\ OnlyOne' /\ NoneCurrent'
      BY <3>1, <3>2, <3>3, <3>4 DEF Alike, Believed, OnlyOne, NoneCurrent, Current, HasRc
    <3> QED
      BY <3>5, <3>6 DEF Alike
  <2> QED
    BY <2>5, <2>6
<1>h. ASSUME NEW rc \in Handle, NEW made \in Id, app' = Holding(rc, made), DevSame,
             dll.currGLRC # NoRc, dll'.loaded = dll.loaded, dll'.calls = dll.calls,
             dll'.currDC = dll.currDC, dll'.currGLRC = dll.currGLRC,
             dll'.level # 0 \/ (rc[1] # "rc" /\ dll'.level = dll.level)
      PROVE  Alike'
  <2>1. rc # NoRc
    BY <1>h, Handles DEF Handle
  <2>2. app'.holds = app.holds \cup {<<rc, made>>} /\ app'.cur = app.cur
    BY <1>1, <1>h, <2>1, HoldingTypes
  <2>3. Active /\ Active'
    BY <1>h DEF Active
  <2>4. Gate(dev') /\ Gate(dev)
    BY <1>g, <1>h DEF DevSame, Gate
  <2>5. Mapped' /\ Drainable' /\ ActiveSame' /\ Unused'
    BY <1>h, <2>3, <2>4 DEF Alike, Mapped, Drainable, ActiveSame, Unused, DevSame, Gate
  <2>6. Believed'
    BY <1>1, <1>h, <2>4 DEF Believed, HasDc
  <2>8. NoneCurrent'
    BY <1>h, <2>2 DEF Alike, NoneCurrent
  <2>7. OnlyOne'
    <3>1. CASE dll'.level # 0
      BY <3>1 DEF OnlyOne
    <3>2. CASE rc[1] # "rc" /\ dll'.level = dll.level
      <4>1. \A p \in app'.holds : p[1][1] = "rc" => p \in app.holds
        BY <2>2, <3>2
      <4>2. HasRc => HasRc'
        BY <2>2 DEF HasRc
      <4> QED
        BY <2>3, <3>2, <4>1, <4>2 DEF Alike, OnlyOne
    <3> QED
      BY <1>h, <3>1, <3>2
  <2> QED
    BY <2>5, <2>6, <2>7, <2>8 DEF Alike
<1>4. ASSUME NEW i \in dll.currPB, wglCreateContextPb(i, id) PROVE Alike'
  <2>1. /\ dll.currPixFmt /\ dll' = mglCreateContext(dll, PbRc(i), id)
        /\ dev' = WriteCreate(dev, PbRc(i), None)
        /\ app' = Holding(Returned(dll, PbRc(i)), dev.PBRC[i]) /\ dll.currGLRC # NoRc
    BY <1>4 DEF wglCreateContextPb, Happens, Spared, If, Straight
  <2>2. /\ i \in Pb /\ dev.PBRC[i] \in Id /\ PbRc(i) \in Dc /\ PbRc(i) \in Handle
        /\ PbRc(i)[1] = "pb" /\ PbRc(i) # Window
    BY <1>1, Handles DEF WrapperOK, DevType, DllType, Dc, Handle
  <2>3. dll' = dll
    BY <1>1, <2>1, <2>2, WrapperCreates
  <2>4. app' = Holding(PbRc(i), dev.PBRC[i])
    BY <2>1, <2>2 DEF Returned
  <2>5. DevSame
    <3>1. /\ dev'.refs = dev.refs /\ dev'.mglContext /\ dev'.mglCntxCurrent = dev.mglCntxCurrent
          /\ dev'.ctx = dev.ctx /\ dev'.queue \subseteq dev.queue
      <4> DEFINE e == WriteCreate(dev, PbRc(i), None)
      <4>1. /\ e.refs = dev.refs /\ (dev.mglContext => e.mglContext)
            /\ e.mglCntxCurrent = dev.mglCntxCurrent
            /\ e.ctx = (IF PbRc(i)[1] = "pb" THEN dev.ctx ELSE FirstContext(None))
            /\ e.queue \subseteq dev.queue
        BY <1>1, <2>2, CreateFacts
      <4> HIDE DEF e
      <4>2. dev' = e
        BY <2>1 DEF e
      <4> QED
        BY <1>g, <2>1, <2>2, <4>1, <4>2
    <3>2. Done(dev') = Done(dev)
      BY <1>1, <1>g, <2>1, <2>2, DoneCreate
    <3> QED
      BY <1>g, <2>1, <3>1, <3>2 DEF DevSame
  <2> QED
    BY <1>h, <2>1, <2>2, <2>3, <2>4, <2>5
<1>5. ASSUME NEW ok \in BOOLEAN, AttribsAlone(id, ok) PROVE Alike'
  <2>1. /\ ok /\ dll.loaded /\ dev' = CreateAlone(dev, id)
        /\ dll' = [InitClientStates(dll, id) EXCEPT !.currDC = TRUE, !.currGLRC = NoRc, !.level = 0]
        /\ app' = [app EXCEPT !.holds = {<<Rc(0), id>>}, !.old = app.holds]
    BY <1>5 DEF AttribsAlone, WriteCreateAttribs, Happens, Spared, If, Straight, WrapperOK
  <2>2. dll' = [dll EXCEPT !.start = id, !.calls = {}, !.currDC = TRUE, !.currGLRC = NoRc, !.level = 0]
    BY <1>1, <2>1 DEF InitClientStates, DllType
  <2>3. /\ dll'.loaded = dll.loaded /\ dll'.level = 0 /\ dll'.currGLRC = NoRc /\ dll'.currDC
        /\ dll'.calls = {}
    BY <1>1, <2>2 DEF DllType
  <2>4. app'.holds = {<<Rc(0), id>>} /\ app'.cur = app.cur
    BY <1>1, <2>1 DEF AppType
  <2>5. /\ dev'.refs = dev.refs /\ dev'.mglContext /\ dev'.ctx = FirstContext(id)
    BY <1>1, <2>1, AloneFacts
  <2>6. Done(dev') = {} /\ dev'.queue = {}
    BY <1>1, <2>1, DoneAlone DEF Alike, Drainable
  <2>7. dev'.ctx[0] = id
    BY <2>5, FirstHandle DEF FirstContext
  <2> QED
    BY <1>2, <2>1, <2>3, <2>4, <2>5, <2>6, <2>7
<1>6. ASSUME NEW ok \in BOOLEAN, NEW p \in app.holds, AttribsShared(p, id, ok) PROVE Alike'
  <2>1. /\ dll.currGLRC # NoRc /\ dev' = WriteCreateAttribs(dev, TRUE, id)
        /\ dll' = [dll EXCEPT !.level = NextLevel(dll.level)]
        /\ app' = Holding(Rc(NextLevel(dll.level)), id)
    BY <1>6 DEF AttribsShared, Happens, Spared, If, Straight
  <2>2. dll.level \in Level /\ NextLevel(dll.level) \in Level /\ NextLevel(dll.level) # 0
    BY <1>1, Levels DEF DllType
  <2>3. 0 \notin Free(dev)
    BY <2>1 DEF Alike, ActiveSame, Active, Free
  <2>4. dev' = CreateShared(dev, id)
    BY <2>1, <2>3 DEF WriteCreateAttribs
  <2>5. DevSame
    BY <1>1, <2>3, <2>4, SharedFacts, DoneShared DEF DevSame
  <2>6. /\ dll'.loaded = dll.loaded /\ dll'.level # 0 /\ dll'.calls = dll.calls
        /\ dll'.currDC = dll.currDC /\ dll'.currGLRC = dll.currGLRC
    BY <1>1, <2>1, <2>2 DEF DllType
  <2>7. Rc(NextLevel(dll.level)) \in Handle
    BY <2>2 DEF Handle
  <2> QED
    BY <1>1, <1>h, <2>1, <2>5, <2>6, <2>7
<1> QED
  BY <1>3, <1>4, <1>5, <1>6

LEMMA AlikeUse ==
  ASSUME TInv, Alike, Spared(Straight)',
         \/ \E id \in NewId, p \in app.holds \cup app.old : wglMakeCurrent(p, id)
         \/ \E id \in NewId : wglMakeCurrentNone(id)
         \/ \E p \in app.holds \cup app.old : wglDeleteContext(p)
         \/ glQueued
         \/ glNow
  PROVE  Alike'
<1> USE DEF TInv
<1>1. /\ dll \in DllType /\ dev \in DevType /\ app \in AppType /\ HasDc(dll)
      /\ NewId \subseteq Id /\ NoRc \in Handle \cup {NoRc} /\ NoDC \in Dc
  BY DEF TypeOK, WrapperOK, NewId, Dc
<1>2. ASSUME NEW id \in NewId, NEW p \in app.holds \cup app.old, wglMakeCurrent(p, id) PROVE Alike'
  <2> DEFINE m == WriteMakeCurrent(dev, p[1])
             rc == IF dll.level # 0 THEN Rc(0) ELSE p[1]
  <2>1. /\ dll' = mglMakeCurrent(dll, DcOf(p[1]), p[1], id)
        /\ dev' = MakeCurrentWrites(dll, dev, DcOf(p[1]), p[1], id) /\ p \in app.holds
        /\ app' = IF MakeFails(dll, DcOf(p[1])) THEN app ELSE [app EXCEPT !.cur = p]
    BY <1>2 DEF wglMakeCurrent, Happens, Spared, If, Straight
  <2>2. p[1] \in Handle /\ DcOf(p[1]) \in Dc /\ p[1] # NoRc /\ p \in Handle \X Id /\ p[2] \in Id
    BY Pairs
  <2>3. dll.currDC /\ dll.loaded /\ Active
    BY <2>1 DEF Alike, Believed, Active, WrapperOK
  <2>4. dll' = [dll EXCEPT !.currGLRC = rc] /\ rc \in Handle /\ rc # NoRc
    <3>1. rc \in Handle /\ rc # NoRc
      BY <2>2, FirstHandle, Handles
    <3>2. DcOf(p[1]) \in Dc /\ p[1] \in Handle \cup {NoRc} /\ id \in Id \cup {None}
      BY <1>1, <2>2
    <3>3. mglMakeCurrent(dll, DcOf(p[1]), p[1], id) = [dll EXCEPT !.currGLRC = rc]
      BY <1>1, <2>3, <3>2, WrapperMakesCurrent
    <3> HIDE DEF rc
    <3> QED
      BY <2>1, <3>1, <3>3
  <2> HIDE DEF rc
  <2>5. /\ dll'.loaded = dll.loaded /\ dll'.level = dll.level /\ dll'.calls = dll.calls
        /\ dll'.currDC = dll.currDC /\ dll'.currGLRC # NoRc
    BY <1>1, <2>4 DEF DllType
  <2>6. dev' = m
    BY <2>1, <2>3 DEF MakeCurrentWrites
  <2>7. dev.mglContext /\ (dev.queue # {} => Gate(dev))
    BY <2>3 DEF Alike, ActiveSame, Drainable
  <2>8. /\ m.refs = dev.refs /\ m.mglContext = dev.mglContext /\ m.mglCntxCurrent
        /\ m.ctx = dev.ctx /\ m.queue = {}
    <3>1. p[1] \in Handle \cup {NoRc}
      BY <2>2
    <3>2. /\ m.refs = dev.refs /\ m.mglContext = dev.mglContext
          /\ dev.mglContext /\ p[1] # NoRc => m.mglCntxCurrent
          /\ m.ctx = dev.ctx /\ m.queue \subseteq dev.queue /\ (Gate(dev) => m.queue = {})
      BY <1>1, <3>1, MakeCurrentFacts
    <3> HIDE DEF m
    <3> QED
      BY <2>2, <2>7, <3>2
  <2>d. Done(m) = Done(dev)
    BY <1>1, <2>2, DoneMakeCurrent
  <2> HIDE DEF m
  <2>9. app'.holds = app.holds /\ app'.cur = p
    <3>1. ~MakeFails(dll, DcOf(p[1]))
      BY <2>3 DEF MakeFails
    <3> QED
      BY <1>1, <2>1, <2>2, <3>1 DEF AppType
  <2>10. Active' /\ Gate(dev')
    BY <2>5, <2>6, <2>7, <2>8 DEF Active, Gate
  <2>11. app'.cur # NewApp.cur
    BY <2>2, <2>9, NewTypes
  <2>12. Mapped' /\ Drainable' /\ ActiveSame' /\ Unused'
    BY <2>3, <2>5, <2>6, <2>8, <2>d, <2>10
       DEF Alike, Mapped, Drainable, ActiveSame, Unused, Gate
  <2>13. Believed' /\ NoneCurrent'
    BY <2>3, <2>5, <2>10, <2>11 DEF Believed, NoneCurrent
  <2>14. OnlyOne'
    BY <2>3, <2>5, <2>9 DEF Alike, OnlyOne, HasRc
  <2> QED
    BY <2>12, <2>13, <2>14 DEF Alike
<1>3. ASSUME NEW id \in NewId, wglMakeCurrentNone(id) PROVE Alike'
  <2>1. /\ dll' = mglMakeCurrent(dll, NoDC, NoRc, id)
        /\ dev' = MakeCurrentWrites(dll, dev, NoDC, NoRc, id)
        /\ app' = [app EXCEPT !.cur = NewApp.cur] /\ dll.loaded
    BY <1>3 DEF wglMakeCurrentNone
  <2>2. app'.holds = app.holds /\ app'.cur = NewApp.cur
    BY <1>1, <2>1 DEF AppType
  <2>3. ~Current'
    BY <2>2, CurTypes DEF Current
  <2>4. CASE dll.currDC
    <3> DEFINE m == WriteMakeCurrent(dev, NoRc)
               rc == IF dll.level # 0 THEN Rc(0) ELSE NoRc
    <3>1. dll' = [dll EXCEPT !.currGLRC = rc]
      BY <1>1, <1>3, <2>1, <2>4, WrapperMakesCurrent
    <3>2. dll.level # 0 => rc # NoRc
      BY Handles
    <3>3. dll.level = 0 => rc = NoRc
      OBVIOUS
    <3> HIDE DEF rc
    <3>4. /\ dll'.loaded = dll.loaded /\ dll'.level = dll.level /\ dll'.calls = dll.calls
          /\ dll'.currDC = dll.currDC /\ dll'.currGLRC = rc
      BY <1>1, <3>1 DEF DllType
    <3>5. dev' = m
      BY <2>1, <2>4 DEF MakeCurrentWrites
    <3>6. /\ m.refs = dev.refs /\ m.mglContext = dev.mglContext /\ m.ctx = dev.ctx
          /\ m.queue \subseteq dev.queue /\ Done(m) = Done(dev)
      BY <1>1, MakeCurrentFacts, DoneMakeCurrent
    <3>7. m.mglCntxCurrent = dev.mglCntxCurrent
      <4> DEFINE c == MGLMakeCurrent(processFifo(dev), NoRc)
      <4>1. c.mglCntxCurrent = dev.mglCntxCurrent
        BY <1>1, DrainFacts DEF MGLMakeCurrent, DevType
      <4> HIDE DEF c
      <4>2. m = c
        BY DEF WriteMakeCurrent, c
      <4> QED
        BY <4>1, <4>2
    <3> HIDE DEF m
    <3>8. DevSame
      BY <3>5, <3>6, <3>7 DEF DevSame
    <3>9. NoneCurrent' /\ (dll'.currGLRC # NoRc => dll.currGLRC # NoRc)
          /\ (dll.level # 0 => dll'.currGLRC # NoRc)
      BY <3>2, <3>3, <3>4 DEF NoneCurrent, Alike, Believed
    <3> QED
      BY <2>2, <2>3, <3>4, <3>8, <3>9, AlikeSame
  <2>5. CASE ~dll.currDC
    <3>1. dll.currGLRC = NoRc /\ dll.level = 0 /\ app.holds = {} /\ ~Active
      BY <2>5 DEF HasDc, WrapperOK, Alike, Believed, Active
    <3>2. CASE dll.currPixFmt
      <4> DEFINE c == WriteCreate(dev, NoDC, id)
      <4>1. /\ c \in DevType /\ c.refs = dev.refs /\ c.queue \subseteq dev.queue
            /\ Gate(dev) => c.queue = {}
            /\ dev.mglContext => Done(c) = Done(dev)
            /\ ~dev.mglContext /\ dev.queue = {} => Done(c) = {}
        BY <1>1, <1>3, CreateFacts, DoneCreate
      <4> HIDE DEF c
      <4>2. c.queue = {} /\ Done(c) = {}
        BY <2>1, <3>1, <4>1 DEF Alike, Drainable, Unused, Gate
      <4>3. /\ WriteMakeCurrent(c, NoRc).refs = c.refs
            /\ WriteMakeCurrent(c, NoRc).queue \subseteq c.queue
            /\ Done(WriteMakeCurrent(c, NoRc)) = Done(c)
        BY <4>1, MakeCurrentFacts, DoneMakeCurrent
      <4>4. dev' \in {c, WriteMakeCurrent(c, NoRc)}
        BY <2>1, <2>5, <3>2 DEF MakeCurrentWrites, c
      <4>5. dev'.refs = dev.refs /\ dev'.queue = {} /\ Done(dev') = {}
        BY <4>1, <4>2, <4>3, <4>4
      <4>6. dll'.currGLRC = NoRc /\ dll'.level = 0 /\ dll'.loaded = dll.loaded
        <5> DEFINE r == mglMakeCurrent(dll, NoDC, NoRc, id)
        <5>1. id \in Id \cup {None}
          BY <1>1
        <5>2. /\ r.level = dll.level /\ r.loaded = dll.loaded
              /\ ~dll.currDC /\ dll.currPixFmt => r.currGLRC = NoRc
          BY <1>1, <5>1, WrapperMakesCurrent
        <5> HIDE DEF r
        <5>3. dll' = r
          BY <2>1 DEF r
        <5> QED
          BY <2>5, <3>1, <3>2, <5>2, <5>3
      <4>7. Mapped' /\ Drainable'
        BY <2>1, <4>5, <4>6 DEF Alike, Mapped, Drainable
      <4> QED
        BY <2>2, <3>1, <4>5, <4>6, <4>7, AlikeEmpty
    <3>3. CASE ~dll.currPixFmt
      <4>1. dll' = dll
        BY <1>1, <1>3, <2>1, <2>5, <3>3, WrapperMakesCurrent
      <4>2. dev' = dev
        BY <2>1, <2>5, <3>3 DEF MakeCurrentWrites
      <4>3. Mapped' /\ Drainable' /\ (dev'.mglContext => Done(dev') = {})
        BY <3>1, <4>1, <4>2 DEF Alike, Mapped, Drainable, Unused, Gate
      <4> QED
        BY <2>2, <3>1, <4>1, <4>3, AlikeEmpty
    <3> QED
      BY <3>2, <3>3
  <2> QED
    BY <2>4, <2>5
<1>4. ASSUME NEW p \in app.holds \cup app.old, wglDeleteContext(p) PROVE Alike'
  <2>1. /\ dll' = mglDeleteContext(dll, p[1]) /\ dev' = DeleteWrites(dll, dev, p[1])
        /\ app' = [app EXCEPT !.holds = @ \ {p}, !.old = @ \ {p},
                              !.cur = IF @ = p THEN NewApp.cur ELSE @]
        /\ p \in app.holds /\ app.cur = NewApp.cur
        /\ p[1] = Rc(0) => \A q \in app.holds : q[1][1] # "pb"
    BY <1>4 DEF wglDeleteContext, Happens, Spared, If, Straight
  <2>2. app'.holds = app.holds \ {p} /\ app'.cur = NewApp.cur
    BY <1>1, <2>1 DEF AppType
  <2>3. p[1] \in Handle /\ dll.loaded
    BY <2>1, Pairs DEF WrapperOK
  <2>4. dll.level = 0 => dll.currGLRC = NoRc
    BY <2>1 DEF Alike, NoneCurrent
  <2>5. CASE Deletes(dll, p[1])
    <3>1. dll.level = 0 /\ dll.currGLRC = NoRc /\ p[1] = Rc(0) /\ p[1][1] = "rc"
      BY <2>5, Handles DEF Deletes
    <3>2. app'.holds = {}
      <4> SUFFICES ASSUME NEW q \in app.holds PROVE q = p
        BY <2>2
      <4>1. q[1] \in Handle
        BY Pairs
      <4>2. q[1][1] = "rc"
        BY <2>1, <3>1, <4>1, Handles DEF Handle
      <4> QED
        BY <2>1, <3>1, <4>2 DEF Alike, OnlyOne
    <3>3. dll' = [dll EXCEPT !.currDC = FALSE, !.currPB = {}]
      BY <2>1, <2>5 DEF mglDeleteContext
    <3>4. dll'.loaded = dll.loaded /\ dll'.level = 0 /\ dll'.currGLRC = NoRc
      BY <1>1, <3>1, <3>3 DEF DllType
    <3>5. /\ dev'.refs = dev.refs /\ dev'.queue \subseteq dev.queue /\ (Gate(dev) => dev'.queue = {})
          /\ Done(dev') = Done(dev)
          /\ dev'.mglContext => dev.mglContext /\ ~dev.mglCntxCurrent
      BY <1>1, <2>1, <2>3, <2>5, DeleteReaches, DoneDelete
    <3>6. Mapped' /\ Drainable' /\ (dev'.mglContext => Done(dev') = {})
      BY <2>3, <3>4, <3>5 DEF Alike, Mapped, Drainable, Unused
    <3> QED
      BY <3>2, <3>4, <3>6, AlikeEmpty
  <2>6. CASE ~Deletes(dll, p[1])
    <3>1. dll' = dll /\ dev' = dev
      BY <1>1, <2>1, <2>3, <2>6, DeleteReaches DEF mglDeleteContext
    <3>2. DevSame
      BY <3>1 DEF DevSame
    <3>3. dll.level = 0 => p[1][1] # "rc"
      BY <2>1, <2>4, <2>6 DEF Deletes, Alike, OnlyOne
    <3>4. ~Current'
      BY <2>2, CurTypes DEF Current
    <3>5. NoneCurrent' /\ (dll.level # 0 => dll'.currGLRC # NoRc)
      BY <2>4, <3>1 DEF NoneCurrent, Alike, Believed
    <3> QED
      BY <2>2, <3>1, <3>2, <3>3, <3>4, <3>5, AlikeSame
  <2> QED
    BY <2>5, <2>6
<1>5. ASSUME glQueued \/ glNow PROVE Alike'
  <2>1. app' = app /\ dll' = [dll EXCEPT !.calls = @ \cup {dll.start}] /\ Current
    BY <1>5 DEF glQueued, glNow, CanCall, Current
  <2>2. dll.currGLRC # NoRc /\ Gate(dev) /\ Active /\ dll.loaded
    BY <2>1 DEF Alike, Believed, Active, WrapperOK, Current
  <2>3. Call \in [made : Id, start : Id \cup {None}] /\ Call.start = dll.start
    BY <1>1, <2>1, Pairs DEF Call, Current, DllType
  <2> DEFINE q == [dev EXCEPT !.queue = @ \cup {Call}]
  <2>4. /\ q \in DevType /\ q.mglContext = dev.mglContext /\ q.mglCntxCurrent = dev.mglCntxCurrent
        /\ q.ctx = dev.ctx /\ q.refs = dev.refs /\ q.calls = dev.calls
        /\ q.queue = dev.queue \cup {Call}
    BY <1>1, <2>3 DEF DevType
  <2>5. dev' \in {q, processFifo(q)}
    BY <1>5, <2>2 DEF glQueued, glNow
  <2> HIDE DEF q
  <2>6. Done(q) = Done(dev) \cup {dll.start}
    BY <2>3, <2>4 DEF Done
  <2>7. /\ dev'.mglContext = dev.mglContext /\ dev'.mglCntxCurrent = dev.mglCntxCurrent
        /\ dev'.ctx = dev.ctx /\ dev'.refs = dev.refs /\ Done(dev') = Done(dev) \cup {dll.start}
    BY <2>4, <2>5, <2>6, DrainFacts, DoneDrained
  <2>8. /\ dll'.loaded = dll.loaded /\ dll'.level = dll.level /\ dll'.currGLRC = dll.currGLRC
        /\ dll'.currDC = dll.currDC /\ dll'.calls = dll.calls \cup {dll.start}
    BY <1>1, <2>1 DEF DllType
  <2>9. Active' /\ Gate(dev') /\ Gate(dev)
    BY <2>2, <2>7, <2>8 DEF Active, Gate
  <2>10. Mapped' /\ Drainable' /\ ActiveSame' /\ Unused'
    BY <2>2, <2>7, <2>8, <2>9 DEF Alike, Mapped, Drainable, ActiveSame, Unused, Gate
  <2>11. Believed' /\ NoneCurrent' /\ OnlyOne'
    BY <2>1, <2>2, <2>8, <2>9 DEF Alike, Believed, NoneCurrent, OnlyOne, HasRc, Current
  <2> QED
    BY <2>10, <2>11 DEF Alike
<1> QED
  BY <1>2, <1>3, <1>4, <1>5

LEMMA AlikePbuffers ==
  ASSUME TInv, Alike,
         \/ \E id \in NewId, width \in Pb : wglCreatePbufferARB(id, width)
         \/ \E i \in dll.currPB : wglDestroyPbufferARB(i)
  PROVE  Alike'
<1> USE DEF TInv
<1>1. dll \in DllType /\ dev \in DevType /\ app \in AppType
  BY DEF TypeOK
<1> DEFINE f == processFifo(dev)
<1>f. /\ f \in DevType /\ f.mglContext = dev.mglContext /\ f.mglCntxCurrent = dev.mglCntxCurrent
      /\ f.ctx = dev.ctx /\ f.refs = dev.refs /\ f.queue \subseteq dev.queue
      /\ Done(f) = Done(dev)
  BY <1>1, DrainFacts, DoneDrained
<1>2. /\ dev' = f \/ \E PBRC : dev' = [f EXCEPT !.PBRC = PBRC]
      /\ \E S : dll' = [dll EXCEPT !.currPB = S]
      /\ \/ app' = app
         \/ \E i \in Pb : app' = [app EXCEPT !.holds = {p \in @ : p[1] # PbRc(i)}]
  <2>1. ASSUME NEW id \in NewId, NEW width \in Pb, wglCreatePbufferARB(id, width)
        PROVE  /\ dev' = f \/ \E PBRC : dev' = [f EXCEPT !.PBRC = PBRC]
               /\ \E S : dll' = [dll EXCEPT !.currPB = S]
               /\ app' = app
    <3> DEFINE full == FreePb(dev) = {}
               i == IF full THEN width ELSE PbSlot(dev)
    <3>1. dev' = IF full THEN f ELSE [f EXCEPT !.PBRC = [f.PBRC EXCEPT ![i] = id]]
      BY <2>1 DEF wglCreatePbufferARB
    <3>2. dll' = [dll EXCEPT !.currPB = IF full THEN dll.currPB \ {i} ELSE dll.currPB \cup {i}]
      BY <2>1 DEF wglCreatePbufferARB
    <3>3. app' = app
      BY <2>1 DEF wglCreatePbufferARB
    <3> HIDE DEF full, i, f
    <3> QED
      BY <3>1, <3>2, <3>3
  <2>2. ASSUME NEW i \in dll.currPB, wglDestroyPbufferARB(i)
        PROVE  /\ \E PBRC : dev' = [f EXCEPT !.PBRC = PBRC]
               /\ \E S : dll' = [dll EXCEPT !.currPB = S]
               /\ \E k \in Pb : app' = [app EXCEPT !.holds = {p \in @ : p[1] # PbRc(k)}]
    <3>1. /\ dev' = [f EXCEPT !.PBRC = [f.PBRC EXCEPT ![i] = None]]
          /\ dll' = [dll EXCEPT !.currPB = dll.currPB \ {i}]
          /\ app' = [app EXCEPT !.holds = {p \in @ : p[1] # PbRc(i)}]
      BY <2>2 DEF wglDestroyPbufferARB
    <3>2. i \in Pb
      BY <1>1 DEF DllType
    <3> HIDE DEF f
    <3> QED
      BY <3>1, <3>2
  <2> QED
    BY <2>1, <2>2
<1> HIDE DEF f
<1>3. DevSame
  BY <1>f, <1>2 DEF DevSame, Done, DevType
<1>4. /\ dll'.loaded = dll.loaded /\ dll'.level = dll.level /\ dll'.currGLRC = dll.currGLRC
      /\ dll'.calls = dll.calls /\ dll'.currDC = dll.currDC
  BY <1>1, <1>2 DEF DllType
<1>5. /\ app'.cur = app.cur /\ app'.holds \subseteq app.holds
      /\ \A p \in app.holds : p[1][1] = "rc" => p \in app'.holds
  BY <1>1, <1>2, Handles DEF AppType
<1>6. (Current' => dll'.currGLRC # NoRc) /\ NoneCurrent' /\ (dll.level # 0 => dll'.currGLRC # NoRc)
  BY <1>4, <1>5 DEF Alike, Believed, NoneCurrent, Current
<1> QED
  BY <1>3, <1>4, <1>5, <1>6, AlikeSame

LEMMA SInvNext == TInv /\ SInv /\ [Next]_vars => SInv'
<1> SUFFICES ASSUME TInv, SInv, [Next]_vars PROVE SInv'
  OBVIOUS
<1>1. CASE UNCHANGED vars
  BY <1>1 DEF vars, Spared, SInv, Alike, Mapped, Drainable, ActiveSame, Unused, Believed, OnlyOne,
              NoneCurrent, HasRc, Active, Current, Gate, Done
<1>2. CASE Next
  <2> SUFFICES ASSUME Spared(Straight)' PROVE Alike'
    BY DEF SInv
  <2>1. Alike
    BY <1>2, Remembered DEF SInv, Spared
  <2> QED
    BY <1>2, <2>1, AlikeProcess, AlikeCreate, AlikeUse, AlikePbuffers DEF Next
<1> QED
  BY <1>1, <1>2

LEMMA SInvInit == Init => SInv
<1> SUFFICES ASSUME Init PROVE Alike
  BY DEF SInv
<1>1. dll.currGLRC = NoRc /\ dll.level = 0 /\ app.holds = {} /\ ~dll.loaded
  BY NewTypes DEF Init
<1>2. ~dev.mglContext /\ dev.refs = 0
  BY DEF Init, NewDev
<1>3. ~Active /\ ~Current
  BY <1>1 DEF Active, Current
<1> QED
  BY <1>1, <1>2, <1>3 DEF Alike, Mapped, Drainable, ActiveSame, Unused, Believed, OnlyOne, NoneCurrent

\* What wrapper and device know of the vertex arrays begins with the same call,
\* whichever of them noticed that the context was new.
THEOREM StatesStayTogether == Spec => []StatesTogether
<1>1. SInv => StatesTogether
  BY DEF SInv, Alike, ActiveSame, Active, Current, StatesTogether, Straight, Done
<1> QED
  BY <1>1, TInvInit, TInvNext, SInvInit, SInvNext, PTL DEF Spec
=============================================================================
