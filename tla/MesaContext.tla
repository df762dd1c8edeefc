----------------------------- MODULE MesaContext -----------------------------
(***************************************************************************)
(* Rendering contexts of OpenGL pass-through (Linux host).  The wrapper    *)
(* makes the application's handles up from a counter of its own; the       *)
(* device keeps the contexts of the host's GL in slots and finds one by    *)
(* the number in the handle.  Whether queued calls are carried out at all  *)
(* is decided by two flags of the device, the gate.  Wrapper and device    *)
(* each start over with the client state of vertex arrays (MesaArrays)     *)
(* when they believe a context to be new.                                  *)
(*                                                                         *)
(* Applications use the calls in orders the two do not count on, and       *)
(* things fail.  All of it is in the model; the history variable mishaps   *)
(* remembers what happened, and each property names what it does not       *)
(* survive:                                                                *)
(*   "again"     a context is made, or the pixel format set, while the     *)
(*               application holds contexts                                *)
(*   "temp"      wglCreateContextAttribsARB has replaced a context that    *)
(*               the application uses or deletes afterwards                *)
(*   "failed"    the host's GL makes no context                            *)
(*   "idle"      a shared context, or one of a pixel buffer, is made while *)
(*               none is current                                           *)
(*   "levels"    a shared context is made when all slots are taken         *)
(*   "shared"    a context is deleted when there are shared ones           *)
(*   "busy"      a context is deleted, or a pixel buffer destroyed, that   *)
(*               is current, or while another one is                       *)
(*   "order"     the window's context is deleted before those of pixel     *)
(*               buffers                                                   *)
(*   "pbuffers"  a pixel buffer is made when there are MaxPb               *)
(*   "left"      a process ends with contexts it has not deleted that      *)
(*               DllMain does not delete either                            *)
(*   "killed"    a process ends without DllMain, or the guest is reset     *)
(*               (mesapt_reset does nothing, and the memory keeps its      *)
(*               contents)                                                 *)
(***************************************************************************)
EXTENDS Integers, FiniteSets

CONSTANTS
  Id,         \* contexts of the host's GL
  None,
  MaxLvl,     \* MAX_LVLCNTX
  MaxPb,      \* MAX_PBUFFER
  MaxMishaps  \* mishaps in a behavior

ASSUME NoneIsNoId == None \notin Id
ASSUME SlotsAreNat == MaxLvl \in Nat \ {0, 1} /\ MaxPb \in Nat \ {0} /\ MaxMishaps \in Nat

Level == 0..(MaxLvl - 1)
Pb == 0..(MaxPb - 1)

\* Handles: MESAGL_MAGIC less the level, and those of pixel buffers.
Rc(n) == <<"rc", n>>
PbRc(i) == <<"pb", i>>
NoRc == <<"none", 0>>
Handle == {Rc(n) : n \in Level} \cup {PbRc(i) : i \in Pb}

\* Device contexts: of a window, of a pixel buffer, or none.
Window == <<"window", 0>>
NoDC == <<"none", 0>>

VARIABLES
  dll,     \* the wrapper's variables
  dev,     \* the device's, the host's GL contexts, and the calls queued
  app,     \* contexts as the application knows them
  mishaps  \* history: what went otherwise than expected

vars == <<dll, dev, app, mishaps>>

\* currPB: the pixel buffers.  The client state is told by the context it was
\* last started with, start, and the calls made on it: for each the start then.
NewDll ==
  [loaded |-> FALSE, currPixFmt |-> FALSE, currDC |-> FALSE, currGLRC |-> NoRc, level |-> 0,
   currPB |-> {}, start |-> None, calls |-> {}]

NoContexts == [n \in Level |-> None]
NoPbuffers == [i \in Pb |-> None]

\* ctx, PBRC: contexts by slot; cur: the current one; calls: as above, of the
\* calls carried out; queue: calls by context and start; refs: of the mapping.
NewDev ==
  [mglContext |-> FALSE, mglCntxCurrent |-> FALSE, ctx |-> NoContexts, PBRC |-> NoPbuffers,
   cur |-> None, calls |-> {}, queue |-> {}, refs |-> 0]

\* Pairs of a handle and the context it was returned for: those the application
\* holds, those wglCreateContextAttribsARB has last replaced, and the current one.
NewApp == [holds |-> {}, old |-> {}, cur |-> <<NoRc, None>>]

Init ==
  /\ dll = NewDll
  /\ dev = NewDev
  /\ app = NewApp
  /\ mishaps = {}

-----------------------------------------------------------------------------
(* The device *)

Gate(d) == d.mglContext /\ d.mglCntxCurrent

\* Every write but to 0xFBC first carries out what is queued, if the gate is open.
processFifo(d) ==
  IF Gate(d) THEN [d EXCEPT !.calls = @ \cup {c.start : c \in d.queue}, !.queue = {}] ELSE d

MGLDeleteContext(d) == [d EXCEPT !.cur = None, !.ctx = NoContexts]

FirstContext(id) == [n \in Level |-> IF n = 0 THEN id ELSE None]

\* "id" is None when the host's GL fails.
MGLCreateContext(d, dc, id) ==
  IF dc[1] = "pb" THEN d ELSE [d EXCEPT !.cur = None, !.ctx = FirstContext(id)]

\* 0xFFC.
WriteCreate(d, dc, id) ==
  LET c == MGLCreateContext(processFifo(d), dc, id) IN
  IF d.mglContext THEN c
  ELSE [c EXCEPT !.mglContext = dc[1] = "pb" \/ id # None, !.calls = {}]

MGLMakeCurrentFirst(d, rc) ==  \* mutant: the level is not looked at
  [d EXCEPT !.cur = CASE rc[1] = "rc" -> d.ctx[0]
                      [] rc[1] = "pb" -> d.PBRC[rc[2]]
                      [] OTHER -> @]

MGLMakeCurrent(d, rc) ==
  [d EXCEPT !.cur = CASE rc[1] = "rc" -> d.ctx[rc[2]]
                      [] rc[1] = "pb" -> d.PBRC[rc[2]]
                      [] OTHER -> @]

WriteMakeCurrentUndrained(d, rc) ==  \* mutant: what is queued stays so
  LET c == MGLMakeCurrent(d, rc) IN
  IF d.mglContext /\ ~d.mglCntxCurrent /\ rc # NoRc THEN [c EXCEPT !.mglCntxCurrent = TRUE]
  ELSE c

\* 0xFF8.
WriteMakeCurrent(d, rc) ==
  LET c == MGLMakeCurrent(processFifo(d), rc) IN
  IF d.mglContext /\ ~d.mglCntxCurrent /\ rc # NoRc THEN [c EXCEPT !.mglCntxCurrent = TRUE]
  ELSE c

WriteDeleteStaysCurrent(d) ==  \* mutant: one flag is left set
  LET c == MGLDeleteContext(processFifo(d)) IN
  IF Gate(d) THEN [c EXCEPT !.mglContext = FALSE] ELSE c

\* 0xFF4 with MESAGL_MAGIC; other values do not get so far.
WriteDelete(d) ==
  LET c == MGLDeleteContext(processFifo(d)) IN
  IF Gate(d) THEN [c EXCEPT !.mglContext = FALSE, !.mglCntxCurrent = FALSE] ELSE c

\* 0xFBC, unloading.
WriteUnload(d) ==
  IF d.mglContext THEN [MGLDeleteContext(d) EXCEPT !.mglContext = FALSE] ELSE d

Free(d) == {n \in Level : d.ctx[n] = None}
Slot(d) == CHOOSE n \in Free(d) : \A k \in Free(d) : n <= k

CreateAloneKeepsClient(d, id) ==  \* mutant: without ContextCreateCommon
  LET c == [processFifo(d) EXCEPT !.cur = None, !.ctx = FirstContext(id)] IN
  IF id = None THEN c ELSE [c EXCEPT !.mglContext = TRUE, !.mglCntxCurrent = FALSE]

\* 0xFDC, wglCreateContextAttribsARB without a context to share with.
CreateAlone(d, id) ==
  LET c == [processFifo(d) EXCEPT !.cur = None, !.ctx = FirstContext(id)] IN
  IF id = None THEN c
  ELSE [c EXCEPT !.mglContext = TRUE, !.mglCntxCurrent = FALSE, !.calls = {}]

\* And with one: in the first free slot, or the first shared one makes room.
CreateShared(d, id) ==
  LET c == processFifo(d) IN
  IF Free(d) # {} THEN [c EXCEPT !.ctx[Slot(d)] = id]
  ELSE [c EXCEPT !.ctx = [n \in Level |-> IF n = 0 THEN d.ctx[0]
                                          ELSE IF n = MaxLvl - 1 THEN id ELSE d.ctx[n + 1]]]

WriteCreateAttribs(d, share, id) ==
  IF share /\ 0 \notin Free(d) THEN CreateShared(d, id) ELSE CreateAlone(d, id)

FreePb(d) == {i \in Pb : d.PBRC[i] = None}
PbSlot(d) == CHOOSE i \in FreePb(d) : \A k \in FreePb(d) : i <= k

-----------------------------------------------------------------------------
(* The wrapper *)

InitClientStates(w, id) == [w EXCEPT !.start = id, !.calls = {}]

mglCreateContext(w, dc, id) ==
  IF w.currPixFmt /\ w.currGLRC = NoRc
  THEN [InitClientStates(w, id) EXCEPT !.currDC = dc # NoDC] ELSE w

\* The handle it returns.
Returned(w, dc) ==
  CASE ~w.currPixFmt -> NoRc
    [] w.currPixFmt /\ w.currGLRC = NoRc -> Rc(0)
    [] OTHER -> IF dc[1] = "pb" THEN dc ELSE NoRc

\* Without a device context the wrapper first creates a context.
MakeFails(w, dc) == ~w.currDC /\ Returned(w, dc) = NoRc

mglMakeCurrent(w, dc, rc, id) ==
  LET c == IF w.currDC THEN w ELSE mglCreateContext(w, dc, id) IN
  IF MakeFails(w, dc) THEN c
  ELSE [c EXCEPT !.currGLRC = IF w.level # 0 THEN Rc(0) ELSE rc]

MakeCurrentWrites(w, d, dc, rc, id) ==
  IF w.currDC THEN WriteMakeCurrent(d, rc)
  ELSE IF ~w.currPixFmt THEN d
  ELSE LET c == WriteCreate(d, dc, id) IN
       IF MakeFails(w, dc) THEN c ELSE WriteMakeCurrent(c, rc)

\* The only case in which a deletion has an effect.
Deletes(w, rc) == w.level = 0 /\ w.currGLRC = NoRc /\ rc = Rc(0)

mglDeleteContext(w, rc) ==
  IF Deletes(w, rc) THEN [w EXCEPT !.currDC = FALSE, !.currPB = {}] ELSE w

DeleteWritesLeave(w, d, rc) ==  \* mutant: pixel buffers are forgotten
  IF Deletes(w, rc) THEN WriteDelete(d) ELSE d

\* Pixel buffers first, each by a write of its own.
DeleteWrites(w, d, rc) ==
  IF Deletes(w, rc)
  THEN LET c == IF w.currPB = {} THEN d ELSE processFifo(d) IN
       WriteDelete([c EXCEPT !.PBRC = [i \in Pb |-> IF i \in w.currPB THEN None ELSE @[i]]])
  ELSE d

\* What wglSetPixelFormat and the end of a process do with a current context
\* (there is a device context then, so that none is created on the way).
NotCurrent(w) == mglMakeCurrent(w, NoDC, NoRc, None)
Unset(w) == IF w.currGLRC # NoRc THEN mglDeleteContext(NotCurrent(w), Rc(0)) ELSE w
UnsetWrites(w, d) ==
  IF w.currGLRC # NoRc
  THEN DeleteWrites(NotCurrent(w), MakeCurrentWrites(w, d, NoDC, NoRc, None), Rc(0))
  ELSE d

-----------------------------------------------------------------------------
(* What the application does.  A context that is made has an identity not  *)
(* in use.                                                                 *)

InUse ==
  {dev.ctx[n] : n \in Level} \cup {dev.PBRC[i] : i \in Pb} \cup {dev.cur, dll.start, app.cur[2]}
    \cup dev.calls \cup dll.calls \cup UNION {{c.made, c.start} : c \in dev.queue}
    \cup {p[2] : p \in app.holds \cup app.old}
NewId == Id \ InUse

Happens(S) == Cardinality(mishaps \cup S) <= MaxMishaps /\ mishaps' = mishaps \cup S
If(b, what) == IF b THEN {what} ELSE {}

\* The memory is set up unless a process that was killed has left it so, with
\* the registers at the address where they are mapped now.
Attach(same) ==
  /\ ~dll.loaded
  /\ dll' = [NewDll EXCEPT !.loaded = TRUE]
  /\ dev' = IF dev.refs = 0 \/ ~same THEN [dev EXCEPT !.refs = 1, !.queue = {}] ELSE [dev EXCEPT !.refs = 2]
  /\ app' = NewApp
  /\ UNCHANGED mishaps

Detach ==
  /\ dll.loaded
  /\ dll' = NewDll
  /\ dev' = IF dev.refs = 1
            THEN [WriteUnload(UnsetWrites(dll, dev)) EXCEPT !.refs = 0]
            ELSE [dev EXCEPT !.refs = 1]
  /\ app' = NewApp
  /\ mishaps' = mishaps \cup (If((app.holds # {} \/ dll.currPB # {}) /\ (dll.currGLRC = NoRc \/ dll.level # 0), "left"))

\* At most once.
Killed ==
  /\ dll.loaded /\ "killed" \notin mishaps
  /\ dll' = NewDll
  /\ app' = NewApp
  /\ Happens({"killed"})
  /\ UNCHANGED dev

wglSetPixelFormat ==
  /\ dll.loaded
  /\ dll' = [Unset(dll) EXCEPT !.currPixFmt = TRUE]
  /\ dev' = processFifo(UnsetWrites(dll, dev))
  /\ Happens(If(app.holds # {}, "again"))
  /\ UNCHANGED app

Holding(rc, id) == IF rc = NoRc THEN app ELSE [app EXCEPT !.holds = @ \cup {<<rc, id>>}]

wglCreateContext(id, ok) ==
  /\ dll.currPixFmt
  /\ dll' = mglCreateContext(dll, Window, id)
  /\ dev' = WriteCreate(dev, Window, IF ok THEN id ELSE None)
  /\ app' = Holding(Returned(dll, Window), id)
  /\ Happens(If(app.holds # {}, "again") \cup If(~ok, "failed"))

\* For the device context of a pixel buffer.
wglCreateContextPb(i, id) ==
  /\ dll.currPixFmt /\ i \in dll.currPB
  /\ dll' = mglCreateContext(dll, PbRc(i), id)
  /\ dev' = WriteCreate(dev, PbRc(i), None)
  /\ app' = Holding(Returned(dll, PbRc(i)), dev.PBRC[i])
  /\ Happens(If(dll.currGLRC = NoRc, "idle"))

NextLevelOneMore(n) == n + 1  \* mutant

NextLevel(n) == IF (n + 1) % MaxLvl # 0 THEN (n + 1) % MaxLvl ELSE 1

AttribsAlone(id, ok) ==
  /\ dll.currPixFmt
  /\ dev' = WriteCreateAttribs(dev, FALSE, IF ok THEN id ELSE None)
  /\ IF ok
     THEN /\ dll' = [InitClientStates(dll, id) EXCEPT !.currDC = TRUE, !.currGLRC = NoRc, !.level = 0]
          /\ app' = [app EXCEPT !.holds = {<<Rc(0), id>>}, !.old = app.holds]
     ELSE UNCHANGED <<dll, app>>
  /\ Happens(If(~ok, "failed"))

AttribsShared(p, id, ok) ==
  /\ p \in app.holds
  /\ dev' = WriteCreateAttribs(dev, TRUE, IF ok THEN id ELSE None)
  /\ CASE ~ok -> UNCHANGED <<dll, app>>
       [] ok /\ dll.currGLRC # NoRc ->
            /\ dll' = [dll EXCEPT !.level = NextLevel(@)]
            /\ app' = Holding(Rc(NextLevel(dll.level)), id)
       [] OTHER ->
            /\ dll' = [InitClientStates(dll, id) EXCEPT !.currDC = TRUE, !.level = 0]
            /\ app' = Holding(Rc(0), id)
  /\ Happens(If(~ok, "failed") \cup If(dll.currGLRC = NoRc, "idle") \cup If(Free(dev) = {}, "levels"))

DcOf(rc) == IF rc[1] = "pb" THEN rc ELSE Window

wglMakeCurrent(p, id) ==
  /\ p \in app.holds \cup app.old
  /\ dll' = mglMakeCurrent(dll, DcOf(p[1]), p[1], id)
  /\ dev' = MakeCurrentWrites(dll, dev, DcOf(p[1]), p[1], id)
  /\ app' = IF MakeFails(dll, DcOf(p[1])) THEN app ELSE [app EXCEPT !.cur = p]
  /\ Happens(If(p \notin app.holds, "temp"))

wglMakeCurrentNone(id) ==
  /\ dll.loaded
  /\ dll' = mglMakeCurrent(dll, NoDC, NoRc, id)
  /\ dev' = MakeCurrentWrites(dll, dev, NoDC, NoRc, id)
  /\ app' = [app EXCEPT !.cur = NewApp.cur]
  /\ UNCHANGED mishaps

wglDeleteContext(p) ==
  /\ p \in app.holds \cup app.old
  /\ dll' = mglDeleteContext(dll, p[1])
  /\ dev' = DeleteWrites(dll, dev, p[1])
  /\ app' = [app EXCEPT !.holds = @ \ {p}, !.old = @ \ {p},
                        !.cur = IF @ = p THEN NewApp.cur ELSE @]
  /\ Happens(If(app.cur # NewApp.cur, "busy") \cup If(p \notin app.holds, "temp")
               \cup If(dll.level # 0, "shared")
               \cup If(p[1] = Rc(0) /\ \E q \in app.holds : q[1][1] = "pb", "order"))

\* When there is no room the number of a buffer in use may come back: the
\* argument, the width, that the device has not overwritten.
wglCreatePbufferARB(id, width) ==
  /\ dll.currPixFmt
  /\ LET d == processFifo(dev)
         full == FreePb(dev) = {}
         i == IF full THEN width ELSE PbSlot(dev)
     IN  /\ dev' = IF full THEN d ELSE [d EXCEPT !.PBRC[i] = id]
         /\ dll' = [dll EXCEPT !.currPB = IF full THEN @ \ {i} ELSE @ \cup {i}]
         /\ Happens(If(full, "pbuffers"))
  /\ UNCHANGED app

wglDestroyPbufferARB(i) ==
  /\ i \in dll.currPB
  /\ dev' = [processFifo(dev) EXCEPT !.PBRC[i] = None]
  /\ dll' = [dll EXCEPT !.currPB = @ \ {i}]
  /\ app' = [app EXCEPT !.holds = {p \in @ : p[1] # PbRc(i)}]
  /\ Happens(If(app.cur[1] = PbRc(i), "busy"))

\* Any GL call that may wait, and one that may not.
Call == [made |-> app.cur[2], start |-> dll.start]
CanCall == app.cur \in app.holds

glQueued ==
  /\ CanCall
  /\ dev' = [dev EXCEPT !.queue = @ \cup {Call}]
  /\ dll' = [dll EXCEPT !.calls = @ \cup {dll.start}]
  /\ UNCHANGED <<app, mishaps>>

\* 0xFC0: without a context the device only warns.
glNow ==
  /\ CanCall
  /\ dev' = IF Gate(dev) THEN processFifo([dev EXCEPT !.queue = @ \cup {Call}]) ELSE dev
  /\ dll' = [dll EXCEPT !.calls = @ \cup {dll.start}]
  /\ UNCHANGED <<app, mishaps>>

Next ==
  \/ \E same \in BOOLEAN : Attach(same)
  \/ Detach
  \/ Killed
  \/ wglSetPixelFormat
  \/ \E id \in NewId, ok \in BOOLEAN : wglCreateContext(id, ok)
  \/ \E id \in NewId, i \in dll.currPB : wglCreateContextPb(i, id)
  \/ \E id \in NewId, ok \in BOOLEAN : AttribsAlone(id, ok)
  \/ \E id \in NewId, ok \in BOOLEAN, p \in app.holds : AttribsShared(p, id, ok)
  \/ \E id \in NewId, p \in app.holds \cup app.old : wglMakeCurrent(p, id)
  \/ \E id \in NewId : wglMakeCurrentNone(id)
  \/ \E p \in app.holds \cup app.old : wglDeleteContext(p)
  \/ \E id \in NewId, width \in Pb : wglCreatePbufferARB(id, width)
  \/ \E i \in dll.currPB : wglDestroyPbufferARB(i)
  \/ glQueued
  \/ glNow

Spec == Init /\ [][Next]_vars

-----------------------------------------------------------------------------
(* Properties *)

Spared(S) == mishaps \cap S = {}

DllType ==
  [loaded : BOOLEAN, currPixFmt : BOOLEAN, currDC : BOOLEAN, currGLRC : Handle \cup {NoRc},
   level : Level, currPB : SUBSET Pb, start : Id \cup {None}, calls : SUBSET (Id \cup {None})]
DevType ==
  [mglContext : BOOLEAN, mglCntxCurrent : BOOLEAN, ctx : [Level -> Id \cup {None}],
   PBRC : [Pb -> Id \cup {None}], cur : Id \cup {None}, calls : SUBSET (Id \cup {None}),
   queue : SUBSET [made : Id, start : Id \cup {None}], refs : 0..2]
AppType ==
  [holds : SUBSET (Handle \X Id), old : SUBSET (Handle \X Id),
   cur : (Handle \X Id) \cup {NewApp.cur}]

\* Types.
TypeOK ==
  /\ dll \in DllType
  /\ dev \in DevType
  /\ app \in AppType

Current == app.cur \in app.holds

\* The context the application has made current is the one current in the host,
\* and its calls are carried out.  Wrapper and device number contexts each for
\* themselves (level; the first free slot) and must not drift apart.
RightContext ==
  Current /\ Spared({"again", "temp", "failed", "idle", "levels", "shared", "order"})
  => Gate(dev) /\ dev.cur = app.cur[2]

\* A call that waits in the queue will be carried out in the context it was made
\* in: whatever changes the host's current context drains the queue before it.
CallsInOwn ==
  Spared({"again", "temp", "failed", "idle", "levels", "shared", "order"})
  => \A c \in dev.queue : Gate(dev) /\ c.made = dev.cur

\* Wrapper and device have started the client state over for the same calls:
\* what was done to it since has been done, or waits to be done, on both sides.
\* The wrapper starts over when it has no current context, the device when its
\* flag mglContext is not set; this is why the two must agree.
StatesTogether ==
  Current /\ Spared({"again", "temp", "failed", "idle", "busy", "order", "killed"})
  => dll.calls = dev.calls \cup {c.start : c \in dev.queue}

\* The wrapper's list of pixel buffers, by which it destroys those the
\* application forgot, is the list of those that exist in the host.
PbuffersAgree ==
  dll.loaded /\ Spared({"pbuffers", "left", "killed"})
  => dll.currPB = {i \in Pb : dev.PBRC[i] # None}

\* When the process has ended the device is as it was before: no context, no
\* pixel buffer, and the gate is shut for what the next process queues before it
\* has a context.
NothingLeft ==
  ~dll.loaded /\ Spared({"temp", "busy", "shared", "order", "pbuffers", "left", "killed"})
  => /\ ~dev.mglContext /\ ~dev.mglCntxCurrent /\ dev.cur = None
     /\ dev.ctx = NoContexts /\ dev.PBRC = NoPbuffers
=============================================================================
