----------------------------- MODULE MesaArrays -----------------------------
(***************************************************************************)
(* Client vertex arrays in OpenGL pass-through.  A draw call names arrays  *)
(* that lie in the memory of the guest's application; the wrapper sends    *)
(* with each draw the part that is drawn, and the device copies it to a    *)
(* cache of its own, at the place that stands for the guest's pointer.     *)
(* What is sent, and how long it is, goes nowhere with the call: wrapper   *)
(* and device both keep the client state (what is enabled, where, in what  *)
(* format, which buffers are bound), the wrapper as the application calls, *)
(* the device as it carries the calls out, and each derives it from that.  *)
(*                                                                         *)
(* The queue is the one of module GlideFifo, which the two devices share   *)
(* in its form, reduced to the calls that concern arrays; its room is      *)
(* counted in calls and in words of data.                                  *)
(***************************************************************************)
EXTENDS Integers, Sequences, FiniteSetsExt

CONSTANTS
  Fixed,     \* arrays without a unit: "Vertex", "Color", ...
  Units,     \* texture units with an array of coordinates
  Attribs,   \* arrays that are also addressed as generic attributes
  Format,    \* formats: bytes of an element and stride
  Ptr,       \* addresses the application passes
  BadPtr,    \* those that are not readable memory
  Buf,       \* names of buffer objects
  Vao,       \* names of vertex array objects
  Draw,      \* draws, see below
  MaxQueue,  \* calls that find room in the queue
  MaxData    \* words of the data area

Slot == (Fixed \X {0}) \cup ({"TexCoord"} \X Units)
Inter == <<"Interleaved", 0>>
Arrays == Slot \cup {Inter}

ASSUME ArraysAreFinite == IsFiniteSet(Fixed) /\ IsFiniteSet(Units)
ASSUME UnitsStartAtZero == Units \subseteq Nat /\ (Units # {} => 0 \in Units)
ASSUME NoFixedTexCoord == Fixed \cap {"TexCoord", "Interleaved"} = {}
ASSUME AttribsAreArrays == Attribs \subseteq Slot
ASSUME FormatsAreSizes == Format \subseteq [size : Nat \ {0}, stride : Nat]
ASSUME PointersAreNotNull == Ptr \subseteq Nat \ {0} /\ BadPtr \subseteq Ptr
ASSUME NamesAreNotZero == Buf \subseteq Nat \ {0} /\ Vao \subseteq Nat \ {0}
ASSUME DrawsAreDraws ==
  Draw \subseteq [kind : {"arrays", "elements", "range", "element", "lock"},
                 start : Nat, end : Int, base : Nat, idx : Seq(Nat)]
ASSUME BoundsAreNat == MaxQueue \in Nat /\ MaxData \in Nat

-----------------------------------------------------------------------------
(* Client state, on either side *)

NoFormat == [size |-> 0, stride |-> 0]

\* InitClientStates.
NoClient ==
  [enable |-> [a \in Arrays |-> FALSE], fmt |-> [a \in Arrays |-> NoFormat],
   ptr |-> [a \in Arrays |-> 0], texUnit |-> 0, arrayBuf |-> 0, elemArryBuf |-> 0, vao |-> 0]

vtxarry_init(c, a, fmt, ptr) == [c EXCEPT !.fmt[a] = fmt, !.ptr[a] = ptr]
vtxarry_state(c, a, st) == [c EXCEPT !.enable[a] = st]

\* All but the interleaved array.
vtxarry_ptr_reset(c) == [c EXCEPT !.ptr = [a \in Arrays |-> IF a \in Slot THEN 0 ELSE c.ptr[a]]]

TexArray(c) == <<"TexCoord", c.texUnit>>

\* vattr2arry_state: naming a texture array as an attribute selects its unit.
vattr2arry_state(c, a) == IF a[1] = "TexCoord" THEN [c EXCEPT !.texUnit = a[2]] ELSE c

\* While a vertex array object is bound, it stands for both bindings.
UnderVao(c) == IF c.vao # 0 THEN [c EXCEPT !.arrayBuf = c.vao, !.elemArryBuf = c.vao] ELSE c

\* Mutation of BindBuffer: the pointers are kept.
BindBufferKeeps(c, target, name) ==
  UnderVao([c EXCEPT !.arrayBuf = IF target = "array" THEN name ELSE @,
                     !.elemArryBuf = IF target = "element" THEN name ELSE @])

\* Mutation of BindBuffer: unbinding any buffer drops the pointers.
BindBufferDrops(c, target, name) ==
  LET bound == [c EXCEPT !.arrayBuf = IF target = "array" THEN name ELSE @,
                         !.elemArryBuf = IF target = "element" THEN name ELSE @]
  IN  UnderVao(IF c.vao = 0 /\ name = 0 THEN vtxarry_ptr_reset(bound) ELSE bound)

BindBuffer(c, target, name) ==
  LET bound == [c EXCEPT !.arrayBuf = IF target = "array" THEN name ELSE @,
                         !.elemArryBuf = IF target = "element" THEN name ELSE @]
  IN  UnderVao(IF c.vao = 0 /\ target = "array" /\ name = 0 THEN vtxarry_ptr_reset(bound)
               ELSE bound)

DeleteBuffer(c, name) ==
  LET unbound == [c EXCEPT !.arrayBuf = IF @ = name THEN 0 ELSE @,
                           !.elemArryBuf = IF @ = name THEN 0 ELSE @]
  IN  UnderVao(IF c.vao = 0 /\ c.arrayBuf = name THEN vtxarry_ptr_reset(unbound) ELSE unbound)

BindVertexArray(c, name) ==
  [c EXCEPT !.vao = name, !.arrayBuf = name, !.elemArryBuf = name]
DeleteVertexArray(c, name) == BindVertexArray(c, IF c.vao = name THEN 0 ELSE c.vao)

-----------------------------------------------------------------------------
(* Draws.  A draw is [kind, start, end, base, idx]: elements start to end, *)
(* or those an index list names, counted from base.                        *)

Used(idx) == {idx[n] : n \in 1..Len(idx)}
Highest(idx) == Max(Used(idx) \cup {0})
Lowest(idx) == Min(Used(idx) \cup {Highest(idx)})

Last(d) == IF d.kind = "elements" THEN Highest(d.idx) + d.base ELSE d.end
First(d) == IF d.kind = "elements" THEN Lowest(d.idx) + d.base ELSE d.start

Indexed(d) == d.kind \in {"elements", "range"}

ALIGNED(bytes) == 8 * ((bytes + 7) \div 8)

\* Words fifoAddData takes: whole words, an even number of them.
Words(bytes) == LET n == (bytes + 3) \div 4 IN n + (n % 2)

Stride(fmt) == IF fmt.stride # 0 THEN fmt.stride ELSE fmt.size

\* The bytes of an array from the first to the last element of a draw.
Extent(fmt, d) == Stride(fmt) * (Last(d) - First(d)) + fmt.size

\* The interleaved array, or else those that are enabled.
Pushed(c) ==
  IF c.enable[Inter] /\ c.ptr[Inter] # 0 THEN {Inter}
  ELSE {a \in Slot : c.enable[a] /\ c.ptr[a] # 0}

\* Whether the arrays go with a draw, and whether its index list does.
PushesArrays(c, d) ==
  CASE d.kind = "arrays" -> d.end >= d.start /\ c.arrayBuf = 0
    [] d.kind = "lock" -> d.end >= d.start
    [] Indexed(d) -> c.elemArryBuf = 0 /\ c.arrayBuf = 0
    [] OTHER -> TRUE
PushesIndex(c, d) == Indexed(d) /\ c.elemArryBuf = 0

IndexBytes(d) == ALIGNED(2 * Len(d.idx))

\* What goes with a draw: of each array the place and the words, and the index list.
Parcel(c, d) ==
  [arrays |-> [a \in IF PushesArrays(c, d) THEN Pushed(c) ELSE {} |->
                [ptr |-> c.ptr[a], skip |-> Stride(c.fmt[a]) * First(d),
                 words |-> Words(Extent(c.fmt[a], d))]],
   index |-> IF PushesIndex(c, d) THEN IndexBytes(d) \div 4 ELSE 0]

ParcelWords(p) == p.index + SumFunction([a \in DOMAIN p.arrays |-> p.arrays[a].words])

\* The interleaved array goes with one draw only.
AfterPush(c, d) ==
  IF PushesArrays(c, d) /\ c.enable[Inter] /\ c.ptr[Inter] # 0
  THEN vtxarry_state(c, Inter, FALSE) ELSE c

-----------------------------------------------------------------------------
VARIABLES
  guest,    \* the wrapper's client state
  host,     \* the device's
  cached,   \* arrays whose pointer, in the device, is a place in its cache
  queue,    \* the calls queued, oldest first
  now,      \* the immediate call the guest waits in
  mdata,    \* next free word of the data area
  pc,       \* where the wrapper is: outside, or in PrepVertexArray or PushVertexArray
  drawing,  \* the draw it is there for
  told      \* history: what the application has said and not taken back

vars == <<guest, host, cached, queue, now, mdata, pc, drawing, told>>

FirstData == 2
Unknown == -1

Init ==
  /\ guest = NoClient
  /\ host = NoClient
  /\ cached = {}
  /\ queue = <<>>
  /\ now = <<>>
  /\ mdata = FirstData
  /\ pc = "app"
  /\ drawing = <<>>
  /\ told = [on |-> {}, at |-> [a \in Slot |-> 0], unit |-> 0, vao |-> FALSE]

\* Where a call leads the wrapper; "client" is history, its state before the call.
AfterCall(c, call) ==
  CASE call.op = "pointer" -> vtxarry_init(c, call.array, call.fmt, call.ptr)
    [] call.op = "texpointer" -> vtxarry_init(c, TexArray(c), call.fmt, call.ptr)
    [] call.op = "state" -> vtxarry_state(c, call.array, call.on)
    [] call.op = "texstate" -> vtxarry_state(c, TexArray(c), call.on)
    [] call.op = "attrib" -> vtxarry_state(vattr2arry_state(c, call.array), call.array, call.on)
    [] call.op = "active" -> [c EXCEPT !.texUnit = call.unit]
    [] call.op = "interleaved" ->
         vtxarry_state(vtxarry_init(c, Inter, call.fmt, call.ptr), Inter, TRUE)
    [] call.op = "bind" -> BindBuffer(c, call.target, call.name)
    [] call.op = "delete" -> DeleteBuffer(c, call.name)
    [] call.op = "bindvao" -> BindVertexArray(c, call.name)
    [] call.op = "deletevao" -> DeleteVertexArray(c, call.name)
    [] call.op = "draw" -> AfterPush(c, call.draw)
    [] OTHER -> c

-----------------------------------------------------------------------------
(* The application's view of its arrays.                                   *)

Forget(t) == [t EXCEPT !.at = [a \in Slot |-> 0]]

ToldPointer(a, ptr) ==
  [told EXCEPT !.at[a] = IF guest.arrayBuf = 0 THEN ptr ELSE 0]
ToldState(a, on) ==
  [told EXCEPT !.on = IF on THEN @ \cup {a} ELSE @ \ {a}]

\* With the selected unit unknown, so are all the texture arrays.
ForgetTex(t) ==
  [t EXCEPT !.on = {a \in @ : a[1] # "TexCoord"},
            !.at = [a \in Slot |-> IF a[1] = "TexCoord" THEN 0 ELSE t.at[a]]]
KnownUnit == told.unit \in Units

\* The arrays a draw is to read, as far as the application has said.
Want(d) ==
  [a \in {b \in told.on : told.at[b] # 0 /\ ~guest.enable[Inter] /\ PushesArrays(guest, d)} |->
     told.at[a]]

-----------------------------------------------------------------------------
(* The wrapper *)

Waiting == now # <<>>
Free == pc = "app" /\ ~Waiting

\* Mutation of Queued: one call too many finds room.
QueuedOneMore(call, words) ==
  IF Len(queue) <= MaxQueue /\ mdata + words < MaxData
  THEN queue' = Append(queue, call) /\ mdata' = mdata + words /\ UNCHANGED now
  ELSE now' = <<call>> /\ mdata' = mdata + words /\ UNCHANGED queue

\* FIFO_GLFUNC, after fifoAddData of so many words.
Queued(call, words) ==
  IF Len(queue) < MaxQueue /\ mdata + words < MaxData
  THEN queue' = Append(queue, call) /\ mdata' = mdata + words /\ UNCHANGED now
  ELSE now' = <<call>> /\ mdata' = mdata + words /\ UNCHANGED queue

\* The wrapper's state changes when the call is queued or is back.
Say(call, words) ==
  /\ Queued(call, words)
  /\ guest' = AfterCall(guest, call)
  /\ UNCHANGED <<host, cached>>

Tell(call, words) == Free /\ Say(call, words) /\ UNCHANGED <<pc, drawing>>

PointerCall(a, fmt, ptr) ==
  [op |-> "pointer", array |-> a, fmt |-> fmt, ptr |-> ptr, client |-> guest]
TexPointerCall(fmt, ptr) ==
  [op |-> "texpointer", fmt |-> fmt, ptr |-> ptr, client |-> guest]
InterleavedCall(fmt, ptr) ==
  [op |-> "interleaved", fmt |-> fmt, ptr |-> ptr, client |-> guest]
StateCall(a, on) == [op |-> "state", array |-> a, on |-> on, client |-> guest]
TexStateCall(on) == [op |-> "texstate", on |-> on, client |-> guest]
AttribCall(a, on) == [op |-> "attrib", array |-> a, on |-> on, client |-> guest]
ActiveCall(unit) == [op |-> "active", unit |-> unit, client |-> guest]
BindCall(target, name) == [op |-> "bind", target |-> target, name |-> name, client |-> guest]
NameCall(op, name) == [op |-> op, name |-> name, client |-> guest]
DrawCall(d) ==
  [op |-> "draw", draw |-> d, parcel |-> Parcel(guest, d), want |-> Want(d), client |-> guest]
FlushCall == [op |-> "flush", client |-> guest]

\* glVertexPointer, glColorPointer and the others, and glVertexAttribPointer.
glPointer(a, fmt, ptr) ==
  /\ Tell(PointerCall(a, fmt, ptr), 0)
  /\ told' = ToldPointer(a, ptr)

glTexCoordPointer(fmt, ptr) ==
  /\ Tell(TexPointerCall(fmt, ptr), 0)
  /\ told' = IF KnownUnit THEN ToldPointer(<<"TexCoord", told.unit>>, ptr) ELSE ForgetTex(told)

glInterleavedArrays(fmt, ptr) ==
  /\ Tell(InterleavedCall(fmt, ptr), 0)
  /\ told' = Forget(told)

\* glEnableClientState and glDisableClientState.
glClientState(a, on) ==
  /\ Tell(StateCall(a, on), 0)
  /\ told' = ToldState(a, on)

glTexCoordState(on) ==
  /\ Tell(TexStateCall(on), 0)
  /\ told' = IF KnownUnit THEN ToldState(<<"TexCoord", told.unit>>, on) ELSE ForgetTex(told)

\* glEnableVertexAttribArray and glDisableVertexAttribArray.
glVertexAttribArray(a, on) ==
  /\ Tell(AttribCall(a, on), 0)
  /\ told' = [ToldState(a, on) EXCEPT !.unit = IF a[1] = "TexCoord" THEN Unknown ELSE @]

glClientActiveTexture(unit) ==
  /\ Tell(ActiveCall(unit), 0)
  /\ told' = [told EXCEPT !.unit = unit]

glBindBuffer(target, name) ==
  /\ Tell(BindCall(target, name), 0)
  /\ told' = IF target = "array" /\ name = 0 THEN Forget(told) ELSE told

\* glDeleteBuffers of one name, which goes as data.
glDeleteBuffers(name) ==
  /\ Tell(NameCall("delete", name), Words(4))
  /\ told' = Forget(told)

glBindVertexArray(name) ==
  /\ Tell(NameCall("bindvao", name), 0)
  /\ told' = [Forget(told) EXCEPT !.vao = TRUE]

glDeleteVertexArrays(name) ==
  /\ Tell(NameCall("deletevao", name), Words(4))
  /\ told' = [Forget(told) EXCEPT !.vao = TRUE]

\* A draw that takes arrays along first looks for room, the others do not.
glDraw(d) ==
  /\ Free
  /\ IF PushesArrays(guest, d)
     THEN pc' = "prep" /\ drawing' = <<d>> /\ UNCHANGED <<guest, host, cached, queue, now, mdata>>
     ELSE Say(DrawCall(d), ParcelWords(Parcel(guest, d))) /\ UNCHANGED <<pc, drawing>>
  /\ UNCHANGED told

\* Texture arrays that are not readable are turned off, lowest unit first, by
\* the calls the application would make.
BadUnits ==
  IF guest.enable[Inter] /\ guest.ptr[Inter] # 0 THEN {}
  ELSE {u \in Units : guest.enable[<<"TexCoord", u>>] /\ guest.ptr[<<"TexCoord", u>>] \in BadPtr}

PrepSelect(u) ==
  /\ pc = "prep" /\ ~Waiting
  /\ u \in BadUnits /\ \A v \in BadUnits : u <= v
  /\ Say(ActiveCall(u), 0)
  /\ pc' = "disable"
  /\ told' = [told EXCEPT !.unit = Unknown]
  /\ UNCHANGED drawing

PrepDisable ==
  /\ pc = "disable" /\ ~Waiting
  /\ Say(TexStateCall(FALSE), 0)
  /\ pc' = "prep"
  /\ told' = [told EXCEPT !.on = @ \ {TexArray(guest)}]
  /\ UNCHANGED drawing

\* Mutation of Need: the index list is not counted.
NeedNoIndex(c, d) ==
  SumFunction([a \in Pushed(c) |-> ALIGNED(Extent(c.fmt[a], d))]) \div 4

\* The words PrepVertexArray counts.
Need(c, d) ==
  ((IF PushesIndex(c, d) THEN IndexBytes(d) ELSE 0)
     + SumFunction([a \in Pushed(c) |-> ALIGNED(Extent(c.fmt[a], d))])) \div 4

\* Then the queue is carried out if the area is too full.
PrepRoom ==
  /\ pc = "prep" /\ ~Waiting /\ BadUnits = {}
  /\ now' = IF mdata + Need(guest, drawing[1]) >= MaxData THEN <<FlushCall>> ELSE <<>>
  /\ pc' = "push"
  /\ UNCHANGED <<guest, host, cached, queue, mdata, drawing, told>>

\* PushVertexArray and the rest of the draw.
Push ==
  /\ pc = "push" /\ ~Waiting
  /\ Say(DrawCall(drawing[1]), ParcelWords(Parcel(guest, drawing[1])))
  /\ pc' = "app"
  /\ drawing' = <<>>
  /\ UNCHANGED told

-----------------------------------------------------------------------------
(* The device *)

\* Mutation of processArgs: the interleaved array stays enabled.
processArgsKeepsInter(c, call) ==
  CASE call.op = "pointer" -> vtxarry_init(c, call.array, call.fmt, call.ptr)
    [] call.op = "texpointer" -> vtxarry_init(c, TexArray(c), call.fmt, call.ptr)
    [] call.op = "interleaved" ->
         [vtxarry_init(c, Inter, call.fmt, call.ptr) EXCEPT !.enable[Inter] = TRUE]
    [] OTHER -> c

\* Mutation of processArgs: texture pointers are those of the first unit.
processArgsFirstUnit(c, call) ==
  CASE call.op = "pointer" -> vtxarry_init(c, call.array, call.fmt, call.ptr)
    [] call.op = "texpointer" -> vtxarry_init(c, <<"TexCoord", 0>>, call.fmt, call.ptr)
    [] call.op = "interleaved" ->
         [vtxarry_init(c, Inter, call.fmt, call.ptr) EXCEPT !.enable[Inter] = TRUE]
    [] call.op = "draw" -> AfterPush(c, call.draw)
    [] OTHER -> c

\* Before the call: where arrays lie, and the arrays that come with a draw.
processArgs(c, call) ==
  CASE call.op = "pointer" -> vtxarry_init(c, call.array, call.fmt, call.ptr)
    [] call.op = "texpointer" -> vtxarry_init(c, TexArray(c), call.fmt, call.ptr)
    [] call.op = "interleaved" ->
         [vtxarry_init(c, Inter, call.fmt, call.ptr) EXCEPT !.enable[Inter] = TRUE]
    [] call.op = "draw" -> AfterPush(c, call.draw)
    [] OTHER -> c

\* After it: what is bound, selected and enabled.
processFRet(c, call) ==
  CASE call.op = "bind" -> BindBuffer(c, call.target, call.name)
    [] call.op = "delete" -> DeleteBuffer(c, call.name)
    [] call.op = "bindvao" -> BindVertexArray(c, call.name)
    [] call.op = "deletevao" -> DeleteVertexArray(c, call.name)
    [] call.op = "active" -> [c EXCEPT !.texUnit = call.unit]
    [] call.op = "state" -> vtxarry_state(c, call.array, call.on)
    [] call.op = "texstate" -> vtxarry_state(c, TexArray(c), call.on)
    [] call.op = "attrib" -> vtxarry_state(vattr2arry_state(c, call.array), call.array, call.on)
    [] OTHER -> c

\* LookupVertex: without a buffer a pointer stands for a place in the cache.
CachedAfter(call) ==
  LET a == IF call.op = "texpointer" THEN TexArray(host)
           ELSE IF call.op = "interleaved" THEN Inter ELSE call.array
  IN  IF call.op \notin {"pointer", "texpointer", "interleaved"} THEN cached
      ELSE IF host.arrayBuf = 0 \/ call.op = "interleaved" THEN cached \cup {a}
      ELSE cached \ {a}

CarryOut(call) ==
  /\ host' = processFRet(processArgs(host, call), call)
  /\ cached' = CachedAfter(call)

\* One round of processFifo.
DrainOne ==
  /\ Waiting /\ queue # <<>>
  /\ CarryOut(Head(queue))
  /\ queue' = Tail(queue)
  /\ UNCHANGED <<guest, now, mdata, pc, drawing, told>>

\* The call the guest waits in; then the data area is empty again.
CarryOutNow ==
  /\ Waiting /\ queue = <<>>
  /\ CarryOut(Head(now))
  /\ now' = <<>>
  /\ mdata' = FirstData
  /\ UNCHANGED <<guest, queue, pc, drawing, told>>

Guest ==
  \/ \E a \in {b \in Slot : b[1] # "TexCoord" \/ b \in Attribs}, fmt \in Format, ptr \in Ptr :
       glPointer(a, fmt, ptr)
  \/ \E fmt \in Format, ptr \in Ptr :
       Units # {} /\ glTexCoordPointer(fmt, ptr)
  \/ \E fmt \in Format, ptr \in Ptr : glInterleavedArrays(fmt, ptr)
  \/ \E a \in {b \in Slot : b[1] # "TexCoord"}, on \in BOOLEAN : glClientState(a, on)
  \/ \E on \in BOOLEAN : Units # {} /\ glTexCoordState(on)
  \/ \E a \in Attribs, on \in BOOLEAN : glVertexAttribArray(a, on)
  \/ \E unit \in Units : glClientActiveTexture(unit)
  \/ \E target \in {"array", "element"}, name \in Buf \cup {0} : glBindBuffer(target, name)
  \/ \E name \in Buf : glDeleteBuffers(name)
  \/ \E name \in Vao \cup {0} : Vao # {} /\ glBindVertexArray(name)
  \/ \E name \in Vao : glDeleteVertexArrays(name)
  \/ \E d \in Draw : glDraw(d)
  \/ \E u \in Units : PrepSelect(u)
  \/ PrepDisable
  \/ PrepRoom
  \/ Push

Next == Guest \/ DrainOne \/ CarryOutNow

Spec == Init /\ [][Next]_vars

-----------------------------------------------------------------------------
(* Properties *)

Clients ==
  [enable : [Arrays -> BOOLEAN], fmt : [Arrays -> Format \cup {NoFormat}],
   ptr : [Arrays -> Ptr \cup {0}], texUnit : Units \cup {0},
   arrayBuf : Buf \cup Vao \cup {0}, elemArryBuf : Buf \cup Vao \cup {0}, vao : Vao \cup {0}]

IsCall(call) ==
  /\ call.client \in Clients
  /\ CASE call.op = "pointer" -> call.array \in Slot /\ call.fmt \in Format /\ call.ptr \in Ptr
       [] call.op = "texpointer" -> Units # {} /\ call.fmt \in Format /\ call.ptr \in Ptr
       [] call.op = "interleaved" -> call.fmt \in Format /\ call.ptr \in Ptr
       [] call.op = "state" -> call.array \in Slot /\ call.on \in BOOLEAN
       [] call.op = "texstate" -> call.on \in BOOLEAN
       [] call.op = "attrib" -> call.array \in Attribs /\ call.on \in BOOLEAN
       [] call.op = "active" -> call.unit \in Units
       [] call.op = "bind" -> call.target \in {"array", "element"} /\ call.name \in Buf \cup {0}
       [] call.op = "delete" -> call.name \in Buf
       [] call.op = "bindvao" -> call.name \in Vao \cup {0}
       [] call.op = "deletevao" -> call.name \in Vao
       [] call.op = "draw" ->
            /\ call.draw \in Draw /\ call.parcel = Parcel(call.client, call.draw)
            /\ \A a \in DOMAIN call.want : /\ a \in DOMAIN call.parcel.arrays
                                         /\ call.parcel.arrays[a].ptr = call.want[a]
       [] OTHER -> call.op = "flush"

\* The client states are client states, and the calls that wait are calls.
TypeOK ==
  /\ guest \in Clients /\ host \in Clients
  /\ cached \subseteq Arrays
  /\ queue \in Seq({queue[n] : n \in 1..Len(queue)}) /\ Len(queue) <= MaxQueue
  /\ \A n \in 1..Len(queue) : IsCall(queue[n])
  /\ now # <<>> => now = <<now[1]>> /\ IsCall(now[1])
  /\ pc \in {"app", "prep", "disable", "push"}
  /\ IF pc = "app" THEN drawing = <<>> ELSE drawing[1] \in Draw
  /\ told \in [on : SUBSET Slot, at : [Slot -> Ptr \cup {0}], unit : Units \cup {0, Unknown},
              vao : BOOLEAN]

\* The call the device takes next.
NextUp == IF queue # <<>> THEN Head(queue) ELSE Head(now)

TakesDraw == Waiting /\ NextUp.op = "draw"

(* Whenever the device takes a draw, its own client state says what the    *)
(* wrapper sent with it: the same arrays, at the same places, of the same  *)
(* lengths, and an index list or none.  Else it copies one array over      *)
(* another, and processFifo reads every later call's data from the wrong   *)
(* place.                                                                  *)
ArraysAgree == TakesDraw => Parcel(host, NextUp.draw) = NextUp.parcel

(* What the application enabled and pointed to in its own memory arrives:  *)
(* the device copies it with the draw, to the place of the pointer the     *)
(* application gave last, whatever calls for other units, buffers and      *)
(* unreadable arrays lie between.                                          *)
DrawsComplete ==
  TakesDraw =>
    \A a \in DOMAIN NextUp.want :
      LET arrays == Parcel(host, NextUp.draw).arrays IN
      a \in DOMAIN arrays /\ arrays[a].ptr = NextUp.want[a]

(* The device never copies arrays to an address that is an offset into a   *)
(* buffer object: what it copies with a draw goes to its cache.  The calls *)
(* glArrayElement and glLockArraysEXT do not look at the bound buffer, and *)
(* pointers given under a vertex array object stay when it is unbound.     *)
PushesToCache ==
  TakesDraw /\ NextUp.draw.kind \notin {"element", "lock"} /\ ~told.vao =>
    DOMAIN Parcel(host, NextUp.draw).arrays \subseteq cached

(* After PrepVertexArray has looked for room, the arrays and the index     *)
(* list of a draw never run past the data area's limit, however full it    *)
(* was, if they fit into an empty one.                                     *)
RoomForArrays ==
  [][pc = "push" /\ pc' = "app" /\ FirstData + Need(guest, drawing[1]) < MaxData
       => mdata' < MaxData]_vars

-----------------------------------------------------------------------------
(* The inductive invariant: the pending calls lead, one after the other,   *)
(* from the device's client state to the wrapper's.                        *)

After(call) == AfterCall(call.client, call)

Chained ==
  /\ queue # <<>> => queue[1].client = host
  /\ \A n \in 1..(Len(queue) - 1) : queue[n + 1].client = After(queue[n])
  /\ now # <<>> => now[1].client = IF queue = <<>> THEN host ELSE After(queue[Len(queue)])

GuestAhead ==
  guest = IF now # <<>> THEN After(now[1])
          ELSE IF queue # <<>> THEN After(queue[Len(queue)]) ELSE host

\* Until vertex array objects are used, no pending call names one.
NoVao ==
  /\ host.vao = 0
  /\ \A n \in 1..Len(queue) : queue[n].op \notin {"bindvao", "deletevao"}
  /\ now # <<>> => now[1].op \notin {"bindvao", "deletevao"}

\* Without a buffer bound, every pointer the device has is one into its cache.
CacheOnly ==
  /\ host.arrayBuf = 0 => \A a \in Slot : host.ptr[a] # 0 => a \in cached
  /\ host.ptr[Inter] # 0 => Inter \in cached

\* The wrapper has heard what the application said.
Heard ==
  /\ \A a \in told.on : guest.enable[a]
  /\ \A a \in Slot : told.at[a] # 0 => guest.ptr[a] = told.at[a]
  /\ told.unit # Unknown => told.unit = guest.texUnit

IInv == TypeOK /\ Chained /\ GuestAhead /\ Heard /\ (~told.vao => NoVao /\ CacheOnly)

\* The draw the wrapper is in takes arrays along, and before they are sent the
\* area has room for them, is empty, or is about to be.
Prepared ==
  /\ mdata \in Int
  /\ pc # "app" => PushesArrays(guest, drawing[1])
  /\ pc = "push" =>
       \/ now # <<>>
       \/ mdata = FirstData
       \/ mdata + Need(guest, drawing[1]) < MaxData
=============================================================================
