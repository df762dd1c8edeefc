---------------------------- MODULE GlideVertex ----------------------------
(***************************************************************************)
(* The vertex layout of Glide 3.x.  A draw call hands the device whole     *)
(* vertices, and neither the queue nor the data area says how long a       *)
(* vertex is.  The wrapper and the device each keep a table, vlut, of the  *)
(* parameters of a vertex and compute the length from it (vertex3x.h, code *)
(* both sides compile).  The wrapper updates its table when the            *)
(* application changes the layout, the device when it carries the change   *)
(* out, which may be many calls later.                                     *)
(*                                                                         *)
(* The queue is the one of module GlideFifo, reduced to the calls that     *)
(* concern vertices and counted in calls.  The device's table is static:   *)
(* it outlives the guest process, while each process starts with a table   *)
(* of its own.                                                             *)
(***************************************************************************)
EXTENDS Integers, Sequences

CONSTANTS
  Param,         \* vertex parameters the applications use
  Offset,        \* byte offsets they are put at
  MaxQueue,      \* calls that find room in the queue
  ResetsOnExit   \* grGlideShutdown resets the layout: the DOS wrapper, not the Windows DLL

ASSUME OffsetsAreNat == Offset \subseteq Nat
ASSUME ParamsAreNat == Param \subseteq Nat
ASSUME QueueIsNat == MaxQueue \in Nat
ASSUME FlagIsBoolean == ResetsOnExit \in BOOLEAN

GR_PARAM_Q     == 4    \* 0x04
GR_PARAM_A     == 16   \* 0x10
GR_PARAM_RGB   == 32   \* 0x20
GR_PARAM_PARGB == 48   \* 0x30
GR_PARAM_ST0   == 64   \* 0x40

\* GR_PARAM_IDX: the row of a parameter in slen and vlut.
ParamIdx(p) ==
  IF (p % 256) \div 16 = 0 THEN p - 1
  ELSE IF p % 2 = 1 THEN (p \div 16) + 6 ELSE (p \div 16) + GR_PARAM_Q

Rows == 0..11

\* Bytes of the parameter in each row.
slen == [row \in Rows |-> CASE row \in {0, 8, 10} -> 8 [] row = 6 -> 12 [] OTHER -> 4]

NoLayout == [row \in Rows |-> 0]

\* vlut_vvars: the four colours packed replace the separate ones and vice versa.
vlut_vvars(vlut, param, offs, mode) ==
  LET set == [vlut EXCEPT ![ParamIdx(param)] = IF mode = 0 THEN 0 ELSE offs]
  IN  CASE param = GR_PARAM_PARGB ->
             [set EXCEPT ![ParamIdx(GR_PARAM_A)] = 0, ![ParamIdx(GR_PARAM_RGB)] = 0]
        [] param = GR_PARAM_RGB -> [set EXCEPT ![ParamIdx(GR_PARAM_PARGB)] = 0]
        [] OTHER -> set

\* size_vertex3x: up to the end of the last parameter that is present.
size_vertex3x(vlut) ==
  LET ends == {slen[0]} \cup {vlut[row] + slen[row] : row \in {r \in Rows : vlut[r] # 0}}
  IN  CHOOSE n \in ends : \A m \in ends : m <= n

\* Mutation of ALIGNED: rounds down.
AlignedDown(n) == 8 * (n \div 8)

\* ALIGNED: what a vertex takes in the data area.
ALIGNED(n) == 8 * ((n + 7) \div 8)

VARIABLES
  guestVlut,  \* the wrapper's vlut
  hostVlut,   \* the device's vlut
  queue,      \* the calls queued, oldest first
  now,        \* immediate calls the guest waits in, one after the other
  alive,      \* a guest process is attached
  glide,      \* the layout the host's Glide library reads vertices with
  saved,      \* layouts kept by grGlideGetVertexLayout, or NoLayout
  restored    \* history: glide comes from grGlideSetVertexLayout

vars == <<guestVlut, hostVlut, queue, now, alive, glide, saved, restored>>

\* A call; "layout" is history, the wrapper's table when the call was made.
LayoutCall(p, offs, mode) ==
  [op |-> "layout", param |-> p, offs |-> offs, mode |-> mode, layout |-> guestVlut]
DrawCall == [op |-> "draw", bytes |-> ALIGNED(size_vertex3x(guestVlut)), layout |-> guestVlut]
PlainCall(op, vlut) == [op |-> op, layout |-> vlut]

-----------------------------------------------------------------------------
(* The wrapper *)

Init ==
  /\ guestVlut = NoLayout
  /\ hostVlut = NoLayout
  /\ queue = <<>>
  /\ now = <<>>
  /\ alive = FALSE
  /\ glide = NoLayout
  /\ saved = NoLayout
  /\ restored = FALSE

\* A process loads the wrapper; InitGlidePTMMBase empties the queue.
Attach ==
  /\ ~alive
  /\ alive' = TRUE
  /\ guestVlut' = NoLayout
  /\ queue' = <<>>
  /\ UNCHANGED <<hostVlut, now, glide, saved, restored>>

Running == alive /\ now = <<>>

\* Mutation of Queued: one call too many.
QueuedOneMore(call) ==
  IF Len(queue) <= MaxQueue
  THEN queue' = Append(queue, call) /\ UNCHANGED now
  ELSE now' = <<call>> /\ UNCHANGED queue

\* FIFO_GRFUNC.
Queued(call) ==
  IF Len(queue) < MaxQueue
  THEN queue' = Append(queue, call) /\ UNCHANGED now
  ELSE now' = <<call>> /\ UNCHANGED queue

\* The wrapper's table is changed when the call has been queued or is back.
grVertexLayout(p, offs, mode) ==
  /\ Running
  /\ Queued(LayoutCall(p, offs, mode))
  /\ guestVlut' = vlut_vvars(guestVlut, p, offs, mode)
  /\ UNCHANGED <<hostVlut, alive, glide, saved, restored>>

\* Mutation of grDraw: the vertices are not padded.
grDrawUnpadded ==
  /\ Running
  /\ Queued([DrawCall EXCEPT !.bytes = size_vertex3x(guestVlut)])
  /\ UNCHANGED <<guestVlut, hostVlut, alive, glide, saved, restored>>

\* grDrawPoint and the other calls that pass vertices.
grDraw ==
  /\ Running
  /\ Queued(DrawCall)
  /\ UNCHANGED <<guestVlut, hostVlut, alive, glide, saved, restored>>

\* Mutation of grReset: the wrapper queues the call.
grResetQueued ==
  /\ Running
  /\ Queued(PlainCall("reset", guestVlut))
  /\ UNCHANGED <<guestVlut, hostVlut, alive, glide, saved, restored>>

\* grReset(GR_VERTEX_PARAMETER).
grReset ==
  /\ Running
  /\ now' = <<PlainCall("reset", guestVlut)>>
  /\ UNCHANGED <<guestVlut, hostVlut, queue, alive, glide, saved, restored>>

grGlideGetVertexLayout ==
  /\ Running
  /\ now' = <<PlainCall("save", guestVlut)>>
  /\ UNCHANGED <<guestVlut, hostVlut, queue, alive, glide, saved, restored>>

grGlideSetVertexLayout ==
  /\ Running /\ saved # NoLayout
  /\ now' = <<PlainCall("restore", guestVlut)>>
  /\ UNCHANGED <<guestVlut, hostVlut, queue, alive, glide, saved, restored>>

\* The process ends; a wrapper that is unloaded shuts Glide down.
grGlideShutdown ==
  /\ Running
  /\ now' = IF ResetsOnExit
            THEN <<PlainCall("reset", guestVlut), PlainCall("shutdown", NoLayout)>>
            ELSE <<PlainCall("shutdown", guestVlut)>>
  /\ UNCHANGED <<guestVlut, hostVlut, queue, alive, glide, saved, restored>>

-----------------------------------------------------------------------------
(* The device *)

\* Mutation of HostEffect: grReset leaves the table.
HostEffectNoReset(call) ==
  hostVlut' = CASE call.op = "layout" -> vlut_vvars(hostVlut, call.param, call.offs, call.mode)
                [] OTHER -> hostVlut

\* What processFRet does to the device's table.
HostEffect(call) ==
  hostVlut' = CASE call.op = "layout" -> vlut_vvars(hostVlut, call.param, call.offs, call.mode)
                [] call.op = "reset" -> NoLayout
                [] OTHER -> hostVlut

\* What the call does in the Glide library; its buffers go at the shutdown.
GlideEffect(call) ==
  /\ glide' = CASE call.op = "layout" -> vlut_vvars(glide, call.param, call.offs, call.mode)
                [] call.op \in {"reset", "shutdown"} -> NoLayout
                [] call.op = "restore" -> saved
                [] OTHER -> glide
  /\ saved' = CASE call.op = "save" -> glide
                [] call.op = "shutdown" -> NoLayout
                [] OTHER -> saved
  /\ restored' = (call.op = "restore" \/ (restored /\ call.op \notin {"reset", "shutdown"}))

\* One round of processFifo.
DrainOne ==
  /\ now # <<>>
  /\ queue # <<>>
  /\ HostEffect(Head(queue))
  /\ GlideEffect(Head(queue))
  /\ queue' = Tail(queue)
  /\ UNCHANGED <<guestVlut, now, alive>>

\* The immediate call; back in the guest, grReset clears the wrapper's table.
CarryOut ==
  /\ now # <<>>
  /\ queue = <<>>
  /\ HostEffect(Head(now))
  /\ GlideEffect(Head(now))
  /\ guestVlut' = IF Head(now).op = "reset" THEN NoLayout ELSE guestVlut
  /\ alive' = (Head(now).op # "shutdown")
  /\ now' = Tail(now)
  /\ UNCHANGED queue

Guest ==
  \/ Attach
  \/ \E p \in Param, offs \in Offset, mode \in {0, 1} : grVertexLayout(p, offs, mode)
  \/ grDraw
  \/ grReset
  \/ grGlideGetVertexLayout
  \/ grGlideSetVertexLayout
  \/ grGlideShutdown

Next == Guest \/ DrainOne \/ CarryOut

Spec == Init /\ [][Next]_vars

-----------------------------------------------------------------------------
(* Properties *)

Tables == [Rows -> Offset \cup {0}]

Calls ==
  [op : {"layout"}, param : Param, offs : Offset, mode : {0, 1}, layout : Tables]
    \cup [op : {"draw"}, bytes : Int, layout : Tables]
    \cup [op : {"reset", "save", "restore", "shutdown"}, layout : Tables]

\* The tables are tables, and the calls that wait are calls.
TypeOK ==
  /\ guestVlut \in Tables /\ hostVlut \in Tables /\ glide \in Tables /\ saved \in Tables
  /\ queue \in Seq(Calls) /\ Len(queue) <= MaxQueue
  /\ now \in Seq(Calls)
  /\ alive \in BOOLEAN /\ restored \in BOOLEAN

\* The call the device takes next.
NextUp == IF queue # <<>> THEN Head(queue) ELSE Head(now)

(* Whenever the device takes a draw call, its own table gives vertices of  *)
(* the length at which the wrapper stored them, however many calls of      *)
(* grVertexLayout and grReset lie between the storing and the taking: else *)
(* processFifo reads every later call's data from the wrong place.         *)
VertexSizesAgree ==
  now # <<>> /\ NextUp.op = "draw" => ALIGNED(size_vertex3x(hostVlut)) = NextUp.bytes

(* The Glide library never reads past the end of a vertex the wrapper      *)
(* stored: the layout it draws with is not longer than the one the wrapper *)
(* measured.  So an application expects, whatever it did to the layout.    *)
LayoutCovered ==
  now # <<>> /\ NextUp.op = "draw" => size_vertex3x(glide) <= NextUp.bytes

\* So it is as long as the layout was not restored from a saved one.
CoveredUnlessRestored == ~restored => LayoutCovered

-----------------------------------------------------------------------------
(* The inductive invariant, for a wrapper that resets the layout when it   *)
(* goes: the pending calls lead, one after the other, from the device's    *)
(* table to the wrapper's.                                                 *)

\* The wrapper's table after a call.
AfterCall(call) ==
  CASE call.op = "layout" -> vlut_vvars(call.layout, call.param, call.offs, call.mode)
    [] call.op = "reset" -> NoLayout
    [] OTHER -> call.layout

\* Every pending call starts from the table the one before it leaves, the first
\* from the device's.
Chained ==
  /\ queue # <<>> => queue[1].layout = hostVlut
  /\ \A n \in 1..(Len(queue) - 1) : queue[n + 1].layout = AfterCall(queue[n])
  /\ now # <<>> => now[1].layout = IF queue = <<>> THEN hostVlut
                                   ELSE AfterCall(queue[Len(queue)])
  /\ Len(now) = 2 => now[2].layout = AfterCall(now[1])

\* A draw call that waits has the vertex size of its table.
Sized(call) == call.op = "draw" => call.bytes = ALIGNED(size_vertex3x(call.layout))

DrawsSized ==
  /\ \A n \in 1..Len(queue) : Sized(queue[n])
  /\ \A n \in 1..Len(now) : Sized(now[n])

\* The wrapper's table is where the pending calls lead.
GuestAhead ==
  /\ now = <<>> => guestVlut = IF queue = <<>> THEN hostVlut ELSE AfterCall(queue[Len(queue)])
  /\ now # <<>> /\ Head(now).op # "reset" =>
       guestVlut = AfterCall(Head(now))

\* Only a process that ends makes more than one immediate call.
Immediate ==
  /\ Len(now) <= 2
  /\ Len(now) = 2 => now[1].op = "reset" /\ now[2].op = "shutdown"
  /\ Len(now) = 1 /\ now[1].op = "shutdown" => now[1].layout = NoLayout
  /\ \A n \in 1..Len(queue) : queue[n].op \in {"layout", "draw"}

\* Between processes nothing is pending and both tables are empty.
Quiet ==
  ~alive => queue = <<>> /\ now = <<>> /\ hostVlut = NoLayout /\ guestVlut = NoLayout

\* The Glide library follows the same calls, until it restores a layout.
Follows ==
  ~restored => glide = hostVlut

IInv == TypeOK /\ Follows /\ Chained /\ DrawsSized /\ GuestAhead /\ Immediate /\ Quiet
=============================================================================
