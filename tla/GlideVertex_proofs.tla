------------------------ MODULE GlideVertex_proofs ------------------------
(***************************************************************************)
(* Proofs about the two vertex tables of module GlideVertex, for any set   *)
(* of parameters and offsets, any length of the queue and any number of    *)
(* guest processes, provided each of them resets the layout as it goes.    *)
(***************************************************************************)
EXTENDS GlideVertex, SequenceTheorems, TLAPS

USE DEF Rows

LEMMA NoLayoutIsTable == NoLayout \in Tables
  BY DEF NoLayout, Tables

\* vlut_vvars makes a table of a table, whatever the row it touches.
LEMMA StillTable ==
  ASSUME NEW v \in Tables, NEW p \in Param, NEW o \in Offset, NEW mode \in {0, 1}
  PROVE  vlut_vvars(v, p, o, mode) \in Tables
  <1> DEFINE set == [v EXCEPT ![ParamIdx(p)] = IF mode = 0 THEN 0 ELSE o]
  <1>1. set \in Tables
    BY DEF Tables
  <1>2. [set EXCEPT ![ParamIdx(GR_PARAM_A)] = 0, ![ParamIdx(GR_PARAM_RGB)] = 0] \in Tables
    BY <1>1 DEF Tables
  <1>3. [set EXCEPT ![ParamIdx(GR_PARAM_PARGB)] = 0] \in Tables
    BY <1>1 DEF Tables
  <1> QED BY <1>1, <1>2, <1>3 DEF vlut_vvars

LEMMA AfterCallIsTable ==
  ASSUME NEW call \in Calls
  PROVE  AfterCall(call) \in Tables
  BY NoLayoutIsTable, StillTable DEF AfterCall, Calls

-----------------------------------------------------------------------------
(* size_vertex3x chooses the greatest of the ends of the parameters that   *)
(* are present: there is one, because the table has twelve rows.           *)

HasMax(S) == S \subseteq Int /\ \E n \in S : \A m \in S : m <= n

\* The ends of the parameters in the first k rows.
EndsBelow(vlut, k) ==
  {slen[0]} \cup {vlut[row] + slen[row] : row \in {r \in Rows : r < k /\ vlut[r] # 0}}

LEMMA SlenIsInt == \A row \in Rows : slen[row] \in Int
  BY DEF slen

LEMMA TableIsInt == \A v \in Tables : \A row \in Rows : v[row] \in Int
  <1> SUFFICES ASSUME NEW v \in Tables, NEW row \in Rows PROVE v[row] \in Int
    OBVIOUS
  <1>1. v[row] \in Offset \cup {0}
    BY DEF Tables
  <1>2. \A offs \in Offset \cup {0} : offs \in Int
    BY OffsetsAreNat
  <1> QED BY <1>1, <1>2

LEMMA MaxWithOneMore ==
  ASSUME NEW S, NEW x \in Int, HasMax(S)
  PROVE  HasMax(S \cup {x})
  <1>1. PICK n \in S : \A m \in S : m <= n
    BY DEF HasMax
  <1>2. n \in Int /\ S \subseteq Int
    BY DEF HasMax
  <1>3. CASE x <= n
    BY <1>1, <1>2, <1>3 DEF HasMax
  <1>4. CASE n <= x
    BY <1>1, <1>2, <1>4 DEF HasMax
  <1> QED BY <1>2, <1>3, <1>4

LEMMA OneMoreRow ==
  ASSUME NEW v \in Tables, NEW k \in Rows, HasMax(EndsBelow(v, k))
  PROVE  HasMax(EndsBelow(v, k + 1))
  <1>1. v[k] + slen[k] \in Int
    BY SlenIsInt, TableIsInt
  <1>2. EndsBelow(v, k + 1) = IF v[k] = 0 THEN EndsBelow(v, k)
                              ELSE EndsBelow(v, k) \cup {v[k] + slen[k]}
    BY DEF EndsBelow
  <1> QED BY <1>1, <1>2, MaxWithOneMore

LEMMA SizeIsMax ==
  ASSUME NEW v \in Tables
  PROVE  /\ size_vertex3x(v) \in Int
         /\ size_vertex3x(v) <= ALIGNED(size_vertex3x(v))
         /\ ALIGNED(size_vertex3x(v)) \in Int
  <1>0. HasMax(EndsBelow(v, 0))
    BY SlenIsInt DEF EndsBelow, HasMax
  <1>1. HasMax(EndsBelow(v, 1))
    BY <1>0, OneMoreRow
  <1>2. HasMax(EndsBelow(v, 2))
    BY <1>1, OneMoreRow
  <1>3. HasMax(EndsBelow(v, 3))
    BY <1>2, OneMoreRow
  <1>4. HasMax(EndsBelow(v, 4))
    BY <1>3, OneMoreRow
  <1>5. HasMax(EndsBelow(v, 5))
    BY <1>4, OneMoreRow
  <1>6. HasMax(EndsBelow(v, 6))
    BY <1>5, OneMoreRow
  <1>7. HasMax(EndsBelow(v, 7))
    BY <1>6, OneMoreRow
  <1>8. HasMax(EndsBelow(v, 8))
    BY <1>7, OneMoreRow
  <1>9. HasMax(EndsBelow(v, 9))
    BY <1>8, OneMoreRow
  <1>10. HasMax(EndsBelow(v, 10))
    BY <1>9, OneMoreRow
  <1>11. HasMax(EndsBelow(v, 11))
    BY <1>10, OneMoreRow
  <1>12. HasMax(EndsBelow(v, 12))
    BY <1>11, OneMoreRow
  <1> DEFINE ends == {slen[0]} \cup {v[row] + slen[row] : row \in {r \in Rows : v[r] # 0}}
  <1>13. EndsBelow(v, 12) = ends
    BY DEF EndsBelow
  <1>14. size_vertex3x(v) \in ends /\ ends \subseteq Int
    BY <1>12, <1>13 DEF HasMax, size_vertex3x
  <1>15. \A n \in Int : ALIGNED(n) \in Int /\ n <= ALIGNED(n)
    BY DEF ALIGNED
  <1> QED BY <1>14, <1>15

-----------------------------------------------------------------------------
(* The calls the wrapper makes are calls.                                  *)

LEMMA NewCalls ==
  ASSUME guestVlut \in Tables
  PROVE  /\ \A p \in Param, o \in Offset, mode \in {0, 1} : LayoutCall(p, o, mode) \in Calls
         /\ DrawCall \in Calls
         /\ \A op \in {"reset", "save", "restore", "shutdown"} :
              PlainCall(op, guestVlut) \in Calls /\ PlainCall(op, NoLayout) \in Calls
  BY NoLayoutIsTable, SizeIsMax DEF LayoutCall, DrawCall, PlainCall, Calls

-----------------------------------------------------------------------------
(* The invariant, action by action.                                        *)

LEMMA InitInv == Init => IInv
  <1> SUFFICES ASSUME Init PROVE IInv
    OBVIOUS
  <1>1. TypeOK
    <2>1. 0 <= MaxQueue
      BY QueueIsNat
    <2>2. queue \in Seq(Calls) /\ Len(queue) = 0 /\ now \in Seq(Calls)
      BY DEF Init
    <2> QED BY <2>1, <2>2, NoLayoutIsTable DEF Init, TypeOK
  <1>2. Follows /\ Chained /\ GuestAhead /\ Immediate /\ Quiet
    BY DEF Init, Follows, Chained, GuestAhead, Immediate, Quiet
  <1>3. DrawsSized
    BY DEF Init, DrawsSized
  <1> QED BY <1>1, <1>2, <1>3 DEF IInv

LEMMA AttachInv == IInv /\ Attach => IInv'
  <1> SUFFICES ASSUME IInv, Attach PROVE IInv'
    OBVIOUS
  <1>1. TypeOK'
    <2>1. 0 <= MaxQueue
      BY QueueIsNat
    <2> QED BY <2>1, NoLayoutIsTable DEF IInv, TypeOK, Attach
  <1>2. now' = <<>> /\ queue' = <<>> /\ guestVlut' = hostVlut' /\ alive'
    BY DEF IInv, Attach, Quiet
  <1>3. Follows'
    BY <1>2 DEF IInv, Follows, Attach
  <1> QED
    BY <1>1, <1>2, <1>3
    DEF IInv, Chained, DrawsSized, Sized, GuestAhead, Immediate, Quiet

\* A call joins the queue, or is made at once.
LEMMA QueuedInv ==
  ASSUME IInv, Running, NEW call \in Calls, Queued(call),
         call.op \in {"layout", "draw"}, call.layout = guestVlut, Sized(call),
         guestVlut' = AfterCall(call), UNCHANGED <<hostVlut, alive, glide, saved, restored>>
  PROVE  IInv'
  <1> USE DEF Running
  <1>0. /\ now = <<>> /\ alive /\ queue \in Seq(Calls) /\ Len(queue) \in Nat
        /\ AfterCall(call) \in Tables
        /\ guestVlut = IF queue = <<>> THEN hostVlut ELSE AfterCall(queue[Len(queue)])
    BY AfterCallIsTable DEF IInv, TypeOK, GuestAhead
  <1>1. CASE queue' = Append(queue, call) /\ Len(queue) < MaxQueue /\ now' = now
    <2>1. /\ queue' \in Seq(Calls) /\ Len(queue') = Len(queue) + 1
          /\ queue'[Len(queue) + 1] = call
          /\ \A n \in 1..Len(queue) : queue'[n] = queue[n]
      BY <1>0, <1>1
    <2>2. TypeOK'
      BY <1>0, <1>1, <2>1, QueueIsNat DEF IInv, TypeOK
    <2>3. Chained'
      <3>1. queue'[1].layout = hostVlut'
        BY <1>0, <2>1 DEF IInv, Chained
      <3>2. ASSUME NEW n \in 1..(Len(queue') - 1)
            PROVE  queue'[n + 1].layout = AfterCall(queue'[n])
        <4>1. CASE n = Len(queue)
          BY <4>1, <1>0, <2>1
        <4>2. CASE n < Len(queue)
          BY <4>2, <1>0, <2>1 DEF IInv, Chained
        <4> QED BY <4>1, <4>2, <2>1, <1>0
      <3> QED BY <3>1, <3>2, <1>0, <1>1 DEF Chained
    <2>4. DrawsSized'
      BY <1>0, <1>1, <2>1 DEF IInv, DrawsSized
    <2>5. GuestAhead' /\ Immediate' /\ Quiet' /\ Follows'
      BY <1>0, <1>1, <2>1 DEF IInv, GuestAhead, Immediate, Quiet, Follows
    <2> QED BY <2>2, <2>3, <2>4, <2>5 DEF IInv
  <1>2. CASE now' = <<call>> /\ queue' = queue
    <2>1. now' \in Seq(Calls) /\ Len(now') = 1 /\ now'[1] = call /\ Head(now') = call
      BY <1>2
    <2>2. TypeOK'
      BY <1>0, <1>2, <2>1 DEF IInv, TypeOK
    <2>3. Chained'
      BY <1>0, <1>2, <2>1 DEF IInv, Chained
    <2>4. DrawsSized'
      BY <1>0, <1>2, <2>1 DEF IInv, DrawsSized
    <2>5. GuestAhead' /\ Immediate' /\ Quiet' /\ Follows'
      BY <1>0, <1>2, <2>1 DEF IInv, GuestAhead, Immediate, Quiet, Follows
    <2> QED BY <2>2, <2>3, <2>4, <2>5 DEF IInv
  <1> QED BY <1>1, <1>2 DEF Queued

LEMMA LayoutInv ==
  ASSUME IInv, NEW p \in Param, NEW offs \in Offset, NEW mode \in {0, 1},
         grVertexLayout(p, offs, mode)
  PROVE  IInv'
  <1> DEFINE call == LayoutCall(p, offs, mode)
  <1>1. guestVlut \in Tables
    BY DEF IInv, TypeOK
  <1>2. call \in Calls
    BY <1>1, NewCalls
  <1>3. /\ Running /\ Queued(call)
        /\ guestVlut' = AfterCall(call) /\ UNCHANGED <<hostVlut, alive, glide, saved, restored>>
    BY DEF grVertexLayout, AfterCall, LayoutCall
  <1>4. call.op = "layout" /\ call.layout = guestVlut /\ Sized(call)
    BY DEF LayoutCall, Sized
  <1> HIDE DEF call
  <1> QED BY <1>2, <1>3, <1>4, QueuedInv

LEMMA DrawInv ==
  ASSUME IInv, grDraw
  PROVE  IInv'
  <1>1. guestVlut \in Tables
    BY DEF IInv, TypeOK
  <1>2. DrawCall \in Calls
    BY <1>1, NewCalls
  <1>3. /\ Running /\ Queued(DrawCall)
        /\ guestVlut' = AfterCall(DrawCall) /\ UNCHANGED <<hostVlut, alive, glide, saved, restored>>
    BY DEF grDraw, AfterCall, DrawCall
  <1>4. DrawCall.op = "draw" /\ DrawCall.layout = guestVlut /\ Sized(DrawCall)
    BY DEF DrawCall, Sized
  <1> QED BY <1>2, <1>3, <1>4, QueuedInv

\* One immediate call other than a shutdown.
LEMMA AtOnceInv ==
  ASSUME IInv, Running, NEW op \in {"reset", "save", "restore"},
         now' = <<PlainCall(op, guestVlut)>>,
         UNCHANGED <<guestVlut, hostVlut, queue, alive, glide, saved, restored>>
  PROVE  IInv'
  <1> DEFINE call == PlainCall(op, guestVlut)
  <1>0. /\ now = <<>> /\ alive /\ guestVlut \in Tables
        /\ guestVlut = IF queue = <<>> THEN hostVlut ELSE AfterCall(queue[Len(queue)])
    BY DEF IInv, TypeOK, GuestAhead, Running
  <1>1. call \in Calls /\ call.op = op /\ call.layout = guestVlut
    BY <1>0, NewCalls DEF PlainCall
  <1>2. now' = <<call>>
    OBVIOUS
  <1> HIDE DEF call
  <1>3. now' \in Seq(Calls) /\ Len(now') = 1 /\ now'[1] = call /\ Head(now') = call
    BY <1>1, <1>2
  <1>4. TypeOK'
    BY <1>3 DEF IInv, TypeOK
  <1>5. Chained'
    BY <1>0, <1>1, <1>3 DEF IInv, Chained
  <1>6. DrawsSized'
    BY <1>1, <1>3 DEF IInv, DrawsSized, Sized
  <1>7. GuestAhead'
    BY <1>1, <1>2, <1>3 DEF GuestAhead, AfterCall
  <1>8. Immediate' /\ Quiet' /\ Follows'
    BY <1>0, <1>1, <1>3 DEF IInv, Immediate, Quiet, Follows
  <1> QED BY <1>4, <1>5, <1>6, <1>7, <1>8 DEF IInv

LEMMA ShutdownInv ==
  ASSUME ResetsOnExit, IInv, grGlideShutdown
  PROVE  IInv'
  <1> DEFINE reset == PlainCall("reset", guestVlut)
             stop == PlainCall("shutdown", NoLayout)
  <1>0. /\ now = <<>> /\ alive /\ guestVlut \in Tables
        /\ guestVlut = IF queue = <<>> THEN hostVlut ELSE AfterCall(queue[Len(queue)])
        /\ UNCHANGED <<guestVlut, hostVlut, queue, alive, glide, saved, restored>>
    BY DEF IInv, TypeOK, GuestAhead, Running, grGlideShutdown
  <1>1. /\ reset \in Calls /\ reset.op = "reset" /\ reset.layout = guestVlut
        /\ stop \in Calls /\ stop.op = "shutdown" /\ stop.layout = NoLayout
        /\ AfterCall(reset) = NoLayout
    BY <1>0, NewCalls DEF PlainCall, AfterCall
  <1>2. now' = <<reset, stop>>
    BY DEF grGlideShutdown
  <1> HIDE DEF reset, stop
  <1>3. /\ now' \in Seq(Calls) /\ Len(now') = 2 /\ now'[1] = reset /\ now'[2] = stop
        /\ Head(now') = reset /\ now' # <<>>
    BY <1>1, <1>2
  <1>4. TypeOK'
    BY <1>0, <1>3 DEF IInv, TypeOK
  <1>5. Chained'
    BY <1>0, <1>1, <1>3 DEF IInv, Chained
  <1>6. DrawsSized'
    BY <1>0, <1>1, <1>3 DEF IInv, DrawsSized, Sized
  <1>7. GuestAhead'
    BY <1>1, <1>3 DEF GuestAhead
  <1>8. Immediate' /\ Quiet' /\ Follows'
    BY <1>0, <1>1, <1>3 DEF IInv, Immediate, Quiet, Follows
  <1> QED BY <1>4, <1>5, <1>6, <1>7, <1>8 DEF IInv

\* The device's table follows the call it takes; the Glide library too.
LEMMA Effects ==
  ASSUME TypeOK, NEW call \in Calls, call.layout = hostVlut,
         HostEffect(call), GlideEffect(call)
  PROVE  /\ hostVlut' = AfterCall(call)
         /\ glide' \in Tables /\ saved' \in Tables
         /\ restored' \in BOOLEAN
         /\ (~restored => glide = hostVlut) /\ call.op # "shutdown" =>
              (~restored' => glide' = hostVlut')
  <1>1. hostVlut' = AfterCall(call)
    BY DEF HostEffect, AfterCall
  <1>2. call.op = "layout" => vlut_vvars(glide, call.param, call.offs, call.mode) \in Tables
    BY StillTable DEF Calls, TypeOK
  <1>3. glide' \in Tables /\ saved' \in Tables
    BY <1>2, NoLayoutIsTable DEF GlideEffect, TypeOK
  <1>4. restored' \in BOOLEAN
    BY DEF GlideEffect
  <1>5. (~restored => glide = hostVlut) /\ call.op # "shutdown" =>
          (~restored' => glide' = hostVlut')
    BY DEF HostEffect, GlideEffect
  <1> QED BY <1>1, <1>3, <1>4, <1>5

LEMMA TakingOne ==
  ASSUME NEW s \in Seq(Calls), s # <<>>
  PROVE  /\ Len(s) \in Nat /\ Len(s) >= 1
         /\ Head(s) = s[1] /\ s[1] \in Calls
         /\ Tail(s) \in Seq(Calls) /\ Len(Tail(s)) = Len(s) - 1
         /\ \A n \in 1..(Len(s) - 1) : Tail(s)[n] = s[n + 1]
         /\ Tail(s) = <<>> <=> Len(s) = 1
  <1>1. /\ Len(s) \in Nat /\ Len(s) >= 1 /\ Head(s) = s[1] /\ s[1] \in Calls
    OBVIOUS
  <1>2. Tail(s) \in Seq(Calls) /\ Len(Tail(s)) = Len(s) - 1
    BY <1>1
  <1>3. \A n \in 1..(Len(s) - 1) : Tail(s)[n] = s[n + 1]
    BY <1>1
  <1>4. Tail(s) = <<>> <=> Len(Tail(s)) = 0
    BY <1>2, EmptySeq
  <1> QED BY <1>1, <1>2, <1>3, <1>4

LEMMA DrainOneInv ==
  ASSUME IInv, DrainOne
  PROVE  IInv'
  <1> DEFINE call == Head(queue)
  <1>0. /\ queue \in Seq(Calls) /\ queue # <<>> /\ queue' = Tail(queue)
        /\ now \in Seq(Calls) /\ now # <<>> /\ UNCHANGED <<guestVlut, now, alive>>
    BY DEF IInv, TypeOK, DrainOne
  <1>1. /\ queue \in Seq(Calls) /\ queue # <<>> /\ Len(queue) \in Nat /\ Len(queue) >= 1
        /\ call = queue[1] /\ call \in Calls
        /\ now \in Seq(Calls) /\ now # <<>> /\ UNCHANGED <<guestVlut, now, alive>>
    BY <1>0, TakingOne
  <1>2. /\ queue' \in Seq(Calls) /\ Len(queue') = Len(queue) - 1
        /\ \A n \in 1..(Len(queue) - 1) : queue'[n] = queue[n + 1]
        /\ queue' = <<>> <=> Len(queue) = 1
    BY <1>0, TakingOne
  <1>3. call.layout = hostVlut /\ call.op \in {"layout", "draw"}
    BY <1>1 DEF IInv, Chained, Immediate
  <1>4. HostEffect(call) /\ GlideEffect(call)
    BY DEF DrainOne
  <1>5. /\ hostVlut' = AfterCall(call) /\ AfterCall(call) \in Tables
        /\ glide' \in Tables /\ saved' \in Tables
        /\ restored' \in BOOLEAN
        /\ ~restored' => glide' = hostVlut'
    BY <1>1, <1>3, <1>4, Effects, AfterCallIsTable DEF IInv, Follows
  <1> HIDE DEF call
  <1>6. TypeOK'
    BY <1>1, <1>2, <1>5, QueueIsNat DEF IInv, TypeOK
  <1>7. Chained'
    <2>1. queue' # <<>> => queue'[1].layout = hostVlut'
      <3>1. SUFFICES ASSUME Len(queue) > 1 PROVE queue'[1].layout = hostVlut'
        BY <1>1, <1>2
      <3>2. queue'[1] = queue[2] /\ queue[2].layout = AfterCall(queue[1])
        BY <3>1, <1>1, <1>2 DEF IInv, Chained
      <3> QED BY <3>2, <1>1, <1>5
    <2>2. ASSUME NEW n \in 1..(Len(queue') - 1)
          PROVE  queue'[n + 1].layout = AfterCall(queue'[n])
      <3>1. queue'[n] = queue[n + 1] /\ queue'[n + 1] = queue[(n + 1) + 1]
        BY <1>1, <1>2
      <3>2. n + 1 \in 1..(Len(queue) - 1)
        BY <1>1, <1>2
      <3>3. queue[(n + 1) + 1].layout = AfterCall(queue[n + 1])
        BY <3>2 DEF IInv, Chained
      <3> QED BY <3>1, <3>3
    <2>3. now'[1].layout = IF queue' = <<>> THEN hostVlut' ELSE AfterCall(queue'[Len(queue')])
      <3>1. now[1].layout = AfterCall(queue[Len(queue)])
        BY <1>1 DEF IInv, Chained
      <3>2. CASE Len(queue) = 1
        <4>1. queue' = <<>> /\ queue[Len(queue)] = call
          BY <3>2, <1>1, <1>2
        <4>2. now[1].layout = AfterCall(call)
          BY <3>1, <4>1
        <4>3. now' = now
          BY <1>1
        <4> QED BY <4>1, <4>2, <4>3, <1>5
      <3>3. CASE Len(queue) > 1
        <4>1. queue'[Len(queue')] = queue[Len(queue)]
          <5>1. Len(queue') \in 1..(Len(queue) - 1)
            BY <3>3, <1>1, <1>2
          <5>2. queue'[Len(queue')] = queue[Len(queue') + 1]
            BY <5>1, <1>2
          <5> QED BY <5>2, <1>1, <1>2
        <4>2. queue' # <<>>
          BY <3>3, <1>1, <1>2
        <4>3. now' = now
          BY <1>1
        <4> QED BY <4>1, <4>2, <4>3, <3>1
      <3>4. Len(queue) = 1 \/ Len(queue) > 1
        <4>1. \A n \in Nat : n >= 1 => n = 1 \/ n > 1
          OBVIOUS
        <4> QED BY <4>1, <1>1
      <3> QED BY <3>2, <3>3, <3>4
    <2>4. Len(now') = 2 => now'[2].layout = AfterCall(now'[1])
      BY <1>1 DEF IInv, Chained
    <2> QED BY <2>1, <2>2, <2>3, <2>4 DEF Chained
  <1>8. DrawsSized'
    BY <1>1, <1>2 DEF IInv, DrawsSized, Sized
  <1>9. GuestAhead' /\ Quiet' /\ Follows'
    BY <1>1, <1>5 DEF IInv, GuestAhead, Quiet, Follows
  <1>10. Immediate'
    <2>1. \A n \in 1..Len(queue') : n + 1 \in 1..Len(queue) /\ queue'[n] = queue[n + 1]
      BY <1>1, <1>2
    <2>2. \A n \in 1..Len(queue') : queue'[n].op \in {"layout", "draw"}
      BY <2>1 DEF IInv, Immediate
    <2> QED BY <2>2, <1>1 DEF IInv, Immediate
  <1> QED BY <1>6, <1>7, <1>8, <1>9, <1>10 DEF IInv

\* With nothing pending the tables agree and all is well.
LEMMA EmptyInv ==
  ASSUME TypeOK', now' = <<>>, queue' = <<>>, guestVlut' = hostVlut',
         ~restored' => glide' = hostVlut', ~alive' => hostVlut' = NoLayout
  PROVE  IInv'
  <1>1. Len(now') = 0 /\ Len(queue') = 0
    OBVIOUS
  <1>2. Follows' /\ Chained' /\ GuestAhead' /\ Immediate' /\ Quiet'
    BY <1>1 DEF Follows, Chained, GuestAhead, Immediate, Quiet
  <1>3. DrawsSized'
    BY <1>1 DEF DrawsSized
  <1> QED BY <1>2, <1>3 DEF IInv

LEMMA CarryOutInv ==
  ASSUME IInv, CarryOut
  PROVE  IInv'
  <1> DEFINE call == Head(now)
  <1>0. /\ now \in Seq(Calls) /\ now # <<>> /\ now' = Tail(now) /\ Len(now) <= 2
        /\ queue = <<>> /\ queue' = <<>> /\ alive
    BY DEF IInv, TypeOK, CarryOut, Immediate, Quiet
  <1>1. /\ now # <<>> /\ Len(now) \in {1, 2}
        /\ call = now[1] /\ call \in Calls
        /\ queue = <<>> /\ queue' = <<>> /\ alive
    <2>1. now[1] \in Calls /\ call = now[1] /\ Len(now) \in Nat /\ Len(now) >= 1
      BY <1>0, TakingOne
    <2>2. Len(now) = 1 \/ Len(now) = 2
      <3>1. \A n \in Nat : n >= 1 /\ n <= 2 => n = 1 \/ n = 2
        OBVIOUS
      <3> QED BY <1>0, <2>1, <3>1
    <2> QED BY <1>0, <2>1, <2>2
  <1>2. now' \in Seq(Calls) /\ Len(now') = Len(now) - 1 /\ (Len(now) = 1 => now' = <<>>)
    BY <1>0, TakingOne
  <1>2a. Len(now) = 2 => now'[1] = now[2] /\ now' # <<>> /\ Head(now') = now[2]
    <2>1. SUFFICES ASSUME Len(now) = 2
                   PROVE  now'[1] = now[2] /\ now' # <<>> /\ Head(now') = now[2]
      OBVIOUS
    <2>2. now'[1] = now[1 + 1] /\ now' # <<>>
      <3>1. /\ \A n \in 1..(Len(now) - 1) : now'[n] = now[n + 1]
            /\ now' = <<>> <=> Len(now) = 1
        BY <1>0, TakingOne
      <3> QED BY <2>1, <3>1
    <2> QED BY <2>2, <1>2, TakingOne
  <1>3. call.layout = hostVlut
    BY <1>1 DEF IInv, Chained
  <1>4. HostEffect(call) /\ GlideEffect(call)
    BY DEF CarryOut
  <1>5. /\ hostVlut' = AfterCall(call) /\ AfterCall(call) \in Tables
        /\ glide' \in Tables /\ saved' \in Tables
        /\ restored' \in BOOLEAN
        /\ call.op # "shutdown" => (~restored' => glide' = hostVlut')
    BY <1>1, <1>3, <1>4, Effects, AfterCallIsTable DEF IInv, Follows
  <1>6. /\ guestVlut' = IF call.op = "reset" THEN NoLayout ELSE guestVlut
        /\ alive' = (call.op # "shutdown")
        /\ call.op = "shutdown" => glide' = NoLayout
    BY DEF CarryOut, GlideEffect
  <1>7. /\ call.op = "reset" => AfterCall(call) = NoLayout
        /\ call.op = "shutdown" => AfterCall(call) = call.layout
    BY DEF AfterCall
  <1> HIDE DEF call
  <1>8. TypeOK'
    BY <1>0, <1>2, <1>5, <1>6, NoLayoutIsTable DEF IInv, TypeOK, CarryOut
  <1>9. CASE call.op = "shutdown"
    <2>1. Len(now) = 1 /\ call.layout = NoLayout
      BY <1>1, <1>9 DEF IInv, Immediate
    <2>2. guestVlut = AfterCall(call)
      BY <1>0, <1>9 DEF IInv, GuestAhead, call
    <2>3. hostVlut' = NoLayout /\ guestVlut' = NoLayout /\ glide' = NoLayout /\ ~alive'
      BY <1>5, <1>6, <1>7, <1>9, <2>1, <2>2
    <2>4. now' = <<>> /\ Len(now') = 0 /\ queue' = <<>> /\ Len(queue') = 0
      BY <1>0, <1>2, <2>1
    <2> QED BY <1>8, <2>3, <2>4, EmptyInv
  <1>10. CASE call.op # "shutdown" /\ Len(now) = 1
    <2>1. guestVlut' = hostVlut'
      <3>1. call.op # "reset" => guestVlut = AfterCall(call)
        BY <1>0 DEF IInv, GuestAhead, call
      <3> QED BY <3>1, <1>5, <1>6, <1>7
    <2>2. now' = <<>> /\ queue' = <<>> /\ alive'
      BY <1>0, <1>2, <1>6, <1>10
    <2>3. ~restored' => glide' = hostVlut'
      BY <1>1, <1>5, <1>10 DEF IInv, Follows
    <2> QED BY <1>8, <2>1, <2>2, <2>3, EmptyInv
  <1>11. CASE Len(now) = 2
    <2>1. call.op = "reset" /\ now[2].op = "shutdown" /\ now[2].layout = NoLayout
      BY <1>1, <1>7, <1>11 DEF IInv, Immediate, Chained
    <2>2. now' # <<>> /\ now'[1] = now[2] /\ Head(now') = now[2]
      BY <1>2a, <1>11
    <2>3. hostVlut' = NoLayout /\ guestVlut' = NoLayout /\ alive' /\ Len(now') = 1
      <3>1. Len(now') = 1
        BY <1>2, <1>11
      <3>2. hostVlut' = NoLayout /\ guestVlut' = NoLayout /\ alive'
        BY <1>5, <1>6, <1>7, <2>1
      <3> QED BY <3>1, <3>2
    <2>4. Follows'
      BY <1>1, <1>5, <2>1, <2>2, <2>3 DEF IInv, Follows
    <2>5. Chained'
      BY <1>0, <2>1, <2>2, <2>3 DEF Chained
    <2>6. DrawsSized'
      BY <1>0, <2>1, <2>2, <2>3 DEF DrawsSized, Sized
    <2>7. Immediate' /\ Quiet'
      <3>1. Len(queue') = 0
        BY <1>0
      <3>2. Immediate'
        BY <2>1, <2>2, <2>3, <3>1 DEF Immediate
      <3>3. Quiet'
        BY <2>3 DEF Quiet
      <3> QED BY <3>2, <3>3
    <2>8. GuestAhead'
      BY <2>1, <2>2, <2>3 DEF GuestAhead, AfterCall
    <2> QED BY <1>8, <2>4, <2>5, <2>6, <2>7, <2>8 DEF IInv
  <1> QED BY <1>1, <1>9, <1>10, <1>11

-----------------------------------------------------------------------------
(* The theorems.                                                           *)

LEMMA NextInv ==
  ASSUME ResetsOnExit, IInv, [Next]_vars
  PROVE  IInv'
  <1>1. CASE Attach
    BY <1>1, AttachInv
  <1>2. CASE \E p \in Param, offs \in Offset, mode \in {0, 1} : grVertexLayout(p, offs, mode)
    BY <1>2, LayoutInv
  <1>3. CASE grDraw
    BY <1>3, DrawInv
  <1>4. CASE grReset
    BY <1>4, AtOnceInv DEF grReset
  <1>5. CASE grGlideGetVertexLayout
    BY <1>5, AtOnceInv DEF grGlideGetVertexLayout
  <1>6. CASE grGlideSetVertexLayout
    BY <1>6, AtOnceInv DEF grGlideSetVertexLayout
  <1>7. CASE grGlideShutdown
    BY <1>7, ShutdownInv
  <1>8. CASE DrainOne
    BY <1>8, DrainOneInv
  <1>9. CASE CarryOut
    BY <1>9, CarryOutInv
  <1>10. CASE UNCHANGED vars
    BY <1>10
    DEF vars, IInv, TypeOK, Follows, Chained, DrawsSized, GuestAhead, Immediate, Quiet
  <1> QED BY <1>1, <1>2, <1>3, <1>4, <1>5, <1>6, <1>7, <1>8, <1>9, <1>10 DEF Next, Guest

(* With a wrapper that resets the layout as it goes, the pending calls     *)
(* always lead from the device's vertex table to the wrapper's, through    *)
(* any number of guest processes.                                          *)
THEOREM TablesChained == ResetsOnExit => (Spec => []IInv)
  <1>1. ASSUME ResetsOnExit PROVE Init => IInv
    BY InitInv
  <1>2. ASSUME ResetsOnExit PROVE IInv /\ [Next]_vars => IInv'
    BY <1>2, NextInv
  <1> SUFFICES ASSUME ResetsOnExit PROVE Spec => []IInv
    OBVIOUS
  <1> QED BY <1>1, <1>2, PTL DEF Spec

(* The tables, the calls pending and the device's records keep their types *)
(* through any number of guest processes.                                  *)
THEOREM LayoutTyped == ResetsOnExit => (Spec => []TypeOK)
  <1>1. IInv => TypeOK
    BY DEF IInv
  <1> QED BY <1>1, TablesChained, PTL

\* In such a state the call the device takes next starts from the device's table.
LEMMA NextStartsHere ==
  ASSUME IInv, now # <<>>
  PROVE  NextUp.layout = hostVlut /\ Sized(NextUp) /\ NextUp \in Calls
  <1>1. CASE queue # <<>>
    BY <1>1, TakingOne DEF IInv, TypeOK, Chained, DrawsSized, NextUp
  <1>2. CASE queue = <<>>
    BY <1>2, TakingOne DEF IInv, TypeOK, Chained, DrawsSized, NextUp
  <1> QED BY <1>1, <1>2

(* The device takes every draw call with the vertex length at which the    *)
(* wrapper stored it.                                                      *)
THEOREM DrawsAgree == ResetsOnExit => (Spec => []VertexSizesAgree)
  <1>1. IInv => VertexSizesAgree
    BY NextStartsHere DEF VertexSizesAgree, Sized
  <1> QED BY <1>1, TablesChained, PTL

(* Until an application restores a saved layout, the Glide library stays   *)
(* inside the vertices the wrapper stored.                                 *)
THEOREM DrawsCovered == ResetsOnExit => (Spec => []CoveredUnlessRestored)
  <1>1. IInv => CoveredUnlessRestored
    <2> SUFFICES ASSUME ~restored, IInv, now # <<>>, NextUp.op = "draw"
                 PROVE  size_vertex3x(glide) <= NextUp.bytes
      BY DEF CoveredUnlessRestored, LayoutCovered
    <2>1. glide = hostVlut /\ glide \in Tables
      BY DEF IInv, Follows, TypeOK
    <2>2. NextUp.bytes = ALIGNED(size_vertex3x(glide))
      BY <2>1, NextStartsHere DEF Sized
    <2> QED BY <2>1, <2>2, SizeIsMax
  <1> QED BY <1>1, TablesChained, PTL
=============================================================================
