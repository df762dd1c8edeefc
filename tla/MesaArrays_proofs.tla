------------------------- MODULE MesaArrays_proofs -------------------------
(***************************************************************************)
(* Proofs about the client arrays of module MesaArrays, for any arrays,    *)
(* texture units, formats, pointers, buffers, draws and bounds.            *)
(***************************************************************************)
EXTENDS MesaArrays, SequenceTheorems, FiniteSetTheorems, WellFoundedInduction, TLAPS

-----------------------------------------------------------------------------
(* Arrays and client states.                                               *)

LEMMA InterIsNoSlot == Inter \notin Slot
  BY NoFixedTexCoord DEF Inter, Slot

LEMMA NoClientIsClient == NoClient \in Clients
  BY DEF NoClient, Clients

LEMMA PtrNotZero == 0 \notin Ptr
  BY PointersAreNotNull

LEMMA TexArrayIsSlot ==
  ASSUME NEW c \in Clients, Units # {}
  PROVE  TexArray(c) \in Slot
  BY UnitsStartAtZero DEF TexArray, Slot, Clients

Placing == {"pointer", "texpointer", "interleaved", "draw"}
Setting ==
  {"state", "texstate", "attrib", "active", "bind", "delete", "bindvao", "deletevao"}

LEMMA CallIsOneOf ==
  ASSUME NEW call, IsCall(call)
  PROVE  call.op \in Placing \cup Setting \cup {"flush"}
  BY DEF IsCall, Placing, Setting

\* What a call of each kind carries.
LEMMA CallParts ==
  ASSUME NEW call, IsCall(call)
  PROVE
  /\ call.client \in Clients
  /\ call.op = "pointer" => call.array \in Slot /\ call.fmt \in Format /\ call.ptr \in Ptr
  /\ call.op = "texpointer" => Units # {} /\ call.fmt \in Format /\ call.ptr \in Ptr
  /\ call.op = "interleaved" => call.fmt \in Format /\ call.ptr \in Ptr
  /\ call.op = "state" => call.array \in Slot /\ call.on \in BOOLEAN
  /\ call.op = "texstate" => call.on \in BOOLEAN
  /\ call.op = "attrib" => call.array \in Attribs /\ call.on \in BOOLEAN
  /\ call.op = "active" => call.unit \in Units
  /\ call.op = "bind" => call.target \in {"array", "element"} /\ call.name \in Buf \cup {0}
  /\ call.op = "delete" => call.name \in Buf
  /\ call.op = "bindvao" => call.name \in Vao \cup {0}
  /\ call.op = "deletevao" => call.name \in Vao
  BY DEF IsCall

LEMMA DrawParts ==
  ASSUME NEW call, IsCall(call), call.op = "draw"
  PROVE  /\ call.draw \in Draw /\ call.parcel = Parcel(call.client, call.draw)
         /\ \A a \in DOMAIN call.want :
              a \in DOMAIN call.parcel.arrays /\ call.parcel.arrays[a].ptr = call.want[a]
  BY DEF IsCall

\* The two sides do the same to their client states.
LEMMA SameEffect ==
  ASSUME NEW c, NEW call, IsCall(call)
  PROVE  processFRet(processArgs(c, call), call) = AfterCall(c, call)
  <1>1. CASE call.op \in Placing
    <2>1. processFRet(processArgs(c, call), call) = processArgs(c, call)
      BY <1>1 DEF processFRet, Placing
    <2>2. [vtxarry_init(c, Inter, call.fmt, call.ptr) EXCEPT !.enable[Inter] = TRUE]
            = vtxarry_state(vtxarry_init(c, Inter, call.fmt, call.ptr), Inter, TRUE)
      BY DEF vtxarry_state
    <2>3. processArgs(c, call) = AfterCall(c, call)
      BY <1>1, <2>2 DEF processArgs, AfterCall, Placing
    <2> QED BY <2>1, <2>3
  <1>2. CASE call.op \in Setting
    <2>1. processArgs(c, call) = c
      BY <1>2 DEF processArgs, Setting
    <2>2. processFRet(c, call) = AfterCall(c, call)
      BY <1>2 DEF processFRet, AfterCall, Setting
    <2> QED BY <2>1, <2>2
  <1>3. CASE call.op = "flush"
    <2>1. processArgs(c, call) = c /\ processFRet(c, call) = c /\ AfterCall(c, call) = c
      BY <1>3 DEF processArgs, processFRet, AfterCall
    <2> QED BY <2>1
  <1> QED BY <1>1, <1>2, <1>3, CallIsOneOf

\* Each helper makes a client state of a client state; an array that does not
\* exist changes nothing.
LEMMA InitStays ==
  ASSUME NEW c \in Clients, NEW a, NEW fmt \in Format, NEW ptr \in Ptr
  PROVE  vtxarry_init(c, a, fmt, ptr) \in Clients
  BY DEF vtxarry_init, Clients

LEMMA StateStays ==
  ASSUME NEW c \in Clients, NEW a, NEW on \in BOOLEAN
  PROVE  vtxarry_state(c, a, on) \in Clients
  BY DEF vtxarry_state, Clients

LEMMA ResetStays ==
  ASSUME NEW c \in Clients
  PROVE  vtxarry_ptr_reset(c) \in Clients
  BY DEF vtxarry_ptr_reset, Clients

LEMMA UnitStays ==
  ASSUME NEW c \in Clients, NEW unit \in Units
  PROVE  [c EXCEPT !.texUnit = unit] \in Clients
  BY DEF Clients

LEMMA BindingsStay ==
  ASSUME NEW c \in Clients, NEW b \in Buf \cup Vao \cup {0}, NEW e \in Buf \cup Vao \cup {0}
  PROVE  [c EXCEPT !.arrayBuf = b, !.elemArryBuf = e] \in Clients
  BY DEF Clients

LEMMA VaoStays ==
  ASSUME NEW c \in Clients, NEW v \in Vao \cup {0}
  PROVE  BindVertexArray(c, v) \in Clients
  BY DEF BindVertexArray, Clients

LEMMA UnderVaoStays ==
  ASSUME NEW c \in Clients
  PROVE  UnderVao(c) \in Clients
  <1>1. c.vao \in Vao \cup {0}
    BY DEF Clients
  <1> QED BY <1>1, BindingsStay DEF UnderVao

LEMMA BindBufferStays ==
  ASSUME NEW c \in Clients, NEW target, NEW name \in Buf \cup {0}
  PROVE  BindBuffer(c, target, name) \in Clients
  <1> DEFINE b == IF target = "array" THEN name ELSE c.arrayBuf
             e == IF target = "element" THEN name ELSE c.elemArryBuf
             bound == [c EXCEPT !.arrayBuf = b, !.elemArryBuf = e]
  <1>1. b \in Buf \cup Vao \cup {0} /\ e \in Buf \cup Vao \cup {0}
    BY DEF Clients
  <1>2. bound \in Clients
    BY <1>1, BindingsStay
  <1>3. BindBuffer(c, target, name) \in {UnderVao(bound), UnderVao(vtxarry_ptr_reset(bound))}
    BY DEF BindBuffer
  <1> HIDE DEF bound
  <1> QED BY <1>2, <1>3, ResetStays, UnderVaoStays

LEMMA DeleteBufferStays ==
  ASSUME NEW c \in Clients, NEW name \in Buf
  PROVE  DeleteBuffer(c, name) \in Clients
  <1> DEFINE b == IF c.arrayBuf = name THEN 0 ELSE c.arrayBuf
             e == IF c.elemArryBuf = name THEN 0 ELSE c.elemArryBuf
             unbound == [c EXCEPT !.arrayBuf = b, !.elemArryBuf = e]
  <1>1. b \in Buf \cup Vao \cup {0} /\ e \in Buf \cup Vao \cup {0}
    BY DEF Clients
  <1>2. unbound \in Clients
    BY <1>1, BindingsStay
  <1>3. DeleteBuffer(c, name) \in {UnderVao(unbound), UnderVao(vtxarry_ptr_reset(unbound))}
    BY DEF DeleteBuffer
  <1> HIDE DEF unbound
  <1> QED BY <1>2, <1>3, ResetStays, UnderVaoStays

\* So does every call.
LEMMA StillClient ==
  ASSUME NEW c \in Clients, NEW call, IsCall(call)
  PROVE  AfterCall(c, call) \in Clients
  <1>0. c.vao \in Vao \cup {0}
    BY DEF Clients
  <1>1. CASE call.op = "pointer"
    <2>1. AfterCall(c, call) = vtxarry_init(c, call.array, call.fmt, call.ptr)
      BY <1>1 DEF AfterCall
    <2> QED BY <1>1, <2>1, CallParts, InitStays
  <1>2. CASE call.op = "texpointer"
    <2>1. AfterCall(c, call) = vtxarry_init(c, TexArray(c), call.fmt, call.ptr)
      BY <1>2 DEF AfterCall
    <2> QED BY <1>2, <2>1, CallParts, InitStays
  <1>3. CASE call.op = "state"
    <2>1. AfterCall(c, call) = vtxarry_state(c, call.array, call.on)
      BY <1>3 DEF AfterCall
    <2> QED BY <1>3, <2>1, CallParts, StateStays
  <1>4. CASE call.op = "texstate"
    <2>1. AfterCall(c, call) = vtxarry_state(c, TexArray(c), call.on)
      BY <1>4 DEF AfterCall
    <2> QED BY <1>4, <2>1, CallParts, StateStays
  <1>5. CASE call.op = "attrib"
    <2>1. call.array \in Slot /\ call.on \in BOOLEAN
      BY <1>5, AttribsAreArrays, CallParts
    <2>2. call.array[1] = "TexCoord" => call.array[2] \in Units
      BY <2>1, NoFixedTexCoord DEF Slot
    <2>3. vattr2arry_state(c, call.array) \in Clients
      BY <2>2, UnitStays DEF vattr2arry_state
    <2>4. AfterCall(c, call) = vtxarry_state(vattr2arry_state(c, call.array), call.array, call.on)
      BY <1>5 DEF AfterCall
    <2> QED BY <2>1, <2>3, <2>4, StateStays
  <1>6. CASE call.op = "interleaved"
    <2>1. vtxarry_init(c, Inter, call.fmt, call.ptr) \in Clients
      BY <1>6, CallParts, InitStays
    <2>2. AfterCall(c, call) = vtxarry_state(vtxarry_init(c, Inter, call.fmt, call.ptr), Inter, TRUE)
      BY <1>6 DEF AfterCall
    <2> QED BY <2>1, <2>2, StateStays
  <1>7. CASE call.op = "active"
    <2>1. AfterCall(c, call) = [c EXCEPT !.texUnit = call.unit]
      BY <1>7 DEF AfterCall
    <2> QED BY <1>7, <2>1, CallParts, UnitStays
  <1>8. CASE call.op = "bind"
    <2>1. AfterCall(c, call) = BindBuffer(c, call.target, call.name)
      BY <1>8 DEF AfterCall
    <2> QED BY <1>8, <2>1, CallParts, BindBufferStays
  <1>9. CASE call.op = "delete"
    <2>1. AfterCall(c, call) = DeleteBuffer(c, call.name)
      BY <1>9 DEF AfterCall
    <2> QED BY <1>9, <2>1, CallParts, DeleteBufferStays
  <1>10. CASE call.op = "bindvao"
    <2>1. AfterCall(c, call) = BindVertexArray(c, call.name)
      BY <1>10 DEF AfterCall
    <2> QED BY <1>10, <2>1, CallParts, VaoStays
  <1>11. CASE call.op = "deletevao"
    <2>1. AfterCall(c, call) = BindVertexArray(c, IF c.vao = call.name THEN 0 ELSE c.vao)
      BY <1>11 DEF AfterCall, DeleteVertexArray
    <2> QED BY <1>0, <2>1, VaoStays
  <1>12. CASE call.op = "draw"
    <2>1. AfterCall(c, call) \in {c, vtxarry_state(c, Inter, FALSE)}
      BY <1>12 DEF AfterCall, AfterPush
    <2> QED BY <2>1, StateStays
  <1>13. CASE call.op = "flush"
    BY <1>13 DEF AfterCall
  <1> QED BY <1>1, <1>2, <1>3, <1>4, <1>5, <1>6, <1>7, <1>8, <1>9, <1>10, <1>11, <1>12, <1>13,
             CallIsOneOf DEF Placing, Setting

-----------------------------------------------------------------------------
(* The queue.                                                              *)

Own(q) == {q[n] : n \in 1..Len(q)}

LEMMA OwnSeq ==
  ASSUME NEW S, NEW q \in Seq(S)
  PROVE  q \in Seq(Own(q))
  <1>1. Len(q) \in Nat /\ q \in [1..Len(q) -> S]
    BY LenProperties
  <1>2. q \in [1..Len(q) -> Own(q)]
    BY <1>1 DEF Own
  <1> QED BY <1>1, <1>2, SeqDef

LEMMA OneMore ==
  ASSUME NEW q, q \in Seq(Own(q)), NEW call
  PROVE  LET r == Append(q, call) IN
         /\ r \in Seq(Own(r)) /\ Len(q) \in Nat /\ Len(r) = Len(q) + 1
         /\ r[Len(q) + 1] = call /\ r # <<>>
         /\ \A n \in 1..Len(q) : r[n] = q[n]
  <1> DEFINE S == Own(q) \cup {call}
             r == Append(q, call)
  <1>1. q \in Seq(S)
    BY SeqMonotonic
  <1>2. /\ r \in Seq(S) /\ Len(q) \in Nat /\ Len(r) = Len(q) + 1 /\ r # <<>>
        /\ r[Len(q) + 1] = call /\ \A n \in 1..Len(q) : r[n] = q[n]
    BY <1>1, AppendProperties, LenProperties
  <1>3. r \in Seq(Own(r))
    BY <1>2, OwnSeq
  <1> QED BY <1>2, <1>3

LEMMA OneLess ==
  ASSUME NEW q, q \in Seq(Own(q)), q # <<>>
  PROVE  LET r == Tail(q) IN
         /\ r \in Seq(Own(r)) /\ Len(q) \in Nat /\ Len(q) >= 1 /\ Len(r) = Len(q) - 1
         /\ Head(q) = q[1]
         /\ \A n \in 1..(Len(q) - 1) : r[n] = q[n + 1]
         /\ r = <<>> <=> Len(q) = 1
  <1>1. /\ Len(q) \in Nat /\ Len(q) >= 1 /\ Head(q) = q[1]
        /\ Tail(q) \in Seq(Own(q)) /\ Len(Tail(q)) = Len(q) - 1
        /\ \A n \in 1..(Len(q) - 1) : Tail(q)[n] = q[n + 1]
    OBVIOUS
  <1>2. Tail(q) = <<>> <=> Len(Tail(q)) = 0
    BY <1>1, EmptySeq
  <1>3. Tail(q) \in Seq(Own(Tail(q)))
    BY <1>1, OwnSeq
  <1> QED BY <1>1, <1>2, <1>3

-----------------------------------------------------------------------------
(* The parts of TypeOK.                                                    *)

PendingOK ==
  /\ guest \in Clients /\ host \in Clients /\ cached \subseteq Arrays
  /\ queue \in Seq(Own(queue)) /\ Len(queue) <= MaxQueue
  /\ \A n \in 1..Len(queue) : IsCall(queue[n])
  /\ now # <<>> => now = <<now[1]>> /\ IsCall(now[1])

WrapperOK ==
  /\ pc \in {"app", "prep", "disable", "push"}
  /\ IF pc = "app" THEN drawing = <<>> ELSE drawing[1] \in Draw

ToldOK ==
  told \in [on : SUBSET Slot, at : [Slot -> Ptr \cup {0}], unit : Units \cup {0, Unknown},
            vao : BOOLEAN]

LEMMA TypeParts == TypeOK <=> PendingOK /\ WrapperOK /\ ToldOK
  BY DEF TypeOK, PendingOK, WrapperOK, ToldOK, Own

VaoOp == {"bindvao", "deletevao"}

LEMMA InitInv == Init => IInv
  <1> SUFFICES ASSUME Init PROVE IInv
    OBVIOUS
  <1>1. PendingOK
    <2>1. queue = <<>> /\ Len(queue) = 0 /\ queue \in Seq(Own(queue)) /\ now = <<>>
      BY DEF Init
    <2> QED BY <2>1, NoClientIsClient, BoundsAreNat DEF Init, PendingOK
  <1>2. WrapperOK /\ ToldOK
    BY DEF Init, WrapperOK, ToldOK
  <1>3. Chained /\ GuestAhead
    BY DEF Init, Chained, GuestAhead
  <1>4. Heard
    BY DEF Init, Heard, NoClient
  <1>5. NoVao /\ CacheOnly
    <2>1. /\ queue = <<>> /\ Len(queue) = 0 /\ now = <<>> /\ host.vao = 0
          /\ \A a \in Arrays : host.ptr[a] = 0
      BY DEF Init, NoClient
    <2> QED BY <2>1 DEF NoVao, CacheOnly, Arrays
  <1> QED BY <1>1, <1>2, <1>3, <1>4, <1>5, TypeParts DEF IInv

\* What a call that joins the queue, or is waited for, keeps.
LEMMA SayInv ==
  ASSUME PendingOK, Chained, GuestAhead, now = <<>>, NEW call, IsCall(call), call.client = guest,
         NEW words, Say(call, words)
  PROVE  /\ PendingOK' /\ Chained' /\ GuestAhead'
         /\ call.op \notin VaoOp /\ NoVao /\ CacheOnly => NoVao' /\ CacheOnly'
  <1>1. guest' \in Clients /\ UNCHANGED <<host, cached>> /\ guest' = After(call)
    BY StillClient DEF Say, PendingOK, After
  <1>2. guest = IF queue = <<>> THEN host ELSE After(queue[Len(queue)])
    BY DEF GuestAhead
  <1>3. CASE queue' = Append(queue, call) /\ Len(queue) < MaxQueue /\ now' = now
    <2>1. /\ queue' \in Seq(Own(queue')) /\ Len(queue) \in Nat /\ Len(queue') = Len(queue) + 1
          /\ queue'[Len(queue) + 1] = call /\ queue' # <<>>
          /\ \A n \in 1..Len(queue) : queue'[n] = queue[n]
      BY <1>3, OneMore DEF PendingOK
    <2>2. PendingOK'
      <3>1. \A n \in 1..Len(queue') : IsCall(queue'[n])
        BY <2>1 DEF PendingOK
      <3> QED BY <1>1, <1>3, <2>1, <3>1, BoundsAreNat DEF PendingOK
    <2>3. Chained'
      <3>1. queue'[1].client = host'
        BY <1>1, <1>2, <2>1 DEF Chained
      <3>2. ASSUME NEW n \in 1..(Len(queue') - 1)
            PROVE  queue'[n + 1].client = After(queue'[n])
        <4>1. CASE n = Len(queue)
          BY <4>1, <1>2, <2>1
        <4>2. CASE n < Len(queue)
          BY <4>2, <2>1 DEF Chained
        <4> QED BY <4>1, <4>2, <2>1
      <3> QED BY <3>1, <3>2, <1>3 DEF Chained, After
    <2>4. GuestAhead'
      BY <1>1, <1>3, <2>1 DEF GuestAhead, After
    <2>5. call.op \notin VaoOp /\ NoVao /\ CacheOnly => NoVao' /\ CacheOnly'
      BY <1>1, <1>3, <2>1 DEF NoVao, CacheOnly, VaoOp
    <2> QED BY <2>2, <2>3, <2>4, <2>5
  <1>4. CASE now' = <<call>> /\ queue' = queue
    <2>1. now'[1] = call /\ now' # <<>> /\ now' = <<now'[1]>>
      BY <1>4
    <2>2. PendingOK'
      BY <1>1, <1>4, <2>1 DEF PendingOK, IsCall
    <2>3. Chained'
      BY <1>1, <1>2, <1>4, <2>1 DEF Chained, After
    <2>4. GuestAhead'
      BY <1>1, <1>4, <2>1 DEF GuestAhead, After
    <2>5. call.op \notin VaoOp /\ NoVao /\ CacheOnly => NoVao' /\ CacheOnly'
      BY <1>1, <1>4, <2>1 DEF NoVao, CacheOnly, VaoOp
    <2> QED BY <2>2, <2>3, <2>4, <2>5
  <1> QED BY <1>3, <1>4 DEF Say, Queued

-----------------------------------------------------------------------------
(* The device.                                                             *)

LEMMA CachedStays ==
  ASSUME cached \subseteq Arrays, host \in Clients, NEW call, IsCall(call)
  PROVE  CachedAfter(call) \subseteq Arrays
  <1>0. Slot \subseteq Arrays /\ Inter \in Arrays
    BY DEF Arrays
  <1>1. CASE call.op = "pointer"
    BY <1>0, <1>1, CallParts DEF CachedAfter
  <1>2. CASE call.op = "texpointer"
    <2>1. TexArray(host) \in Arrays
      BY <1>0, <1>2, CallParts, TexArrayIsSlot
    <2> QED BY <1>2, <2>1 DEF CachedAfter
  <1>3. CASE call.op = "interleaved"
    BY <1>0, <1>3 DEF CachedAfter
  <1>4. CASE call.op \notin {"pointer", "texpointer", "interleaved"}
    BY <1>4 DEF CachedAfter
  <1> QED BY <1>1, <1>2, <1>3, <1>4

\* As long as no vertex array object is involved, the pointers of a device
\* without a buffer bound stay places in the cache.
LEMMA CacheStays ==
  ASSUME host \in Clients, CacheOnly, host.vao = 0, NEW call, IsCall(call), call.op \notin VaoOp,
         host' = AfterCall(host, call), cached' = CachedAfter(call)
  PROVE  CacheOnly' /\ host'.vao = 0
  <1>0. /\ Slot \subseteq Arrays /\ Inter \in Arrays /\ Inter \notin Slot
        /\ host = [host EXCEPT !.vao = 0]
        /\ host.ptr \in [Arrays -> Ptr \cup {0}]
    BY InterIsNoSlot DEF Arrays, Clients
  <1>1. ASSUME NEW a \in Slot, host' = vtxarry_init(host, a, call.fmt, call.ptr),
               cached' = IF host.arrayBuf = 0 THEN cached \cup {a} ELSE cached \ {a}
        PROVE  CacheOnly' /\ host'.vao = 0
    <2>1. /\ host'.arrayBuf = host.arrayBuf /\ host'.vao = host.vao
          /\ \A b \in Arrays : b # a => host'.ptr[b] = host.ptr[b]
      BY <1>1, <1>0 DEF vtxarry_init, Clients
    <2> QED BY <1>0, <1>1, <2>1 DEF CacheOnly
  <1>2. ASSUME host'.arrayBuf = host.arrayBuf, host'.vao = host.vao, host'.ptr = host.ptr,
               cached' = cached
        PROVE  CacheOnly' /\ host'.vao = 0
    BY <1>2 DEF CacheOnly
  <1>3. CASE call.op = "pointer"
    <2>1. host' = vtxarry_init(host, call.array, call.fmt, call.ptr)
      BY <1>3 DEF AfterCall
    <2>2. cached' = IF host.arrayBuf = 0 THEN cached \cup {call.array} ELSE cached \ {call.array}
      BY <1>3 DEF CachedAfter
    <2> QED BY <1>1, <1>3, <2>1, <2>2, CallParts
  <1>4. CASE call.op = "texpointer"
    <2>1. host' = vtxarry_init(host, TexArray(host), call.fmt, call.ptr)
      BY <1>4 DEF AfterCall
    <2>2. cached' = IF host.arrayBuf = 0 THEN cached \cup {TexArray(host)}
                    ELSE cached \ {TexArray(host)}
      BY <1>4 DEF CachedAfter
    <2>3. TexArray(host) \in Slot
      BY <1>4, CallParts, TexArrayIsSlot
    <2> QED BY <1>1, <2>1, <2>2, <2>3
  <1>5. CASE call.op = "interleaved"
    <2>1. host' = vtxarry_state(vtxarry_init(host, Inter, call.fmt, call.ptr), Inter, TRUE)
      BY <1>5 DEF AfterCall
    <2>2. cached' = cached \cup {Inter}
      BY <1>5 DEF CachedAfter
    <2>3. /\ host'.arrayBuf = host.arrayBuf /\ host'.vao = host.vao
          /\ \A b \in Arrays : b # Inter => host'.ptr[b] = host.ptr[b]
      BY <2>1, <1>0 DEF vtxarry_init, vtxarry_state, Clients
    <2> QED BY <1>0, <2>2, <2>3 DEF CacheOnly
  <1>6. cached' = cached \/ call.op \in {"pointer", "texpointer", "interleaved"}
    BY DEF CachedAfter
  <1>7. CASE call.op \in {"state", "texstate", "active", "draw", "flush"}
    <2>1. \A a, on : /\ vtxarry_state(host, a, on).arrayBuf = host.arrayBuf
                     /\ vtxarry_state(host, a, on).vao = host.vao
                     /\ vtxarry_state(host, a, on).ptr = host.ptr
      BY DEF vtxarry_state, Clients
    <2>2. \/ host' = host \/ host' = [host EXCEPT !.texUnit = call.unit]
          \/ \E a, on : host' = vtxarry_state(host, a, on)
      <3>1. CASE call.op = "state"
        <4>1. host' = vtxarry_state(host, call.array, call.on)
          BY <3>1 DEF AfterCall
        <4> QED BY <4>1
      <3>2. CASE call.op = "texstate"
        <4>1. host' = vtxarry_state(host, TexArray(host), call.on)
          BY <3>2 DEF AfterCall
        <4> QED BY <4>1
      <3>3. CASE call.op = "active"
        BY <3>3 DEF AfterCall
      <3>4. CASE call.op = "draw"
        <4>1. host' = host \/ host' = vtxarry_state(host, Inter, FALSE)
          BY <3>4 DEF AfterCall, AfterPush
        <4> QED BY <4>1
      <3>5. CASE call.op = "flush"
        BY <3>5 DEF AfterCall
      <3> QED BY <1>7, <3>1, <3>2, <3>3, <3>4, <3>5
    <2>3. host'.arrayBuf = host.arrayBuf /\ host'.vao = host.vao /\ host'.ptr = host.ptr
      BY <2>1, <2>2 DEF Clients
    <2> QED BY <1>2, <1>6, <1>7, <2>3
  <1>8. CASE call.op = "attrib"
    <2>1. host' = vtxarry_state(vattr2arry_state(host, call.array), call.array, call.on)
      BY <1>8 DEF AfterCall
    <2>2. host'.arrayBuf = host.arrayBuf /\ host'.vao = host.vao /\ host'.ptr = host.ptr
      BY <2>1 DEF vtxarry_state, vattr2arry_state, Clients
    <2> QED BY <1>2, <1>6, <1>8, <2>2
  <1>9. CASE call.op = "bind"
    <2>1. host' = BindBuffer(host, call.target, call.name)
      BY <1>9 DEF AfterCall
    <2>2. /\ host'.vao = host.vao
          /\ IF call.target = "array" /\ call.name = 0
             THEN \A a \in Slot : host'.ptr[a] = 0
             ELSE /\ host'.ptr = host.ptr
                  /\ host'.arrayBuf = IF call.target = "array" THEN call.name ELSE host.arrayBuf
          /\ host'.ptr[Inter] = host.ptr[Inter]
      BY <1>0, <2>1 DEF BindBuffer, UnderVao, vtxarry_ptr_reset, Clients
    <2> QED BY <1>6, <1>9, <2>2 DEF CacheOnly
  <1>10. CASE call.op = "delete"
    <2>1. host' = DeleteBuffer(host, call.name)
      BY <1>10 DEF AfterCall
    <2>2. /\ host'.vao = host.vao
          /\ IF host.arrayBuf = call.name
             THEN \A a \in Slot : host'.ptr[a] = 0
             ELSE host'.ptr = host.ptr /\ host'.arrayBuf = host.arrayBuf
          /\ host'.ptr[Inter] = host.ptr[Inter]
      BY <1>0, <2>1 DEF DeleteBuffer, UnderVao, vtxarry_ptr_reset, Clients
    <2> QED BY <1>6, <1>10, <2>2 DEF CacheOnly
  <1> QED BY <1>3, <1>4, <1>5, <1>7, <1>8, <1>9, <1>10, CallIsOneOf DEF Placing, Setting, VaoOp

\* The device's client state follows the call it takes.
LEMMA Carried ==
  ASSUME host \in Clients, cached \subseteq Arrays, NEW call, IsCall(call), call.client = host,
         CarryOut(call)
  PROVE  /\ host' = After(call) /\ host' \in Clients /\ cached' \subseteq Arrays
         /\ call.op \notin VaoOp /\ host.vao = 0 /\ CacheOnly => host'.vao = 0 /\ CacheOnly'
  <1>1. host' = AfterCall(host, call) /\ cached' = CachedAfter(call)
    BY SameEffect DEF CarryOut
  <1> QED BY <1>1, StillClient, CachedStays, CacheStays DEF After

LEMMA DrainOneInv ==
  ASSUME IInv, DrainOne
  PROVE  IInv'
  <1> DEFINE call == Head(queue)
  <1>0. PendingOK /\ WrapperOK /\ ToldOK
    BY TypeParts DEF IInv
  <1>1. /\ queue # <<>> /\ queue' = Tail(queue) /\ now # <<>>
        /\ UNCHANGED <<guest, now, pc, drawing, told>>
    BY DEF DrainOne, Waiting
  <1>2. /\ queue' \in Seq(Own(queue')) /\ Len(queue) \in Nat /\ Len(queue) >= 1
        /\ Len(queue') = Len(queue) - 1 /\ call = queue[1]
        /\ \A n \in 1..(Len(queue) - 1) : queue'[n] = queue[n + 1]
        /\ queue' = <<>> <=> Len(queue) = 1
    BY <1>0, <1>1, OneLess DEF PendingOK
  <1>3. IsCall(call) /\ call.client = host
    BY <1>0, <1>1, <1>2 DEF IInv, PendingOK, Chained
  <1>4. CarryOut(call)
    BY DEF DrainOne
  <1> HIDE DEF call
  <1>5. /\ host' = After(call) /\ host' \in Clients /\ cached' \subseteq Arrays
        /\ call.op \notin VaoOp /\ host.vao = 0 /\ CacheOnly => host'.vao = 0 /\ CacheOnly'
    BY <1>0, <1>3, <1>4, Carried DEF PendingOK
  <1>6. PendingOK'
    <2>1. \A n \in 1..Len(queue') : IsCall(queue'[n])
      BY <1>0, <1>2 DEF PendingOK
    <2>2. Len(queue') <= MaxQueue
      BY <1>0, <1>2, BoundsAreNat DEF PendingOK
    <2> QED BY <1>0, <1>1, <1>2, <1>5, <2>1, <2>2 DEF PendingOK
  <1>7. Chained'
    <2>1. queue' # <<>> => queue'[1].client = host'
      <3>1. SUFFICES ASSUME Len(queue) > 1 PROVE queue'[1].client = host'
        BY <1>2
      <3>2. queue'[1] = queue[2] /\ queue[2].client = After(queue[1])
        BY <3>1, <1>2 DEF IInv, Chained
      <3> QED BY <3>2, <1>2, <1>5
    <2>2. ASSUME NEW n \in 1..(Len(queue') - 1)
          PROVE  queue'[n + 1].client = After(queue'[n])
      <3>1. queue'[n] = queue[n + 1] /\ queue'[n + 1] = queue[(n + 1) + 1]
        BY <1>2
      <3>2. n + 1 \in 1..(Len(queue) - 1)
        BY <1>2
      <3> QED BY <3>1, <3>2 DEF IInv, Chained
    <2>3. now'[1].client = IF queue' = <<>> THEN host' ELSE After(queue'[Len(queue')])
      <3>1. now'[1].client = After(queue[Len(queue)])
        BY <1>1 DEF IInv, Chained
      <3>2. CASE Len(queue) = 1
        BY <3>1, <3>2, <1>2, <1>5
      <3>3. CASE Len(queue) > 1
        <4>1. Len(queue') \in 1..(Len(queue) - 1)
          BY <3>3, <1>2
        <4>2. queue'[Len(queue')] = queue[Len(queue') + 1]
          BY <4>1, <1>2
        <4> QED BY <3>1, <3>3, <4>2, <1>2
      <3>4. \A n \in Nat : n >= 1 => n = 1 \/ n > 1
        OBVIOUS
      <3> QED BY <3>2, <3>3, <3>4, <1>2
    <2> QED BY <2>1, <2>2, <2>3 DEF Chained, After
  <1>8. GuestAhead'
    BY <1>1 DEF IInv, GuestAhead, After
  <1>9. ~told'.vao => NoVao' /\ CacheOnly'
    <2>1. SUFFICES ASSUME ~told.vao PROVE NoVao' /\ CacheOnly'
      BY <1>1
    <2>2. NoVao /\ CacheOnly
      BY <2>1 DEF IInv
    <2>3. call.op \notin VaoOp
      BY <1>2, <2>2 DEF NoVao, VaoOp
    <2>4. host'.vao = 0 /\ CacheOnly'
      BY <1>5, <2>2, <2>3 DEF NoVao
    <2> QED BY <1>1, <1>2, <2>2, <2>4 DEF NoVao
  <1>10. WrapperOK' /\ ToldOK' /\ Heard'
    BY <1>0, <1>1 DEF WrapperOK, ToldOK, IInv, Heard
  <1> QED BY <1>6, <1>7, <1>8, <1>9, <1>10, TypeParts DEF IInv, PendingOK, WrapperOK, ToldOK, TypeOK, Own

LEMMA CarryOutNowInv ==
  ASSUME IInv, CarryOutNow
  PROVE  IInv'
  <1> DEFINE call == Head(now)
  <1>0. PendingOK /\ WrapperOK /\ ToldOK
    BY TypeParts DEF IInv
  <1>1. /\ queue = <<>> /\ now # <<>> /\ now' = <<>> /\ UNCHANGED <<guest, queue, pc, drawing, told>>
    BY DEF CarryOutNow, Waiting
  <1>2. call = now[1] /\ IsCall(call) /\ call.client = host
    BY <1>0, <1>1 DEF IInv, PendingOK, Chained
  <1>3. CarryOut(call)
    BY DEF CarryOutNow
  <1> HIDE DEF call
  <1>4. /\ host' = After(call) /\ host' \in Clients /\ cached' \subseteq Arrays
        /\ call.op \notin VaoOp /\ host.vao = 0 /\ CacheOnly => host'.vao = 0 /\ CacheOnly'
    BY <1>0, <1>2, <1>3, Carried DEF PendingOK
  <1>5. PendingOK'
    BY <1>0, <1>1, <1>4 DEF PendingOK
  <1>6. Chained' /\ GuestAhead'
    <2>1. Len(queue') = 0
      BY <1>1
    <2>2. guest' = host'
      BY <1>1, <1>2, <1>4 DEF IInv, GuestAhead
    <2> QED BY <1>1, <2>1, <2>2 DEF Chained, GuestAhead
  <1>7. ~told'.vao => NoVao' /\ CacheOnly'
    <2>1. SUFFICES ASSUME ~told.vao PROVE NoVao' /\ CacheOnly'
      BY <1>1
    <2>2. NoVao /\ CacheOnly /\ call.op \notin VaoOp
      BY <1>1, <1>2, <2>1 DEF IInv, NoVao, VaoOp
    <2>3. host'.vao = 0 /\ CacheOnly'
      BY <1>4, <2>2 DEF NoVao
    <2> QED BY <1>1, <2>2, <2>3 DEF NoVao
  <1>8. WrapperOK' /\ ToldOK' /\ Heard'
    BY <1>0, <1>1 DEF WrapperOK, ToldOK, IInv, Heard
  <1> QED BY <1>5, <1>6, <1>7, <1>8 DEF IInv, PendingOK, WrapperOK, ToldOK, TypeOK, Own

-----------------------------------------------------------------------------
(* The wrapper.                                                            *)

\* What is left to show of an action that says something.
LEMMA SaidInv ==
  ASSUME IInv, now = <<>>, NEW call, IsCall(call), call.client = guest, NEW words,
         Say(call, words), WrapperOK', ToldOK', Heard', told.vao \/ call.op \in VaoOp => told'.vao
  PROVE  IInv'
  <1>0. PendingOK /\ WrapperOK /\ ToldOK /\ Chained /\ GuestAhead
    BY TypeParts DEF IInv
  <1>1. /\ PendingOK' /\ Chained' /\ GuestAhead'
        /\ call.op \notin VaoOp /\ NoVao /\ CacheOnly => NoVao' /\ CacheOnly'
    BY <1>0, SayInv
  <1>2. ~told'.vao => NoVao' /\ CacheOnly'
    BY <1>1 DEF IInv, ToldOK
  <1> QED BY <1>1, <1>2 DEF IInv, PendingOK, WrapperOK, ToldOK, TypeOK, Own

LEMMA TellParts ==
  ASSUME IInv, NEW call, NEW words, Tell(call, words)
  PROVE  /\ now = <<>> /\ Say(call, words) /\ guest' = AfterCall(guest, call) /\ WrapperOK'
         /\ guest \in Clients /\ ToldOK /\ Heard
  <1>1. now = <<>> /\ Say(call, words) /\ guest' = AfterCall(guest, call) /\ UNCHANGED <<pc, drawing>>
    BY DEF Tell, Free, Waiting, Say
  <1>2. WrapperOK /\ ToldOK /\ Heard /\ guest \in Clients
    BY TypeParts DEF IInv, PendingOK
  <1> QED BY <1>1, <1>2 DEF WrapperOK

LEMMA PointerInv ==
  ASSUME IInv, NEW a \in Slot, NEW fmt \in Format, NEW ptr \in Ptr, glPointer(a, fmt, ptr)
  PROVE  IInv'
  <1> DEFINE call == PointerCall(a, fmt, ptr)
  <1>1. /\ now = <<>> /\ Say(call, 0) /\ guest' = AfterCall(guest, call) /\ WrapperOK'
        /\ guest \in Clients /\ ToldOK /\ Heard
    BY TellParts DEF glPointer
  <1>2. IsCall(call) /\ call.client = guest /\ call.op = "pointer"
    BY <1>1 DEF PointerCall, IsCall
  <1>3. guest' = vtxarry_init(guest, a, fmt, ptr)
    BY <1>1 DEF AfterCall, PointerCall
  <1>4. told' = ToldPointer(a, ptr)
    BY DEF glPointer
  <1>5. ToldOK' /\ told'.vao = told.vao
    BY <1>1, <1>4 DEF ToldOK, ToldPointer
  <1>6. Heard'
    BY <1>1, <1>3, <1>4 DEF Heard, ToldOK, ToldPointer, vtxarry_init, Clients, Arrays
  <1> HIDE DEF call
  <1> QED BY <1>1, <1>2, <1>5, <1>6, SaidInv DEF VaoOp

\* Heard, of a wrapper whose arrays keep their state.
LEMMA HeardStays ==
  ASSUME Heard, guest \in Clients, ToldOK, NEW on, on \subseteq told.on,
         guest'.enable = guest.enable, told'.on = on,
         \A a \in Slot : told'.at[a] # 0 => guest'.ptr[a] = told'.at[a],
         told'.unit # Unknown => told'.unit = guest'.texUnit
  PROVE  Heard'
  BY DEF Heard, ToldOK

LEMMA TexPointerInv ==
  ASSUME IInv, Units # {}, NEW fmt \in Format, NEW ptr \in Ptr, glTexCoordPointer(fmt, ptr)
  PROVE  IInv'
  <1> DEFINE call == TexPointerCall(fmt, ptr)
             a == <<"TexCoord", told.unit>>
  <1>1. /\ now = <<>> /\ Say(call, 0) /\ guest' = AfterCall(guest, call) /\ WrapperOK'
        /\ guest \in Clients /\ ToldOK /\ Heard
    BY TellParts DEF glTexCoordPointer
  <1>2. IsCall(call) /\ call.client = guest /\ call.op = "texpointer"
    BY <1>1 DEF TexPointerCall, IsCall
  <1>3. guest' = vtxarry_init(guest, TexArray(guest), fmt, ptr) /\ TexArray(guest) \in Slot
    BY <1>1, TexArrayIsSlot DEF AfterCall, TexPointerCall
  <1>4. told' = IF KnownUnit THEN ToldPointer(a, ptr) ELSE ForgetTex(told)
    BY DEF glTexCoordPointer
  <1>5. CASE KnownUnit
    <2>1. a \in Slot /\ a = TexArray(guest)
      BY <1>1, <1>5, UnitsStartAtZero DEF KnownUnit, Slot, Unknown, Heard, TexArray
    <2>2. told' = ToldPointer(a, ptr) /\ guest' = vtxarry_init(guest, a, fmt, ptr)
      BY <1>3, <1>4, <1>5, <2>1
    <2> HIDE DEF a
    <2>3. ToldOK' /\ told'.vao = told.vao
      BY <1>1, <2>1, <2>2 DEF ToldOK, ToldPointer
    <2>4. Heard'
      BY <1>1, <2>1, <2>2 DEF Heard, ToldOK, ToldPointer, vtxarry_init, Clients, Arrays
    <2> HIDE DEF call
    <2> QED BY <1>1, <1>2, <2>3, <2>4, SaidInv DEF VaoOp
  <1>6. CASE ~KnownUnit
    <2>1. told' = ForgetTex(told)
      BY <1>4, <1>6
    <2>2. ToldOK' /\ told'.vao = told.vao
      BY <1>1, <2>1 DEF ToldOK, ForgetTex
    <2>3. Heard'
      <3>1. /\ guest'.enable = guest.enable /\ guest'.texUnit = guest.texUnit
            /\ \A b \in Slot : b # TexArray(guest) => guest'.ptr[b] = guest.ptr[b]
        BY <1>1, <1>3 DEF vtxarry_init, Clients, Arrays
      <3>2. \A b \in Slot : told'.at[b] # 0 => b # TexArray(guest) /\ told'.at[b] = told.at[b]
        BY <1>1, <2>1 DEF ForgetTex, TexArray, ToldOK
      <3>3. told'.on \subseteq told.on /\ told'.unit = told.unit
        BY <1>1, <2>1 DEF ForgetTex, ToldOK
      <3> QED BY <1>1, <3>1, <3>2, <3>3 DEF Heard
    <2> HIDE DEF call
    <2> QED BY <1>1, <1>2, <2>2, <2>3, SaidInv DEF VaoOp
  <1> QED BY <1>5, <1>6

\* What Forget leaves.
LEMMA Forgotten ==
  ASSUME ToldOK
  PROVE  /\ Forget(told).on = told.on /\ Forget(told).unit = told.unit
         /\ Forget(told).vao = told.vao
         /\ \A a \in Slot : Forget(told).at[a] = 0
         /\ Forget(told).at \in [Slot -> Ptr \cup {0}]
         /\ Forget(told) \in [on : SUBSET Slot, at : [Slot -> Ptr \cup {0}],
                             unit : Units \cup {0, Unknown}, vao : BOOLEAN]
  BY DEF Forget, ToldOK

LEMMA InterleavedInv ==
  ASSUME IInv, NEW fmt \in Format, NEW ptr \in Ptr, glInterleavedArrays(fmt, ptr)
  PROVE  IInv'
  <1> DEFINE call == InterleavedCall(fmt, ptr)
  <1>1. /\ now = <<>> /\ Say(call, 0) /\ guest' = AfterCall(guest, call) /\ WrapperOK'
        /\ guest \in Clients /\ ToldOK /\ Heard
    BY TellParts DEF glInterleavedArrays
  <1>2. IsCall(call) /\ call.client = guest /\ call.op = "interleaved"
    BY <1>1 DEF InterleavedCall, IsCall
  <1>3. guest' = vtxarry_state(vtxarry_init(guest, Inter, fmt, ptr), Inter, TRUE)
    BY <1>1 DEF AfterCall, InterleavedCall
  <1>4. told' = Forget(told)
    BY DEF glInterleavedArrays
  <1>5. ToldOK' /\ told'.vao = told.vao /\ told'.on = told.on /\ told'.unit = told.unit
    BY <1>1, <1>4, Forgotten DEF ToldOK
  <1>6. Heard'
    <2>1. /\ guest'.texUnit = guest.texUnit
          /\ \A b \in Slot : guest'.enable[b] = guest.enable[b]
      BY <1>1, <1>3, InterIsNoSlot DEF vtxarry_init, vtxarry_state, Clients, Arrays
    <2>2. told.on \subseteq Slot
      BY <1>1 DEF ToldOK
    <2> QED BY <1>1, <1>4, <1>5, <2>1, <2>2, Forgotten DEF Heard
  <1> HIDE DEF call
  <1> QED BY <1>1, <1>2, <1>5, <1>6, SaidInv DEF VaoOp

\* Enabling or disabling an array, on both sides.
LEMMA StateHeard ==
  ASSUME Heard, guest \in Clients, ToldOK, NEW a \in Slot, NEW on \in BOOLEAN,
         guest' = vtxarry_state(guest, a, on), told' = ToldState(a, on)
  PROVE  Heard' /\ ToldOK' /\ told'.vao = told.vao
  <1>1. ToldOK' /\ told'.vao = told.vao /\ told'.at = told.at /\ told'.unit = told.unit
    BY DEF ToldOK, ToldState
  <1>2. told'.on = IF on THEN told.on \cup {a} ELSE told.on \ {a}
    BY DEF ToldOK, ToldState
  <1>3. /\ guest'.ptr = guest.ptr /\ guest'.texUnit = guest.texUnit
        /\ guest'.enable = [guest.enable EXCEPT ![a] = on]
        /\ guest.enable \in [Arrays -> BOOLEAN] /\ a \in Arrays
    BY DEF vtxarry_state, Clients, Arrays
  <1>4. \A b \in told'.on : guest'.enable[b]
    <2>1. told.on \subseteq Arrays
      BY DEF ToldOK, Arrays
    <2>2. ASSUME NEW b \in told'.on PROVE guest'.enable[b]
      <3>1. CASE b = a
        BY <1>2, <1>3, <2>2, <3>1
      <3>2. CASE b # a
        BY <1>2, <1>3, <2>1, <2>2, <3>2 DEF Heard
      <3> QED BY <3>1, <3>2
    <2> QED BY <2>2
  <1> QED BY <1>1, <1>3, <1>4 DEF Heard

LEMMA ClientStateInv ==
  ASSUME IInv, NEW a \in Slot, NEW on \in BOOLEAN, glClientState(a, on)
  PROVE  IInv'
  <1> DEFINE call == StateCall(a, on)
  <1>1. /\ now = <<>> /\ Say(call, 0) /\ guest' = AfterCall(guest, call) /\ WrapperOK'
        /\ guest \in Clients /\ ToldOK /\ Heard
    BY TellParts DEF glClientState
  <1>2. IsCall(call) /\ call.client = guest /\ call.op = "state"
    BY <1>1 DEF StateCall, IsCall
  <1>3. guest' = vtxarry_state(guest, a, on)
    BY <1>1 DEF AfterCall, StateCall
  <1>4. told' = ToldState(a, on)
    BY DEF glClientState
  <1>5. Heard' /\ ToldOK' /\ told'.vao = told.vao
    BY <1>1, <1>3, <1>4, StateHeard
  <1> HIDE DEF call
  <1> QED BY <1>1, <1>2, <1>5, SaidInv DEF VaoOp

LEMMA TexCoordStateInv ==
  ASSUME IInv, Units # {}, NEW on \in BOOLEAN, glTexCoordState(on)
  PROVE  IInv'
  <1> DEFINE call == TexStateCall(on)
             a == <<"TexCoord", told.unit>>
  <1>1. /\ now = <<>> /\ Say(call, 0) /\ guest' = AfterCall(guest, call) /\ WrapperOK'
        /\ guest \in Clients /\ ToldOK /\ Heard
    BY TellParts DEF glTexCoordState
  <1>2. IsCall(call) /\ call.client = guest /\ call.op = "texstate"
    BY <1>1 DEF TexStateCall, IsCall
  <1>3. guest' = vtxarry_state(guest, TexArray(guest), on) /\ TexArray(guest) \in Slot
    BY <1>1, TexArrayIsSlot DEF AfterCall, TexStateCall
  <1>4. told' = IF KnownUnit THEN ToldState(a, on) ELSE ForgetTex(told)
    BY DEF glTexCoordState
  <1>5. Heard' /\ ToldOK' /\ told'.vao = told.vao
    <2>1. CASE KnownUnit
      <3>1. a \in Slot /\ a = TexArray(guest)
        BY <1>1, <2>1, UnitsStartAtZero DEF KnownUnit, Slot, Unknown, Heard, TexArray
      <3> HIDE DEF a
      <3> QED BY <1>1, <1>3, <1>4, <2>1, <3>1, StateHeard
    <2>2. CASE ~KnownUnit
      <3>1. told' = ForgetTex(told)
        BY <1>4, <2>2
      <3>2. ToldOK' /\ told'.vao = told.vao
        BY <1>1, <3>1 DEF ToldOK, ForgetTex
      <3>3. /\ guest'.ptr = guest.ptr /\ guest'.texUnit = guest.texUnit
            /\ \A b \in Slot : b # TexArray(guest) => guest'.enable[b] = guest.enable[b]
        BY <1>1, <1>3 DEF vtxarry_state, Clients, Arrays
      <3>4. \A b \in told'.on : b # TexArray(guest) /\ b \in told.on /\ b \in Slot
        BY <1>1, <3>1 DEF ForgetTex, TexArray, ToldOK
      <3>5. /\ \A b \in Slot : told'.at[b] # 0 => told'.at[b] = told.at[b]
            /\ told'.unit = told.unit
        BY <1>1, <3>1 DEF ForgetTex, ToldOK
      <3>6. Heard'
        BY <1>1, <3>3, <3>4, <3>5 DEF Heard
      <3> QED BY <3>2, <3>6
    <2> QED BY <2>1, <2>2
  <1> HIDE DEF call
  <1> QED BY <1>1, <1>2, <1>5, SaidInv DEF VaoOp

LEMMA VertexAttribArrayInv ==
  ASSUME IInv, NEW a \in Attribs, NEW on \in BOOLEAN, glVertexAttribArray(a, on)
  PROVE  IInv'
  <1> DEFINE call == AttribCall(a, on)
  <1>1. /\ now = <<>> /\ Say(call, 0) /\ guest' = AfterCall(guest, call) /\ WrapperOK'
        /\ guest \in Clients /\ ToldOK /\ Heard
    BY TellParts DEF glVertexAttribArray
  <1>2. IsCall(call) /\ call.client = guest /\ call.op = "attrib"
    BY <1>1 DEF AttribCall, IsCall
  <1>3. guest' = vtxarry_state(vattr2arry_state(guest, a), a, on)
    BY <1>1 DEF AfterCall, AttribCall
  <1>4. told' = [ToldState(a, on) EXCEPT !.unit = IF a[1] = "TexCoord" THEN Unknown ELSE @]
    BY DEF glVertexAttribArray
  <1>5. ToldOK' /\ told'.vao = told.vao
    BY <1>1, <1>4, AttribsAreArrays DEF ToldOK, ToldState
  <1>6. Heard'
    <2>1. /\ guest'.ptr = guest.ptr /\ a \in Slot /\ a \in Arrays
          /\ guest'.enable = [guest.enable EXCEPT ![a] = on]
          /\ a[1] # "TexCoord" => guest'.texUnit = guest.texUnit
      BY <1>1, <1>3, AttribsAreArrays DEF vtxarry_state, vattr2arry_state, Clients, Arrays
    <2>2. /\ told'.on = IF on THEN told.on \cup {a} ELSE told.on \ {a}
          /\ told'.at = told.at /\ told'.unit = IF a[1] = "TexCoord" THEN Unknown ELSE told.unit
      BY <1>1, <1>4 DEF ToldOK, ToldState
    <2>3. ASSUME NEW b \in told'.on PROVE guest'.enable[b]
      <3>1. told.on \subseteq Arrays /\ guest.enable \in [Arrays -> BOOLEAN]
        BY <1>1 DEF ToldOK, Arrays, Clients
      <3>2. CASE b = a
        BY <2>1, <2>2, <2>3, <3>1, <3>2
      <3>3. CASE b # a
        BY <1>1, <2>1, <2>2, <2>3, <3>1, <3>3 DEF Heard
      <3> QED BY <3>2, <3>3
    <2> QED BY <1>1, <2>1, <2>2, <2>3 DEF Heard
  <1> HIDE DEF call
  <1> QED BY <1>1, <1>2, <1>5, <1>6, SaidInv DEF VaoOp

LEMMA ClientActiveTextureInv ==
  ASSUME IInv, NEW unit \in Units, glClientActiveTexture(unit)
  PROVE  IInv'
  <1> DEFINE call == ActiveCall(unit)
  <1>1. /\ now = <<>> /\ Say(call, 0) /\ guest' = AfterCall(guest, call) /\ WrapperOK'
        /\ guest \in Clients /\ ToldOK /\ Heard
    BY TellParts DEF glClientActiveTexture
  <1>2. IsCall(call) /\ call.client = guest /\ call.op = "active"
    BY <1>1 DEF ActiveCall, IsCall
  <1>3. guest' = [guest EXCEPT !.texUnit = unit]
    BY <1>1 DEF AfterCall, ActiveCall
  <1>4. told' = [told EXCEPT !.unit = unit]
    BY DEF glClientActiveTexture
  <1>5. ToldOK' /\ told'.vao = told.vao
    BY <1>1, <1>4 DEF ToldOK
  <1>6. Heard'
    BY <1>1, <1>3, <1>4 DEF Heard, ToldOK, Clients
  <1> HIDE DEF call
  <1> QED BY <1>1, <1>2, <1>5, <1>6, SaidInv DEF VaoOp

LEMMA BindBufferInv ==
  ASSUME IInv, NEW target \in {"array", "element"}, NEW name \in Buf \cup {0},
         glBindBuffer(target, name)
  PROVE  IInv'
  <1> DEFINE call == BindCall(target, name)
  <1>1. /\ now = <<>> /\ Say(call, 0) /\ guest' = AfterCall(guest, call) /\ WrapperOK'
        /\ guest \in Clients /\ ToldOK /\ Heard
    BY TellParts DEF glBindBuffer
  <1>2. IsCall(call) /\ call.client = guest /\ call.op = "bind"
    BY <1>1 DEF BindCall, IsCall
  <1>3. guest' = BindBuffer(guest, target, name)
    BY <1>1 DEF AfterCall, BindCall
  <1>4. told' = IF target = "array" /\ name = 0 THEN Forget(told) ELSE told
    BY DEF glBindBuffer
  <1>5. ToldOK' /\ told'.vao = told.vao /\ told'.on = told.on /\ told'.unit = told.unit
    BY <1>1, <1>4, Forgotten DEF ToldOK
  <1>6. Heard'
    <2>1. /\ guest'.enable = guest.enable /\ guest'.texUnit = guest.texUnit
          /\ ~(target = "array" /\ name = 0) => guest'.ptr = guest.ptr
      BY <1>1, <1>3 DEF BindBuffer, UnderVao, vtxarry_ptr_reset, Clients
    <2>2. \A b \in Slot : told'.at[b] # 0 =>
            told'.at[b] = told.at[b] /\ ~(target = "array" /\ name = 0)
      BY <1>1, <1>4, Forgotten
    <2> QED BY <1>1, <1>5, <2>1, <2>2 DEF Heard
  <1> HIDE DEF call
  <1> QED BY <1>1, <1>2, <1>5, <1>6, SaidInv DEF VaoOp

LEMMA DeleteBuffersInv ==
  ASSUME IInv, NEW name \in Buf, glDeleteBuffers(name)
  PROVE  IInv'
  <1> DEFINE call == NameCall("delete", name)
  <1>1. /\ now = <<>> /\ Say(call, Words(4)) /\ guest' = AfterCall(guest, call) /\ WrapperOK'
        /\ guest \in Clients /\ ToldOK /\ Heard
    BY TellParts DEF glDeleteBuffers
  <1>2. IsCall(call) /\ call.client = guest /\ call.op = "delete"
    BY <1>1 DEF NameCall, IsCall
  <1>3. guest' = DeleteBuffer(guest, name)
    BY <1>1 DEF AfterCall, NameCall
  <1>4. told' = Forget(told)
    BY DEF glDeleteBuffers
  <1>5. /\ ToldOK' /\ told'.vao = told.vao /\ told'.on = told.on /\ told'.unit = told.unit
        /\ \A b \in Slot : told'.at[b] = 0
    BY <1>1, <1>4, Forgotten DEF ToldOK
  <1>6. Heard'
    <2>1. guest'.enable = guest.enable /\ guest'.texUnit = guest.texUnit
      BY <1>1, <1>3 DEF DeleteBuffer, UnderVao, vtxarry_ptr_reset, Clients
    <2> QED BY <1>1, <1>5, <2>1 DEF Heard
  <1> HIDE DEF call
  <1> QED BY <1>1, <1>2, <1>5, <1>6, SaidInv DEF VaoOp

LEMMA BindVaoInv ==
  ASSUME IInv, NEW name \in Vao \cup {0}, glBindVertexArray(name)
  PROVE  IInv'
  <1> DEFINE call == NameCall("bindvao", name)
  <1>1. /\ now = <<>> /\ Say(call, 0) /\ guest' = AfterCall(guest, call) /\ WrapperOK'
        /\ guest \in Clients /\ ToldOK /\ Heard
    BY TellParts DEF glBindVertexArray
  <1>2. IsCall(call) /\ call.client = guest /\ call.op = "bindvao"
    BY <1>1 DEF NameCall, IsCall
  <1>3. guest' = BindVertexArray(guest, name)
    BY <1>1 DEF AfterCall, NameCall
  <1>4. told' = [Forget(told) EXCEPT !.vao = TRUE]
    BY DEF glBindVertexArray
  <1>5. /\ ToldOK' /\ told'.vao = TRUE /\ told'.on = told.on /\ told'.unit = told.unit
        /\ \A b \in Slot : told'.at[b] = 0
    BY <1>1, <1>4, Forgotten DEF ToldOK
  <1>6. Heard'
    <2>1. guest'.enable = guest.enable /\ guest'.texUnit = guest.texUnit
      BY <1>1, <1>3 DEF BindVertexArray, Clients
    <2> QED BY <1>1, <1>5, <2>1 DEF Heard
  <1> HIDE DEF call
  <1> QED BY <1>1, <1>2, <1>5, <1>6, SaidInv DEF VaoOp

LEMMA DeleteVaoInv ==
  ASSUME IInv, NEW name \in Vao, glDeleteVertexArrays(name)
  PROVE  IInv'
  <1> DEFINE call == NameCall("deletevao", name)
  <1>1. /\ now = <<>> /\ Say(call, Words(4)) /\ guest' = AfterCall(guest, call) /\ WrapperOK'
        /\ guest \in Clients /\ ToldOK /\ Heard
    BY TellParts DEF glDeleteVertexArrays
  <1>2. IsCall(call) /\ call.client = guest /\ call.op = "deletevao"
    BY <1>1 DEF NameCall, IsCall
  <1>3. guest' = DeleteVertexArray(guest, name)
    BY <1>1 DEF AfterCall, NameCall
  <1>4. told' = [Forget(told) EXCEPT !.vao = TRUE]
    BY DEF glDeleteVertexArrays
  <1>5. /\ ToldOK' /\ told'.vao = TRUE /\ told'.on = told.on /\ told'.unit = told.unit
        /\ \A b \in Slot : told'.at[b] = 0
    BY <1>1, <1>4, Forgotten DEF ToldOK
  <1>6. Heard'
    <2>1. guest'.enable = guest.enable /\ guest'.texUnit = guest.texUnit
      BY <1>1, <1>3 DEF DeleteVertexArray, BindVertexArray, Clients
    <2> QED BY <1>1, <1>5, <2>1 DEF Heard
  <1> HIDE DEF call
  <1> QED BY <1>1, <1>2, <1>5, <1>6, SaidInv DEF VaoOp

\* What is left when neither side's client state nor the queue moves.
LEMMA QuietInv ==
  ASSUME IInv, UNCHANGED <<guest, host, cached, queue, now, told>>, WrapperOK'
  PROVE  IInv'
  <1>1. PendingOK /\ ToldOK /\ Chained /\ GuestAhead /\ Heard /\ (~told.vao => NoVao /\ CacheOnly)
    BY TypeParts DEF IInv
  <1>2. PendingOK' /\ ToldOK'
    BY <1>1 DEF PendingOK, ToldOK
  <1>3. Chained' /\ GuestAhead'
    BY <1>1 DEF Chained, GuestAhead, After
  <1>4. Heard' /\ (~told'.vao => NoVao' /\ CacheOnly')
    BY <1>1 DEF Heard, NoVao, CacheOnly
  <1> QED BY <1>2, <1>3, <1>4 DEF IInv, PendingOK, WrapperOK, ToldOK, TypeOK, Own

\* What the application wants of a draw is in its parcel.
LEMMA DrawIsCall ==
  ASSUME guest \in Clients, ToldOK, Heard, NEW d \in Draw
  PROVE  IsCall(DrawCall(d)) /\ DrawCall(d).client = guest /\ DrawCall(d).op = "draw"
  <1> DEFINE call == DrawCall(d)
             p == Parcel(guest, d)
             w == Want(d)
  <1>1. /\ call.client = guest /\ call.op = "draw" /\ call.draw = d
        /\ call.parcel = p /\ call.want = w
    BY DEF DrawCall
  <1>2. ASSUME NEW a \in DOMAIN w
        PROVE  a \in DOMAIN p.arrays /\ p.arrays[a].ptr = w[a]
    <2>1. /\ a \in told.on /\ told.at[a] # 0 /\ ~guest.enable[Inter] /\ PushesArrays(guest, d)
          /\ w[a] = told.at[a]
      BY <1>2 DEF Want
    <2>2. a \in Slot /\ guest.enable[a] /\ guest.ptr[a] = told.at[a]
      BY <2>1 DEF Heard, ToldOK
    <2>3. a \in Pushed(guest)
      BY <2>1, <2>2 DEF Pushed
    <2>4. /\ p.arrays = [b \in Pushed(guest) |->
                          [ptr |-> guest.ptr[b], skip |-> Stride(guest.fmt[b]) * First(d),
                           words |-> Words(Extent(guest.fmt[b], d))]]
      BY <2>1 DEF Parcel
    <2> QED BY <2>1, <2>2, <2>3, <2>4
  <1> HIDE DEF call, p, w
  <1>3. IsCall(call)
    BY <1>1, <1>2 DEF IsCall, p
  <1> QED BY <1>1, <1>3 DEF call

LEMMA SayDrawInv ==
  ASSUME IInv, now = <<>>, NEW d \in Draw, NEW words, Say(DrawCall(d), words), WrapperOK',
         told' = told
  PROVE  IInv'
  <1> DEFINE call == DrawCall(d)
  <1>1. guest \in Clients /\ ToldOK /\ Heard
    BY TypeParts DEF IInv, PendingOK
  <1>2. IsCall(call) /\ call.client = guest /\ call.op = "draw"
    BY <1>1, DrawIsCall
  <1>3. Say(call, words) /\ guest' = AfterCall(guest, call)
    BY DEF Say
  <1>4. guest' \in {guest, vtxarry_state(guest, Inter, FALSE)}
    BY <1>2, <1>3 DEF AfterCall, AfterPush
  <1>5. ToldOK' /\ told'.vao = told.vao
    BY <1>1 DEF ToldOK
  <1>6. Heard'
    <2>1. /\ guest'.ptr = guest.ptr /\ guest'.texUnit = guest.texUnit
          /\ \A b \in Slot : guest'.enable[b] = guest.enable[b]
      BY <1>1, <1>4, InterIsNoSlot DEF vtxarry_state, Clients, Arrays
    <2>2. told.on \subseteq Slot
      BY <1>1 DEF ToldOK
    <2> QED BY <1>1, <2>1, <2>2 DEF Heard
  <1> HIDE DEF call
  <1> QED BY <1>2, <1>3, <1>5, <1>6, SaidInv DEF VaoOp

LEMMA DrawInv ==
  ASSUME IInv, NEW d \in Draw, glDraw(d)
  PROVE  IInv'
  <1>1. pc = "app" /\ now = <<>> /\ told' = told /\ WrapperOK
    BY TypeParts DEF glDraw, Free, Waiting, IInv
  <1>2. CASE PushesArrays(guest, d)
    <2>1. /\ pc' = "prep" /\ drawing' = <<d>>
          /\ UNCHANGED <<guest, host, cached, queue, now, told>>
      BY <1>1, <1>2 DEF glDraw
    <2>2. drawing'[1] \in Draw
      BY <2>1
    <2>3. WrapperOK'
      BY <2>1, <2>2 DEF WrapperOK
    <2> QED BY <2>1, <2>3, QuietInv
  <1>3. CASE ~PushesArrays(guest, d)
    <2>1. /\ Say(DrawCall(d), ParcelWords(Parcel(guest, d)))
          /\ UNCHANGED <<pc, drawing>>
      BY <1>3 DEF glDraw
    <2>2. WrapperOK'
      BY <1>1, <2>1 DEF WrapperOK
    <2> QED BY <1>1, <2>1, <2>2, SayDrawInv
  <1> QED BY <1>2, <1>3

LEMMA PrepSelectInv ==
  ASSUME IInv, NEW u \in Units, PrepSelect(u)
  PROVE  IInv'
  <1> DEFINE call == ActiveCall(u)
  <1>1. /\ now = <<>> /\ Say(call, 0) /\ guest' = AfterCall(guest, call)
        /\ pc = "prep" /\ pc' = "disable" /\ drawing' = drawing
    BY DEF PrepSelect, Waiting, Say
  <1>2. guest \in Clients /\ WrapperOK /\ ToldOK /\ Heard
    BY TypeParts DEF IInv, PendingOK
  <1>3. IsCall(call) /\ call.client = guest /\ call.op = "active"
    BY <1>2 DEF ActiveCall, IsCall
  <1>4. guest' = [guest EXCEPT !.texUnit = u]
    BY <1>1 DEF AfterCall, ActiveCall
  <1>5. told' = [told EXCEPT !.unit = Unknown]
    BY DEF PrepSelect
  <1>6. ToldOK' /\ told'.vao = told.vao
    BY <1>2, <1>5 DEF ToldOK
  <1>7. Heard'
    BY <1>2, <1>4, <1>5 DEF Heard, ToldOK, Clients
  <1>8. WrapperOK'
    BY <1>1, <1>2 DEF WrapperOK
  <1> HIDE DEF call
  <1> QED BY <1>1, <1>3, <1>6, <1>7, <1>8, SaidInv DEF VaoOp

LEMMA PrepDisableInv ==
  ASSUME IInv, PrepDisable
  PROVE  IInv'
  <1> DEFINE call == TexStateCall(FALSE)
             a == TexArray(guest)
  <1>1. /\ now = <<>> /\ Say(call, 0) /\ guest' = AfterCall(guest, call)
        /\ pc = "disable" /\ pc' = "prep" /\ drawing' = drawing
    BY DEF PrepDisable, Waiting, Say
  <1>2. guest \in Clients /\ WrapperOK /\ ToldOK /\ Heard
    BY TypeParts DEF IInv, PendingOK
  <1>3. IsCall(call) /\ call.client = guest /\ call.op = "texstate"
    BY <1>2 DEF TexStateCall, IsCall
  <1>4. guest' = vtxarry_state(guest, a, FALSE)
    BY <1>1 DEF AfterCall, TexStateCall
  <1>5. told' = [told EXCEPT !.on = told.on \ {a}]
    BY <1>2 DEF PrepDisable, ToldOK
  <1> HIDE DEF a
  <1>6. ToldOK' /\ told'.vao = told.vao
    BY <1>2, <1>5 DEF ToldOK
  <1>7. Heard'
    <2>1. /\ guest'.ptr = guest.ptr /\ guest'.texUnit = guest.texUnit
          /\ \A b \in Slot : b # a => guest'.enable[b] = guest.enable[b]
      BY <1>2, <1>4 DEF vtxarry_state, Clients, Arrays
    <2>2. /\ told'.on = told.on \ {a} /\ told'.on \subseteq Slot /\ told'.at = told.at
          /\ told'.unit = told.unit
      BY <1>2, <1>5 DEF ToldOK
    <2> QED BY <1>2, <2>1, <2>2 DEF Heard
  <1>8. WrapperOK'
    BY <1>1, <1>2 DEF WrapperOK
  <1> HIDE DEF call
  <1> QED BY <1>1, <1>3, <1>6, <1>7, <1>8, SaidInv DEF VaoOp

\* Before a draw the wrapper may wait for the queue, in a call without effect.
LEMMA PrepRoomInv ==
  ASSUME IInv, PrepRoom
  PROVE  IInv'
  <1>1. /\ now = <<>> /\ pc = "prep" /\ pc' = "push"
        /\ UNCHANGED <<guest, host, cached, queue, drawing, told>>
        /\ now' = <<FlushCall>> \/ now' = <<>>
    BY DEF PrepRoom, Waiting
  <1>2. /\ PendingOK /\ WrapperOK /\ ToldOK /\ Chained /\ GuestAhead /\ Heard
        /\ ~told.vao => NoVao /\ CacheOnly
    BY TypeParts DEF IInv
  <1>3. WrapperOK'
    BY <1>1, <1>2 DEF WrapperOK
  <1>4. CASE now' = <<>>
    BY <1>1, <1>3, <1>4, QuietInv
  <1>5. CASE now' = <<FlushCall>>
    <2>1. now' # <<>> /\ now'[1] = FlushCall /\ now' = <<now'[1]>>
      BY <1>5
    <2>2. FlushCall.client = guest /\ FlushCall.op = "flush" /\ After(FlushCall) = guest
      BY DEF FlushCall, After, AfterCall
    <2>3. guest \in Clients
      BY <1>2 DEF PendingOK
    <2>4. IsCall(FlushCall)
      BY <2>2, <2>3 DEF IsCall
    <2> HIDE DEF FlushCall
    <2>5. PendingOK'
      BY <1>1, <1>2, <2>1, <2>4 DEF PendingOK
    <2>6. Chained'
      BY <1>1, <1>2, <2>1, <2>2 DEF Chained, GuestAhead, After
    <2>7. GuestAhead'
      BY <1>1, <2>1, <2>2 DEF GuestAhead, After
    <2>8. ToldOK' /\ Heard'
      BY <1>1, <1>2 DEF ToldOK, Heard
    <2>9. ~told'.vao => NoVao' /\ CacheOnly'
      BY <1>1, <1>2, <2>1, <2>2 DEF NoVao, CacheOnly
    <2> QED BY <1>3, <2>5, <2>6, <2>7, <2>8, <2>9 DEF IInv, PendingOK, WrapperOK, ToldOK, TypeOK, Own
  <1> QED BY <1>1, <1>4, <1>5

LEMMA PushInv ==
  ASSUME IInv, Push
  PROVE  IInv'
  <1>1. /\ now = <<>> /\ pc = "push" /\ pc' = "app" /\ drawing' = <<>> /\ told' = told
        /\ Say(DrawCall(drawing[1]), ParcelWords(Parcel(guest, drawing[1])))
    BY DEF Push, Waiting
  <1>2. drawing[1] \in Draw /\ WrapperOK'
    BY <1>1, TypeParts DEF IInv, WrapperOK
  <1> QED BY <1>1, <1>2, SayDrawInv

-----------------------------------------------------------------------------
(* The invariant, and what it says of every draw the device takes.         *)

LEMMA NextInv == IInv /\ [Next]_vars => IInv'
  <1> SUFFICES ASSUME IInv, [Next]_vars PROVE IInv'
    OBVIOUS
  <1>1. CASE Guest
    <2>1. Attribs \subseteq Slot
      BY AttribsAreArrays
    <2>2. ASSUME NEW a \in {b \in Slot : b[1] # "TexCoord" \/ b \in Attribs}, NEW fmt \in Format,
                 NEW ptr \in Ptr, glPointer(a, fmt, ptr)
          PROVE  IInv'
      BY <2>2, PointerInv
    <2>3. ASSUME NEW fmt \in Format, NEW ptr \in Ptr, Units # {}, glTexCoordPointer(fmt, ptr)
          PROVE  IInv'
      BY <2>3, TexPointerInv
    <2>4. ASSUME NEW fmt \in Format, NEW ptr \in Ptr, glInterleavedArrays(fmt, ptr) PROVE IInv'
      BY <2>4, InterleavedInv
    <2>5. ASSUME NEW a \in {b \in Slot : b[1] # "TexCoord"}, NEW on \in BOOLEAN,
                 glClientState(a, on)
          PROVE  IInv'
      BY <2>5, ClientStateInv
    <2>6. ASSUME NEW on \in BOOLEAN, Units # {}, glTexCoordState(on) PROVE IInv'
      BY <2>6, TexCoordStateInv
    <2>7. ASSUME NEW a \in Attribs, NEW on \in BOOLEAN, glVertexAttribArray(a, on) PROVE IInv'
      BY <2>7, VertexAttribArrayInv
    <2>8. ASSUME NEW unit \in Units, glClientActiveTexture(unit) PROVE IInv'
      BY <2>8, ClientActiveTextureInv
    <2>9. ASSUME NEW target \in {"array", "element"}, NEW name \in Buf \cup {0},
                 glBindBuffer(target, name)
          PROVE  IInv'
      BY <2>9, BindBufferInv
    <2>10. ASSUME NEW name \in Buf, glDeleteBuffers(name) PROVE IInv'
      BY <2>10, DeleteBuffersInv
    <2>11. ASSUME NEW name \in Vao \cup {0}, glBindVertexArray(name) PROVE IInv'
      BY <2>11, BindVaoInv
    <2>12. ASSUME NEW name \in Vao, glDeleteVertexArrays(name) PROVE IInv'
      BY <2>12, DeleteVaoInv
    <2>13. ASSUME NEW d \in Draw, glDraw(d) PROVE IInv'
      BY <2>13, DrawInv
    <2>14. ASSUME NEW u \in Units, PrepSelect(u) PROVE IInv'
      BY <2>14, PrepSelectInv
    <2> QED BY <1>1, <2>2, <2>3, <2>4, <2>5, <2>6, <2>7, <2>8, <2>9, <2>10, <2>11, <2>12, <2>13,
               <2>14, PrepDisableInv, PrepRoomInv, PushInv DEF Guest
  <1>2. CASE DrainOne \/ CarryOutNow
    BY <1>2, DrainOneInv, CarryOutNowInv
  <1>3. CASE UNCHANGED vars
    BY <1>3, QuietInv, TypeParts DEF vars, IInv, WrapperOK
  <1> QED BY <1>1, <1>2, <1>3 DEF Next

(* Always, whatever is enabled, bound and drawn: the pending calls lead    *)
(* from the device's client state to the wrapper's, and the wrapper has    *)
(* heard what the application said.                                        *)
THEOREM ClientsChained == Spec => []IInv
  <1>1. IInv /\ [Next]_vars => IInv'
    BY NextInv
  <1> QED BY <1>1, InitInv, PTL DEF Spec

(* Both client states, and the calls under way, are ones the wrapper can   *)
(* bring about, in any order of calls.                                     *)
THEOREM ArraysTyped == Spec => []TypeOK
  <1>1. IInv => TypeOK
    BY DEF IInv
  <1> QED BY <1>1, ClientsChained, PTL

\* A draw the device takes finds its own client state where the wrapper's was.
LEMMA TakesDrawAtHost ==
  ASSUME IInv, TakesDraw
  PROVE  IsCall(NextUp) /\ NextUp.op = "draw" /\ NextUp.client = host
  <1>1. PendingOK /\ Chained /\ now # <<>> /\ NextUp.op = "draw"
    BY TypeParts DEF IInv, TakesDraw, Waiting
  <1>2. CASE queue # <<>>
    <2>1. Head(queue) = queue[1] /\ 1 \in 1..Len(queue)
      BY <1>1, <1>2, OneLess DEF PendingOK
    <2> QED BY <1>1, <1>2, <2>1 DEF PendingOK, Chained, NextUp
  <1>3. CASE queue = <<>>
    BY <1>1, <1>3 DEF PendingOK, Chained, NextUp
  <1> QED BY <1>1, <1>2, <1>3

(* The device copies with every draw exactly what the wrapper sent with    *)
(* it, from the client state it has kept itself.                           *)
THEOREM DeviceKnowsArrays == Spec => []ArraysAgree
  <1>1. ASSUME IInv PROVE ArraysAgree
    BY <1>1, TakesDrawAtHost, DrawParts DEF ArraysAgree
  <1> QED BY <1>1, ClientsChained, PTL

(* Every array the application enabled and pointed to in its own memory is *)
(* among those the device copies with a draw, at the place of its pointer. *)
THEOREM NoArrayLost == Spec => []DrawsComplete
  <1>1. ASSUME IInv PROVE DrawsComplete
    <2>1. ASSUME TakesDraw, NEW a \in DOMAIN NextUp.want
          PROVE  LET arrays == Parcel(host, NextUp.draw).arrays IN
                 a \in DOMAIN arrays /\ arrays[a].ptr = NextUp.want[a]
      BY <1>1, <2>1, TakesDrawAtHost, DrawParts
    <2> QED BY <2>1 DEF DrawsComplete
  <1> QED BY <1>1, ClientsChained, PTL

(* Without vertex array objects, the device writes arrays to its cache     *)
(* only, except with glArrayElement and glLockArraysEXT.                   *)
THEOREM NothingBesideCache == Spec => []PushesToCache
  <1>1. ASSUME IInv PROVE PushesToCache
    <2> DEFINE d == NextUp.draw
    <2> SUFFICES ASSUME TakesDraw, d.kind \notin {"element", "lock"}, ~told.vao
                 PROVE  DOMAIN Parcel(host, d).arrays \subseteq cached
      BY DEF PushesToCache
    <2>1. d \in Draw
      BY <1>1, TakesDrawAtHost, DrawParts
    <2>2. DOMAIN Parcel(host, d).arrays = IF PushesArrays(host, d) THEN Pushed(host) ELSE {}
      BY DEF Parcel
    <2>3. CASE PushesArrays(host, d)
      <3>1. host.arrayBuf = 0
        BY <2>1, <2>3, DrawsAreDraws DEF PushesArrays, Indexed
      <3>2. CacheOnly
        BY <1>1 DEF IInv
      <3>3. Pushed(host) \subseteq cached
        BY <3>1, <3>2 DEF CacheOnly, Pushed
      <3> QED BY <2>2, <2>3, <3>3
    <2>4. CASE ~PushesArrays(host, d)
      BY <2>2, <2>4
    <2> QED BY <2>3, <2>4
  <1> QED BY <1>1, ClientsChained, PTL

-----------------------------------------------------------------------------
(* Sums over finite sets, by taking the least set for which a claim fails. *)

\* The term of the sum over s, and what is left.
Picked(s) == CHOOSE x \in s : TRUE

Upto(S, n) == {s \in SUBSET S : Cardinality(s) <= n}

\* it maps each set of Sets to the sum of f over it.
Adds(it, f, Sets) ==
  it = [s \in Sets |-> IF s = {} THEN 0 ELSE f[Picked(s)] + it[s \ {Picked(s)}]]

LEMMA SumIs ==
  ASSUME NEW f
  PROVE SumFunction(f) = (CHOOSE it : Adds(it, f, SUBSET DOMAIN f))[DOMAIN f]
BY Zenon DEF SumFunction, SumFunctionOnSet, FoldFunctionOnSet, MapThenFoldSet, Adds, Picked

LEMMA LeastNat ==
  ASSUME NEW T, T \subseteq Nat, T # {}
  PROVE  \E m \in T : \A k \in T : m <= k
<1>1. PICK m \in T : \A k \in T : <<k, m>> \notin OpToRel(<, Nat)
  BY NatLessThanWellFounded, WFMin, Zenon
<1>2. \A k \in T : ~ (k < m)
  BY <1>1 DEF OpToRel
<1> QED BY <1>2

LEMMA LeastSubset ==
  ASSUME NEW S, IsFiniteSet(S), NEW T, T \subseteq SUBSET S, T # {}
  PROVE  \E s \in T : \A t \in T : t \subseteq s => t = s
<1>1. IsWellFoundedOn(StrictSubsetOrdering(S), SUBSET S)
  BY FS_StrictSubsetOrderingWellFounded, FS_FiniteSubsetsOfFinite
<1>2. PICK s \in T : \A t \in T : <<t, s>> \notin StrictSubsetOrdering(S)
  BY <1>1, WFMin, Zenon
<1> QED BY <1>2 DEF StrictSubsetOrdering

LEMMA PickedIn == ASSUME NEW s, s # {} PROVE Picked(s) \in s
  BY DEF Picked

LEMMA Smaller ==
  ASSUME NEW S, IsFiniteSet(S), NEW n \in Nat, NEW s \in Upto(S, n), s # {}
  PROVE  /\ s \ {Picked(s)} \in SUBSET S
         /\ Cardinality(s \ {Picked(s)}) = Cardinality(s) - 1
         /\ s \ {Picked(s)} \in Upto(S, n - 1)
         /\ s \ {Picked(s)} \in Upto(S, n)
<1>1. s \in SUBSET S /\ IsFiniteSet(s) /\ Picked(s) \in s
  BY PickedIn, FS_Subset DEF Upto
<1>2. Cardinality(s) \in Nat /\ Cardinality(s \ {Picked(s)}) = Cardinality(s) - 1
  BY <1>1, FS_RemoveElement, FS_CardinalityType
<1> QED BY <1>1, <1>2 DEF Upto

LEMMA AddsUpto ==
  ASSUME NEW f, NEW S, IsFiniteSet(S), NEW n \in Nat
  PROVE  \E it : Adds(it, f, Upto(S, n))
<1> DEFINE Bad == {k \in Nat : ~ \E it : Adds(it, f, Upto(S, k))}
<1> SUFFICES ASSUME Bad # {} PROVE FALSE
  OBVIOUS
<1>1. PICK m \in Bad : \A k \in Bad : m <= k
  <2> Bad \subseteq Nat OBVIOUS
  <2> HIDE DEF Bad
  <2> QED BY LeastNat
<1>2. CASE m = 0
  <2>1. Upto(S, 0) = {{}}
    <3>1. \A s \in SUBSET S : IsFiniteSet(s) /\ Cardinality(s) \in Nat /\ (Cardinality(s) = 0 <=> s = {})
      BY FS_Subset, FS_EmptySet, FS_CardinalityType
    <3> QED BY <3>1, FS_EmptySet DEF Upto
  <2>2. Adds([s \in Upto(S, 0) |-> 0], f, Upto(S, 0))
    BY <2>1 DEF Adds
  <2> QED BY <1>1, <1>2, <2>2
<1>3. CASE m > 0
  <2>1. m \in Nat /\ m - 1 \in Nat /\ m - 1 \notin Bad
    BY <1>1, <1>3
  <2>2. PICK g : Adds(g, f, Upto(S, m - 1))
    BY <2>1
  <2> DEFINE h == [s \in Upto(S, m) |-> IF s = {} THEN 0 ELSE f[Picked(s)] + g[s \ {Picked(s)}]]
  <2>3. \A s \in Upto(S, m - 1) : s \in Upto(S, m)
    BY <2>1, FS_Subset, FS_CardinalityType DEF Upto
  <2>4. \A s \in Upto(S, m - 1) : h[s] = g[s]
    BY <2>2, <2>3 DEF Adds
  <2>5. \A s \in Upto(S, m) : s # {} => h[s \ {Picked(s)}] = g[s \ {Picked(s)}]
    BY <2>1, <2>4, Smaller
  <2>6. h = [s \in Upto(S, m) |-> IF s = {} THEN 0 ELSE f[Picked(s)] + h[s \ {Picked(s)}]]
    BY <2>5
  <2>7. Adds(h, f, Upto(S, m))
    <3> HIDE DEF h
    <3> QED BY <2>6 DEF Adds
  <2> QED BY <1>1, <2>7
<1> QED BY <1>1, <1>2, <1>3

\* What a sum over a finite set is, term by term.
LEMMA SumSteps ==
  ASSUME NEW f, IsFiniteSet(DOMAIN f)
  PROVE  \E it : /\ SumFunction(f) = it[DOMAIN f] /\ it[{}] = 0
                 /\ \A s \in SUBSET DOMAIN f : s # {} => it[s] = f[Picked(s)] + it[s \ {Picked(s)}]
<1> DEFINE D == DOMAIN f
<1>1. SUBSET D = Upto(D, Cardinality(D)) /\ Cardinality(D) \in Nat
  <2>1. \A s \in SUBSET D : IsFiniteSet(s) /\ Cardinality(s) <= Cardinality(D)
    BY FS_Subset
  <2> QED BY <2>1, FS_CardinalityType DEF Upto
<1> HIDE DEF D
<1>2. \E t : Adds(t, f, SUBSET D)
  <2>1. IsFiniteSet(D)
    BY DEF D
  <2>2. \E t : Adds(t, f, Upto(D, Cardinality(D)))
    BY <1>1, <2>1, AddsUpto
  <2> QED BY <1>1, <2>2, Zenon
<1>3. Adds(CHOOSE t : Adds(t, f, SUBSET D), f, SUBSET D)
  BY <1>2
<1>4. SumFunction(f) = (CHOOSE t : Adds(t, f, SUBSET D))[D]
  BY SumIs, Zenon DEF D
<1>5. PICK it : Adds(it, f, SUBSET D) /\ SumFunction(f) = it[D]
  BY <1>3, <1>4, Zenon
<1>6. it = [s \in SUBSET D |-> IF s = {} THEN 0 ELSE f[Picked(s)] + it[s \ {Picked(s)}]]
  BY <1>5 DEF Adds
<1>7. it[{}] = 0
  BY <1>6
<1>8. \A s \in SUBSET D : s # {} => it[s] = f[Picked(s)] + it[s \ {Picked(s)}]
  BY <1>6
<1> QED BY <1>5, <1>7, <1>8, Zenon DEF D

\* Sums of whole numbers are whole numbers.
LEMMA SumInt ==
  ASSUME NEW f, IsFiniteSet(DOMAIN f), \A x \in DOMAIN f : f[x] \in Int
  PROVE  SumFunction(f) \in Int
<1> DEFINE D == DOMAIN f
<1>1. PICK it : /\ SumFunction(f) = it[DOMAIN f] /\ it[{}] = 0
                /\ \A s \in SUBSET DOMAIN f : s # {} => it[s] = f[Picked(s)] + it[s \ {Picked(s)}]
  BY SumSteps, Zenon
<1> DEFINE Bad == {s \in SUBSET D : it[s] \notin Int}
<1>2. ASSUME Bad # {} PROVE FALSE
  <2>1. PICK s \in Bad : \A t \in Bad : t \subseteq s => t = s
    <3> Bad \subseteq SUBSET D OBVIOUS
    <3> HIDE DEF Bad
    <3> QED BY <1>2, LeastSubset
  <2>1a. s # {}
    <3>1. s = {} => it[s] = 0
      BY <1>1, Zenon
    <3> QED BY <2>1, <3>1
  <2>2. s # {} /\ Picked(s) \in s
    BY <2>1a, PickedIn
  <2> DEFINE r == s \ {Picked(s)}
  <2>3. r \in SUBSET D /\ it[r] \in Int
    BY <2>1, <2>2
  <2>4. it[s] = f[Picked(s)] + it[r] /\ f[Picked(s)] \in Int
    BY <1>1, <2>1, <2>2
  <2> HIDE DEF r
  <2>5. it[s] \in Int
    BY <2>3, <2>4
  <2> QED BY <2>1, <2>5
<1> QED BY <1>1, <1>2

\* A common factor can be taken out of a sum.
LEMMA SumTimes ==
  ASSUME NEW f, NEW g, NEW k \in Int, IsFiniteSet(DOMAIN f), DOMAIN g = DOMAIN f,
         \A x \in DOMAIN f : g[x] \in Int /\ f[x] = k * g[x]
  PROVE  SumFunction(f) = k * SumFunction(g)
<1> DEFINE D == DOMAIN f
<1>1. PICK it : /\ SumFunction(f) = it[DOMAIN f] /\ it[{}] = 0
                /\ \A s \in SUBSET DOMAIN f : s # {} => it[s] = f[Picked(s)] + it[s \ {Picked(s)}]
  BY SumSteps, Zenon
<1>2. PICK jt : /\ SumFunction(g) = jt[DOMAIN g] /\ jt[{}] = 0
                /\ \A s \in SUBSET DOMAIN g : s # {} => jt[s] = g[Picked(s)] + jt[s \ {Picked(s)}]
  BY SumSteps, Zenon
<1> DEFINE Bad == {s \in SUBSET D : ~ (jt[s] \in Int /\ it[s] = k * jt[s])}
<1>3. ASSUME Bad # {} PROVE FALSE
  <2>1. PICK s \in Bad : \A t \in Bad : t \subseteq s => t = s
    <3> Bad \subseteq SUBSET D OBVIOUS
    <3> HIDE DEF Bad
    <3> QED BY <1>3, LeastSubset
  <2>1a. s # {}
    <3>1. s = {} => it[s] = 0 /\ jt[s] = 0
      BY <1>1, <1>2, Zenon
    <3>2. k * 0 = 0
      OBVIOUS
    <3> QED BY <2>1, <3>1, <3>2
  <2>2. s # {} /\ Picked(s) \in s
    BY <2>1a, PickedIn
  <2> DEFINE r == s \ {Picked(s)}
  <2>3. r \in SUBSET D /\ jt[r] \in Int /\ it[r] = k * jt[r]
    BY <2>1, <2>2
  <2>4. /\ it[s] = f[Picked(s)] + it[r] /\ jt[s] = g[Picked(s)] + jt[r]
        /\ Picked(s) \in D /\ g[Picked(s)] \in Int /\ f[Picked(s)] = k * g[Picked(s)]
    BY <1>1, <1>2, <2>1, <2>2
  <2>5. \A u, v \in Int : k * u + k * v = k * (u + v)
    OBVIOUS
  <2> HIDE DEF r
  <2>6. jt[s] \in Int /\ it[s] = k * jt[s]
    BY <2>3, <2>4, <2>5
  <2> QED BY <2>1, <2>6
<1> QED BY <1>1, <1>2, <1>3

\* The largest and the least of finitely many numbers.
LEMMA MaxIs ==
  ASSUME NEW S, IsFiniteSet(S)
  PROVE  S \subseteq Int /\ S # {} => Max(S) \in S /\ \A x \in S : x <= Max(S)
<1> DEFINE Bad == {s \in SUBSET S : s # {} /\ ~ \E m \in s : \A x \in s : x <= m}
<1>0. Bad # {} => \E s \in Bad : \A t \in Bad : t \subseteq s => t = s
  <2> Bad \subseteq SUBSET S OBVIOUS
  <2> HIDE DEF Bad
  <2> QED BY LeastSubset
<1> SUFFICES ASSUME S \subseteq Int, S # {}
             PROVE  Max(S) \in S /\ \A x \in S : x <= Max(S)
  OBVIOUS
<1>1. ASSUME Bad # {} PROVE FALSE
  <2>1. PICK s \in Bad : \A t \in Bad : t \subseteq s => t = s
    <3> HIDE DEF Bad
    <3> QED BY <1>0, <1>1
  <2>2. PICK x \in s : TRUE
    BY <2>1
  <2> DEFINE r == s \ {x}
  <2>3. r \notin Bad /\ r \in SUBSET S
    BY <2>1, <2>2
  <2>4. CASE r = {}
    BY <2>1, <2>2, <2>4
  <2>5. CASE r # {}
    <3>1. PICK m \in r : \A y \in r : y <= m
      BY <2>3, <2>5
    <3>2. \A y \in s : y <= IF x <= m THEN m ELSE x
      BY <2>1, <2>2, <3>1
    <3> QED BY <2>1, <2>2, <3>1, <3>2
  <2> QED BY <2>4, <2>5
<1>2. \E m \in S : \A x \in S : x <= m
  BY <1>1
<1> QED BY <1>2 DEF Max

LEMMA MinIs ==
  ASSUME NEW S, S \subseteq Nat, S # {}
  PROVE  Min(S) \in S /\ \A x \in S : Min(S) <= x
<1>1. \E m \in S : \A x \in S : m <= x
  BY LeastNat
<1> QED BY <1>1 DEF Min

-----------------------------------------------------------------------------
(* What goes with a draw.                                                  *)

LEMMA UsedIs ==
  ASSUME NEW idx \in Seq(Nat)
  PROVE  /\ Used(idx) \subseteq Nat /\ IsFiniteSet(Used(idx))
         /\ Highest(idx) \in Nat /\ Lowest(idx) \in Nat /\ Lowest(idx) <= Highest(idx)
         /\ \A x \in Used(idx) : Lowest(idx) <= x /\ x <= Highest(idx)
<1>1. Len(idx) \in Nat /\ IsFiniteSet(1..Len(idx)) /\ idx \in [1..Len(idx) -> Nat]
  <2>1. Len(idx) \in Nat /\ idx \in [1..Len(idx) -> Nat]
    OBVIOUS
  <2> QED BY <2>1, FS_Interval
<1>2. Used(idx) \subseteq Nat /\ IsFiniteSet(Used(idx))
  <2>1. idx \in Surjection(1..Len(idx), Used(idx))
    BY <1>1 DEF Used, Surjection
  <2> QED BY <1>1, <2>1, FS_Surjection DEF Used
<1>3. Highest(idx) \in Used(idx) \cup {0} /\ \A x \in Used(idx) \cup {0} : x <= Highest(idx)
  <2> DEFINE S == Used(idx) \cup {0}
  <2>1. IsFiniteSet(S)
    BY <1>2, FS_AddElement
  <2>2. S \subseteq Int /\ S # {}
    BY <1>2
  <2> HIDE DEF S
  <2>3. Max(S) \in S /\ \A x \in S : x <= Max(S)
    BY <2>1, <2>2, MaxIs
  <2> QED BY <2>3 DEF S, Highest
<1>4. /\ Lowest(idx) \in Used(idx) \cup {Highest(idx)}
      /\ \A x \in Used(idx) \cup {Highest(idx)} : Lowest(idx) <= x
  <2>1. Used(idx) \cup {Highest(idx)} \subseteq Nat
    BY <1>2, <1>3
  <2> QED BY <2>1, MinIs DEF Lowest
<1> QED BY <1>2, <1>3, <1>4

LEMMA DrawSpan ==
  ASSUME NEW d \in Draw
  PROVE  First(d) \in Int /\ Last(d) \in Int
<1>1. d.start \in Int /\ d.end \in Int /\ d.base \in Int /\ d.idx \in Seq(Nat)
  BY DrawsAreDraws
<1> QED BY <1>1, UsedIs DEF First, Last

LEMMA FormatInt ==
  ASSUME NEW c \in Clients, NEW a \in Arrays
  PROVE  c.fmt[a].size \in Nat /\ c.fmt[a].stride \in Nat /\ Stride(c.fmt[a]) \in Nat
<1>1. c.fmt[a] \in Format \cup {NoFormat}
  BY DEF Clients
<1> QED BY <1>1, FormatsAreSizes DEF NoFormat, Stride

LEMMA ExtentInt ==
  ASSUME NEW c \in Clients, NEW a \in Arrays, NEW d \in Draw
  PROVE  Extent(c.fmt[a], d) \in Int
<1>1. Last(d) - First(d) \in Int
  BY DrawSpan
<1>2. \A m \in Nat, k \in Int, n \in Nat : m * k + n \in Int
  OBVIOUS
<1> QED BY <1>1, <1>2, FormatInt DEF Extent

\* fifoAddData takes the bytes counted, rounded up to eight.
LEMMA WordsOfBytes ==
  ASSUME NEW n \in Int
  PROVE  ALIGNED(n) \in Int /\ Words(n) \in Int /\ ALIGNED(n) = 4 * Words(n)
BY DEF ALIGNED, Words

LEMMA ArraysFinite == IsFiniteSet(Arrays)
<1>1. IsFiniteSet({0}) /\ IsFiniteSet({"TexCoord"}) /\ IsFiniteSet({Inter})
  BY FS_Singleton
<1>2. IsFiniteSet(Fixed \X {0}) /\ IsFiniteSet({"TexCoord"} \X Units)
  BY <1>1, ArraysAreFinite, FS_Product
<1> QED BY <1>1, <1>2, FS_Union DEF Arrays, Slot

LEMMA PushedArrays ==
  ASSUME NEW c \in Clients
  PROVE  Pushed(c) \subseteq Arrays /\ IsFiniteSet(Pushed(c))
<1>1. Pushed(c) \subseteq Arrays
  BY DEF Pushed, Arrays
<1> QED BY <1>1, ArraysFinite, FS_Subset

LEMMA IndexWords ==
  ASSUME NEW d \in Draw
  PROVE  IndexBytes(d) \div 4 \in Nat /\ IndexBytes(d) = 4 * (IndexBytes(d) \div 4)
<1>1. Len(d.idx) \in Nat
  BY DrawsAreDraws
<1>2. \A n \in Nat : (8 * n) \div 4 = 2 * n
  OBVIOUS
<1>3. PICK n \in Nat : IndexBytes(d) = 8 * n
  <2>1. \A n \in Nat : (2 * n + 7) \div 8 \in Nat
    OBVIOUS
  <2> QED BY <1>1, <2>1 DEF IndexBytes, ALIGNED
<1> QED BY <1>2, <1>3

LEMMA ParcelInt ==
  ASSUME NEW c \in Clients, NEW d \in Draw
  PROVE  ParcelWords(Parcel(c, d)) \in Int
<1> DEFINE A == IF PushesArrays(c, d) THEN Pushed(c) ELSE {}
           w == [a \in A |-> Words(Extent(c.fmt[a], d))]
<1>1. A \subseteq Arrays /\ IsFiniteSet(A)
  BY PushedArrays, FS_EmptySet
<1>2. \A a \in A : w[a] \in Int
  BY <1>1, ExtentInt, WordsOfBytes
<1>3. SumFunction(w) \in Int
  <2> HIDE DEF A
  <2>1. DOMAIN w = A
    OBVIOUS
  <2> HIDE DEF w
  <2> QED BY <1>1, <1>2, <2>1, SumInt
<1>4. /\ DOMAIN Parcel(c, d).arrays = A
      /\ \A a \in A : Parcel(c, d).arrays[a].words = Words(Extent(c.fmt[a], d))
  BY DEF Parcel
<1>5. [a \in DOMAIN Parcel(c, d).arrays |-> Parcel(c, d).arrays[a].words] = w
  BY <1>4
<1>6. Parcel(c, d).index \in Int
  BY IndexWords DEF Parcel
<1> HIDE DEF w
<1> QED BY <1>3, <1>5, <1>6 DEF ParcelWords

(* The words PrepVertexArray counts before a draw are those that           *)
(* PushVertexArray and fifoAddData take for it, whatever arrays are        *)
(* enabled, of whatever formats, and whatever indices are drawn.           *)
THEOREM CountedIsTaken ==
  ASSUME NEW c \in Clients, NEW d \in Draw, PushesArrays(c, d)
  PROVE  ParcelWords(Parcel(c, d)) = Need(c, d)
<1> DEFINE A == Pushed(c)
           w == [a \in A |-> Words(Extent(c.fmt[a], d))]
           b == [a \in A |-> ALIGNED(Extent(c.fmt[a], d))]
           index == IF PushesIndex(c, d) THEN IndexBytes(d) ELSE 0
<1>1. A \subseteq Arrays /\ IsFiniteSet(A)
  BY PushedArrays
<1>2. \A a \in A : w[a] \in Int /\ b[a] = 4 * w[a]
  BY <1>1, ExtentInt, WordsOfBytes
<1>3. SumFunction(w) \in Int /\ SumFunction(b) = 4 * SumFunction(w)
  <2>1. DOMAIN w = A /\ DOMAIN b = A
    OBVIOUS
  <2> HIDE DEF w, b, A
  <2> QED BY <1>1, <1>2, <2>1, SumInt, SumTimes
<1>4. /\ DOMAIN Parcel(c, d).arrays = A
      /\ \A a \in A : Parcel(c, d).arrays[a].words = Words(Extent(c.fmt[a], d))
      /\ Parcel(c, d).index = IF PushesIndex(c, d) THEN IndexBytes(d) \div 4 ELSE 0
  BY DEF Parcel
<1>5. [a \in DOMAIN Parcel(c, d).arrays |-> Parcel(c, d).arrays[a].words] = w
  BY <1>4
<1>6. index \in Nat /\ Parcel(c, d).index \in Nat /\ index = 4 * Parcel(c, d).index
  BY <1>4, IndexWords
<1>7. Need(c, d) = (index + SumFunction(b)) \div 4
  BY DEF Need
<1>8. \A i, s \in Int : (4 * i + 4 * s) \div 4 = i + s
  OBVIOUS
<1> HIDE DEF w, b, index
<1> QED BY <1>3, <1>5, <1>6, <1>7, <1>8 DEF ParcelWords

(* Of each array that goes with a draw, the bytes sent reach over every    *)
(* element the draw reads: all from the first to the last, and with an     *)
(* index list every element it names.                                      *)
THEOREM ElementsAreSent ==
  ASSUME NEW c \in Clients, NEW d \in Draw, PushesArrays(c, d), NEW a \in Pushed(c), NEW e \in Int,
         \/ First(d) <= e /\ e <= Last(d)
         \/ d.kind = "elements" /\ e - d.base \in Used(d.idx)
  PROVE  LET sent == Parcel(c, d).arrays[a]
             place == Stride(c.fmt[a]) * e
         IN  sent.skip <= place /\ place + c.fmt[a].size <= sent.skip + 4 * sent.words
<1> DEFINE m == Stride(c.fmt[a])
           n == c.fmt[a].size
<1>1. First(d) <= e /\ e <= Last(d)
  <2>1. d.base \in Int /\ d.idx \in Seq(Nat)
    BY DrawsAreDraws
  <2>2. CASE d.kind = "elements" /\ e - d.base \in Used(d.idx)
    <3>1. /\ Lowest(d.idx) \in Nat /\ Highest(d.idx) \in Nat /\ e - d.base \in Nat
          /\ Lowest(d.idx) <= e - d.base /\ e - d.base <= Highest(d.idx)
      BY <2>1, <2>2, UsedIs
    <3> QED BY <2>1, <2>2, <3>1 DEF First, Last
  <2> QED BY <2>2
<1>2. First(d) \in Int /\ Last(d) \in Int /\ m \in Nat /\ n \in Nat /\ a \in Arrays
  BY DrawSpan, FormatInt, PushedArrays
<1>3. /\ Parcel(c, d).arrays[a].skip = m * First(d)
      /\ Parcel(c, d).arrays[a].words = Words(Extent(c.fmt[a], d))
  BY DEF Parcel
<1>4. Extent(c.fmt[a], d) \in Int /\ Extent(c.fmt[a], d) = m * (Last(d) - First(d)) + n
  BY <1>2, ExtentInt DEF Extent
<1>5. Extent(c.fmt[a], d) <= 4 * Words(Extent(c.fmt[a], d))
  BY <1>4, WordsOfBytes DEF ALIGNED
<1> HIDE DEF m, n
<1>6. \A i, j \in Int : i <= j => m * i <= m * j
  BY <1>2
<1>7. \A i, j \in Int : m * (j - i) = m * j - m * i
  BY <1>2
<1>8. Words(Extent(c.fmt[a], d)) \in Int
  BY <1>4, WordsOfBytes
<1>9. m * First(d) <= m * e /\ m * e + n <= m * First(d) + Extent(c.fmt[a], d)
  <2>1. m * First(d) <= m * e /\ m * e <= m * Last(d)
    BY <1>1, <1>2, <1>6
  <2>2. m * First(d) \in Int /\ m * e \in Int /\ m * Last(d) \in Int
    BY <1>2
  <2> QED BY <1>2, <1>4, <1>7, <2>1, <2>2
<1>10. m * First(d) \in Int /\ m * e \in Int
  BY <1>2
<1> QED BY <1>2, <1>3, <1>4, <1>5, <1>8, <1>9, <1>10 DEF m, n

LEMMA NeedInt ==
  ASSUME NEW c \in Clients, NEW d \in Draw, PushesArrays(c, d)
  PROVE  Need(c, d) \in Int
BY ParcelInt, CountedIsTaken

-----------------------------------------------------------------------------
(* Room for a draw.                                                        *)

LEMMA Taken ==
  ASSUME mdata \in Int, NEW words \in Int, NEW call, Say(call, words)
  PROVE  mdata' = mdata + words /\ mdata' \in Int
BY DEF Say, Queued

\* Calls of the application leave the wrapper where it was, outside.
LEMMA TellPrepared ==
  ASSUME Prepared, NEW words \in Int, NEW call, Tell(call, words)
  PROVE  Prepared'
<1>1. pc' = "app" /\ mdata' \in Int
  BY Taken DEF Tell, Free, Prepared
<1> QED BY <1>1 DEF Prepared

\* So do the calls PrepVertexArray makes: the bindings are the same after them.
LEMMA PrepPrepared ==
  ASSUME Prepared, NEW call, Say(call, 0), call.op \in {"active", "texstate"},
         pc # "app", pc' \in {"prep", "disable"}, drawing' = drawing
  PROVE  Prepared'
<1>1. mdata' \in Int
  BY Taken DEF Prepared
<1>2. guest' = AfterCall(guest, call)
  BY DEF Say
<1>3. guest'.arrayBuf = guest.arrayBuf /\ guest'.elemArryBuf = guest.elemArryBuf
  BY <1>2 DEF AfterCall, vtxarry_state
<1>4. PushesArrays(guest', drawing[1]) = PushesArrays(guest, drawing[1])
  BY <1>3 DEF PushesArrays
<1> QED BY <1>1, <1>4 DEF Prepared

LEMMA PreparedKept == IInv /\ Prepared /\ [Next]_vars => Prepared'
<1> SUFFICES ASSUME IInv, Prepared, [Next]_vars PROVE Prepared'
  OBVIOUS
<1>1. guest \in Clients /\ (pc # "app" => drawing[1] \in Draw) /\ mdata \in Int /\ MaxData \in Nat
  BY TypeParts, BoundsAreNat DEF IInv, PendingOK, WrapperOK, Prepared
<1>2. Words(4) \in Int
  BY DEF Words
<1>3. ASSUME NEW d \in Draw, glDraw(d) PROVE Prepared'
  <2>1. CASE PushesArrays(guest, d)
    <3>1. pc' = "prep" /\ drawing'[1] = d /\ guest' = guest /\ mdata' = mdata
      BY <1>3, <2>1 DEF glDraw
    <3> QED BY <1>1, <2>1, <3>1 DEF Prepared
  <2>2. CASE ~PushesArrays(guest, d)
    <3>1. pc' = "app" /\ Say(DrawCall(d), ParcelWords(Parcel(guest, d)))
      BY <1>3, <2>2 DEF glDraw, Free
    <3>2. mdata' \in Int
      BY <1>1, <3>1, ParcelInt, Taken
    <3> QED BY <3>1, <3>2 DEF Prepared
  <2> QED BY <2>1, <2>2
<1>4. ASSUME NEW u \in Units, PrepSelect(u) PROVE Prepared'
  <2>1. ActiveCall(u).op = "active"
    BY DEF ActiveCall
  <2> QED BY <1>4, <2>1, PrepPrepared DEF PrepSelect
<1>5. CASE PrepDisable
  <2>1. TexStateCall(FALSE).op = "texstate"
    BY DEF TexStateCall
  <2> QED BY <1>5, <2>1, PrepPrepared DEF PrepDisable
<1>6. CASE PrepRoom
  <2>1. /\ pc = "prep" /\ pc' = "push" /\ UNCHANGED <<guest, mdata, drawing>>
        /\ now' = IF mdata + Need(guest, drawing[1]) >= MaxData THEN <<FlushCall>> ELSE <<>>
    BY <1>6 DEF PrepRoom
  <2>2. PushesArrays(guest, drawing[1]) /\ Need(guest, drawing[1]) \in Int
    BY <1>1, <2>1, NeedInt DEF Prepared
  <2>3. now' # <<>> \/ mdata + Need(guest, drawing[1]) < MaxData
    BY <1>1, <2>1, <2>2
  <2> QED BY <1>1, <2>1, <2>2, <2>3 DEF Prepared
<1>7. CASE Push
  <2>1. pc' = "app" /\ mdata' \in Int
    BY <1>1, <1>7, ParcelInt, Taken DEF Push
  <2> QED BY <2>1 DEF Prepared
<1>8. CASE DrainOne
  <2>1. now # <<>> /\ UNCHANGED <<guest, now, mdata, pc, drawing>>
    BY <1>8 DEF DrainOne, Waiting
  <2> QED BY <2>1 DEF Prepared
<1>9. CASE CarryOutNow
  <2>1. mdata' = FirstData /\ UNCHANGED <<guest, pc, drawing>>
    BY <1>9 DEF CarryOutNow
  <2> QED BY <2>1 DEF Prepared, FirstData
<1>10. CASE UNCHANGED vars
  BY <1>10 DEF vars, Prepared
<1>11. ASSUME NEW call, NEW words \in {0, Words(4)}, Tell(call, words) PROVE Prepared'
  BY <1>2, <1>11, TellPrepared
<1>12. CASE Guest
  BY <1>3, <1>4, <1>5, <1>6, <1>7, <1>11, <1>12
     DEF Guest, glPointer, glTexCoordPointer, glInterleavedArrays, glClientState, glTexCoordState,
         glVertexAttribArray, glClientActiveTexture, glBindBuffer, glDeleteBuffers,
         glBindVertexArray, glDeleteVertexArrays
<1> QED BY <1>8, <1>9, <1>10, <1>12 DEF Next

\* A draw that takes arrays along ends where its words end.
LEMMA PushTakesNeed ==
  ASSUME IInv, Prepared, Next, pc = "push", pc' = "app"
  PROVE  /\ mdata' = mdata + Need(guest, drawing[1])
         /\ mdata = FirstData \/ mdata + Need(guest, drawing[1]) < MaxData
<1>1. Push
  BY DEF Next, Guest, glPointer, glTexCoordPointer, glInterleavedArrays, glClientState,
         glTexCoordState, glVertexAttribArray, glClientActiveTexture, glBindBuffer,
         glDeleteBuffers, glBindVertexArray, glDeleteVertexArrays, Tell, Free, glDraw, PrepSelect,
         PrepDisable, PrepRoom, DrainOne, CarryOutNow
<1>2. guest \in Clients /\ drawing[1] \in Draw /\ PushesArrays(guest, drawing[1]) /\ mdata \in Int
  BY TypeParts DEF IInv, PendingOK, WrapperOK, Prepared
<1>3. Say(DrawCall(drawing[1]), ParcelWords(Parcel(guest, drawing[1]))) /\ now = <<>>
  BY <1>1 DEF Push, Waiting
<1>4. mdata' = mdata + Need(guest, drawing[1])
  BY <1>2, <1>3, CountedIsTaken, ParcelInt, Taken
<1> QED BY <1>3, <1>4 DEF Prepared

(* After PrepVertexArray has looked for room, the arrays and the index     *)
(* list of a draw stay within the data area, if they fit into an empty     *)
(* one: whatever arrays, formats and indices, and whatever was queued.     *)
THEOREM RoomIsFound == Spec => RoomForArrays
<1>1. Init => IInv /\ Prepared
  BY InitInv DEF Init, Prepared, FirstData
<1>2. IInv /\ Prepared /\ [Next]_vars => IInv' /\ Prepared'
  BY NextInv, PreparedKept
<1>3. IInv /\ Prepared /\ [Next]_vars =>
        [pc = "push" /\ pc' = "app" /\ FirstData + Need(guest, drawing[1]) < MaxData
           => mdata' < MaxData]_vars
  <2> SUFFICES ASSUME IInv, Prepared, Next, pc = "push", pc' = "app",
                      FirstData + Need(guest, drawing[1]) < MaxData
               PROVE  mdata' < MaxData
    OBVIOUS
  <2> QED BY PushTakesNeed
<1> QED BY <1>1, <1>2, <1>3, PTL DEF Spec, RoomForArrays
=============================================================================
