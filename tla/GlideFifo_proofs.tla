-------------------------- MODULE GlideFifo_proofs --------------------------
(***************************************************************************)
(* Proofs about the command queue, for every set of calls, every size of   *)
(* the queue and of the data area, and every bound on the calls.           *)
(***************************************************************************)
EXTENDS GlideFifo, TLAPS

\* Words a + 1 .. a + w, or a .. a + w - 1, of an area that ends before hi.
LEMMA Within ==
  ASSUME NEW lo \in Nat, NEW hi \in Nat, NEW a \in Nat, NEW w \in Nat, lo <= a
  PROVE  /\ a + w <= hi => \A k \in 1..w : a + k - 1 \in lo..(hi - 1)
         /\ a + 1 + w <= hi => /\ a \in lo..(hi - 1)
                              /\ \A k \in 1..w : a + k \in lo..(hi - 1)
OBVIOUS

\* The parts of a word.
Parts == {"fenum", "arg", "data", "stored", "result"}

\* Words are made of their parts, and are the words of the abstract calls.
LEMMA WordType ==
  ASSUME NEW n \in 0..MaxCalls, NEW part \in Parts, NEW k \in Nat
  PROVE  Word(n, part, k) \in Words
BY DEF Word, Words, Parts

LEMMA WordCall ==
  ASSUME NEW n, NEW part, NEW k
  PROVE  /\ Word(n, part, k).call = n
         /\ Remote!Word(n, part, k) = Word(n, part, k)
BY DEF Word, Remote!Word

\* A call as the guest made it, in the terms of this module.
LEMMA AsMadeIs ==
  ASSUME NEW n, NEW c
  PROVE  Remote!AsMade(n, c) =
           [fenum |-> Word(n, "fenum", 0),
            args  |-> [k \in 1..NArgs[c] |-> Word(n, "arg", k)],
            data  |-> [k \in 1..GuestWords[c] |-> Word(n, "data", k)]]
BY DEF Remote!AsMade, Remote!Word, Word

LEMMA AsMadeType ==
  ASSUME NEW n \in 0..MaxCalls, NEW c \in Call
  PROVE  Remote!AsMade(n, c) \in [fenum : Words, args : Seq(Words), data : Seq(Words)]
<1>1. NArgs[c] \in Nat /\ GuestWords[c] \in Nat
  BY SizesAreNat
<1>2. Word(n, "fenum", 0) \in Words
  BY WordType DEF Parts
<1>3. [k \in 1..NArgs[c] |-> Word(n, "arg", k)] \in Seq(Words)
  <2>1. \A k \in 1..NArgs[c] : Word(n, "arg", k) \in Words
    BY <1>1, WordType DEF Parts
  <2> QED BY <1>1, <2>1
<1>4. [k \in 1..GuestWords[c] |-> Word(n, "data", k)] \in Seq(Words)
  <2>1. \A k \in 1..GuestWords[c] : Word(n, "data", k) \in Words
    BY <1>1, WordType DEF Parts
  <2> QED BY <1>1, <2>1
<1> QED BY <1>2, <1>3, <1>4, AsMadeIs

\* The device decodes a call correctly where its words lie.
LEMMA DecodedAsMade ==
  ASSUME NEW n, NEW c \in Call, NEW a, NEW d, SidesAgree,
         \A k \in 1..NArgs[c] : mfifo[a + k - 1] = Word(n, "arg", k),
         \A k \in 1..GuestWords[c] : mdata[d + k - 1] = Word(n, "data", k)
  PROVE  Decoded(Word(n, "fenum", 0), c, a, d) = Remote!AsMade(n, c)
<1>1. HostArgs[c] = NArgs[c] /\ HostWords[c] = GuestWords[c]
  BY DEF SidesAgree
<1> QED BY <1>1, AsMadeIs DEF Decoded

\* The elements of a sequence.
LEMMA ElementsOf ==
  ASSUME NEW S, NEW s \in Seq(S)
  PROVE  Len(s) \in Nat /\ \A k \in 1..Len(s) : s[k] \in S
OBVIOUS

\* Appending to a sequence leaves what is in it alone.
LEMMA AppendKeeps ==
  ASSUME NEW S, NEW s \in Seq(S), NEW e \in S
  PROVE  /\ Append(s, e) \in Seq(S)
         /\ Len(Append(s, e)) = Len(s) + 1
         /\ \A k \in 1..Len(s) : Append(s, e)[k] = s[k]
         /\ Append(s, e)[Len(s) + 1] = e
OBVIOUS

-----------------------------------------------------------------------------
(* The inductive invariant *)

LEMMA InitLayout ==
  ASSUME Init
  PROVE  IInv
<1>1. TypeOK
  <2>1. FIRST_FIFO \in FIRST_FIFO..(MAX_FIFO - 1) /\ FIRST_FIFO \in Nat /\ DATA0 \in Nat
    BY SizesAreNat DEF DATA0
  <2>2. Blank \in Words
    <3>1. 0 \in 0..MaxCalls
      BY SizesAreNat
    <3> QED BY <3>1, WordType DEF Parts, Blank
  <2>3. Len(<<>>) = 0 /\ 0 <= MaxCalls
    BY SizesAreNat
  <2> QED BY <2>1, <2>2, <2>3 DEF TypeOK, Init
<1>2. SeenAsMade
  BY DEF SeenAsMade, Init
<1>3. QueueLayout
  <2>1. pc = "guest" /\ Len(made) = 0 /\ Len(seen) = 0 /\ dataIdx < MAX_DATA
    BY SizesAreNat DEF Init, DATA0
  <2>2. Contiguous
    BY <2>1, SizesAreNat DEF Contiguous, First, Last, EntryAt, DataAt, Init, DATA0
  <2>3. Stocked
    BY <2>1 DEF Stocked, First, Last
  <2> QED BY <2>1, <2>2, <2>3 DEF QueueLayout
<1> QED BY <1>1, <1>2, <1>3 DEF IInv

\* A call being made: what the guest stores, and what it leaves alone.
LEMMA MadeAppends ==
  ASSUME TypeOK, NEW c \in Call, Made(c), Len(made) < MaxCalls
  PROVE  /\ made' \in Seq(Call)
         /\ placed' \in Seq([entry : Nat, data : Nat])
         /\ Len(made') = Len(made) + 1
         /\ Len(placed') = Len(made')
         /\ Len(made') <= MaxCalls
         /\ Len(made') \in 0..MaxCalls
         /\ \A n \in 1..Len(made) : made'[n] = made[n] /\ placed'[n] = placed[n]
         /\ made'[Len(made')] = c
         /\ placed'[Len(made')] = [entry |-> fifoIdx, data |-> dataIdx]
<1>1. [entry |-> fifoIdx, data |-> dataIdx] \in [entry : Nat, data : Nat]
  BY SizesAreNat DEF TypeOK
<1>2. made \in Seq(Call) /\ placed \in Seq([entry : Nat, data : Nat]) /\ Len(placed) = Len(made)
  BY DEF TypeOK
<1>3. made' = Append(made, c) /\ placed' = Append(placed, [entry |-> fifoIdx, data |-> dataIdx])
  BY DEF Made
<1>4. Len(made) \in Nat /\ MaxCalls \in Nat
  BY <1>2, SizesAreNat
<1> QED BY <1>1, <1>2, <1>3, <1>4

\* The two index words and the arguments lie in front of the queue.
LEMMA StoreArgsType ==
  ASSUME TypeOK, NEW n \in 0..MaxCalls, NEW c \in Call
  PROVE  /\ StoreArgs(mfifo, n, c) \in [2..(MAX_FIFO - 1) -> Words]
         /\ \A k \in 1..NArgs[c] : StoreArgs(mfifo, n, c)[1 + k] = Word(n, "arg", k)
         /\ \A k \in FIRST_FIFO..(MAX_FIFO - 1) : StoreArgs(mfifo, n, c)[k] = mfifo[k]
<1>1. NArgs[c] \in Nat /\ NArgs[c] + 2 <= FIRST_FIFO
  BY SizesAreNat, ArgsFit
<1>2. FIRST_FIFO \in Nat /\ MAX_FIFO \in Nat /\ FIRST_FIFO < MAX_FIFO
  BY SizesAreNat
<1>3. mfifo \in [2..(MAX_FIFO - 1) -> Words]
  BY DEF TypeOK
<1>4. \A k \in 2..(MAX_FIFO - 1) : Word(n, "arg", k - 1) \in Words
  BY <1>2, WordType DEF Parts
<1>5. \A k \in 1..NArgs[c] : 1 + k \in 2..(MAX_FIFO - 1) /\ 1 + k < 2 + NArgs[c] /\ (1 + k) - 1 = k
  BY <1>1, <1>2
<1>6. \A k \in FIRST_FIFO..(MAX_FIFO - 1) : k \in 2..(MAX_FIFO - 1) /\ ~(k < 2 + NArgs[c])
  BY <1>1, <1>2
<1>7. StoreArgs(mfifo, n, c) \in [2..(MAX_FIFO - 1) -> Words]
  BY <1>3, <1>4 DEF StoreArgs
<1>8. \A k \in 2..(MAX_FIFO - 1) : StoreArgs(mfifo, n, c)[k] =
        IF k < 2 + NArgs[c] THEN Word(n, "arg", k - 1) ELSE mfifo[k]
  BY <1>3 DEF StoreArgs
<1> QED BY <1>5, <1>6, <1>7, <1>8

\* fifoAddData: the data of the call, and the data before it.
LEMMA AddDataType ==
  ASSUME TypeOK, NEW n \in 0..MaxCalls, NEW c \in Call, AddData(n, c), Made(c),
         LargeInEmptyArea, dataIdx < MAX_DATA, DATA0 <= dataIdx
  PROVE  /\ mdata' \in [DATA0..(AreaWords - 1) -> Words]
         /\ dataIdx' = dataIdx + GuestWords[c]
         /\ dataIdx' <= AreaWords
         /\ dataIdx' \in Nat
         /\ \A k \in 1..GuestWords[c] : mdata'[dataIdx + k - 1] = Word(n, "data", k)
         /\ \A k \in DATA0..(dataIdx - 1) : mdata'[k] = mdata[k]
<1>1. GuestWords[c] \in Nat /\ dataIdx \in Nat /\ MAX_DATA \in Nat /\ AreaWords \in Nat /\ DATA0 \in Nat
  BY SizesAreNat DEF TypeOK, DATA0
<1>2. dataIdx + GuestWords[c] <= AreaWords
  <2>1. \/ (MAX_DATA - 1) + GuestWords[c] <= AreaWords
        \/ dataIdx = DATA0 /\ DATA0 + GuestWords[c] <= AreaWords
    BY DEF LargeInEmptyArea, Made
  <2> QED BY <1>1, <2>1
<1>3. dataIdx' = dataIdx + GuestWords[c]
  BY DEF AddData
<1>4. mdata \in [DATA0..(AreaWords - 1) -> Words]
  BY DEF TypeOK
<1>5. \A k \in dataIdx..(dataIdx + GuestWords[c] - 1) : Word(n, "data", k - dataIdx + 1) \in Words
  BY <1>1, WordType DEF Parts
<1>6. mdata' \in [DATA0..(AreaWords - 1) -> Words]
  BY <1>4, <1>5 DEF AddData
<1>7. \A k \in DATA0..(AreaWords - 1) : mdata'[k] =
        IF k \in dataIdx..(dataIdx + GuestWords[c] - 1)
        THEN Word(n, "data", k - dataIdx + 1) ELSE mdata[k]
  BY <1>4 DEF AddData
<1>8. \A k \in 1..GuestWords[c] :
        /\ dataIdx + k - 1 \in DATA0..(AreaWords - 1)
        /\ dataIdx + k - 1 \in dataIdx..(dataIdx + GuestWords[c] - 1)
        /\ (dataIdx + k - 1) - dataIdx + 1 = k
  BY <1>1, <1>2
<1>9. \A k \in DATA0..(dataIdx - 1) :
        k \in DATA0..(AreaWords - 1) /\ ~(k \in dataIdx..(dataIdx + GuestWords[c] - 1))
  BY <1>1, <1>2
<1>10. dataIdx' <= AreaWords /\ dataIdx' \in Nat
  BY <1>1, <1>2, <1>3
<1> QED BY <1>3, <1>6, <1>7, <1>8, <1>9, <1>10

\* Facts about sizes that every step uses.
LEMMA Sizes ==
  TypeOK => /\ FIRST_FIFO \in Nat /\ MAX_FIFO \in Nat /\ FIRST_FIFO < MAX_FIFO
            /\ DATA0 \in Nat /\ AreaWords \in Nat /\ MAX_DATA \in Nat
            /\ MAX_DATA <= AreaWords /\ DATA0 < MAX_DATA
            /\ fifoIdx \in Nat /\ FIRST_FIFO <= fifoIdx /\ fifoIdx < MAX_FIFO
            /\ dataIdx \in Nat /\ i \in Nat /\ j \in Nat
            /\ Len(made) \in Nat /\ Len(seen) \in Nat
<1> HAVE TypeOK
<1>1. FIRST_FIFO \in Nat /\ MAX_FIFO \in Nat /\ FIRST_FIFO < MAX_FIFO
  BY SizesAreNat
<1>2. DATA0 \in Nat /\ AreaWords \in Nat /\ MAX_DATA \in Nat /\ MAX_DATA <= AreaWords /\ DATA0 < MAX_DATA
  BY SizesAreNat DEF DATA0
<1>3. fifoIdx \in Nat /\ FIRST_FIFO <= fifoIdx /\ fifoIdx < MAX_FIFO
  BY <1>1 DEF TypeOK
<1>4. dataIdx \in Nat /\ i \in Nat /\ j \in Nat /\ Len(seen) \in Nat /\ Len(made) \in Nat
  BY DEF TypeOK
<1> QED BY <1>1, <1>2, <1>3, <1>4

\* The sizes of the calls made, and the places they were given.
LEMMA MadeSizes ==
  TypeOK => \A n \in 1..Len(made) : /\ made[n] \in Call
                                    /\ NArgs[made[n]] \in Nat
                                    /\ GuestWords[made[n]] \in Nat
<1> HAVE TypeOK
<1>1. made \in Seq(Call)
  BY DEF TypeOK
<1>2. \A n \in 1..Len(made) : made[n] \in Call
  BY <1>1, ElementsOf
<1> QED BY <1>2, SizesAreNat

LEMMA PlacesAreNat ==
  TypeOK => \A n \in 1..(Len(made) + 1) : EntryAt[n] \in Nat /\ DataAt[n] \in Nat
<1> HAVE TypeOK
<1>1. placed \in Seq([entry : Nat, data : Nat]) /\ Len(placed) = Len(made)
  BY DEF TypeOK
<1>2. \A n \in 1..Len(made) : placed[n] \in [entry : Nat, data : Nat]
  BY <1>1, ElementsOf
<1> QED BY <1>2, Sizes DEF EntryAt, DataAt

\* When the guest makes a call, the calls before it stay where they are and
\* the new one starts where both write indexes were.
LEMMA CallsStay ==
  ASSUME TypeOK, NEW c \in Call, Made(c), Len(made) < MaxCalls
  PROVE  \A n \in 1..(Len(made) + 1) : EntryAt'[n] = EntryAt[n] /\ DataAt'[n] = DataAt[n]
<1>1. Len(made) \in Nat
  BY Sizes
<1>2. \A n \in 1..Len(made) : n <= Len(made) /\ n <= Len(made')
  BY <1>1, MadeAppends
<1>3. ~(Len(made) + 1 <= Len(made)) /\ Len(made) + 1 <= Len(made')
  BY <1>1, MadeAppends
<1>4. ASSUME NEW n \in 1..Len(made)
      PROVE  EntryAt'[n] = EntryAt[n] /\ DataAt'[n] = DataAt[n]
  BY <1>2, MadeAppends DEF EntryAt, DataAt
<1>5. EntryAt'[Len(made) + 1] = fifoIdx /\ DataAt'[Len(made) + 1] = dataIdx
  BY <1>1, <1>3, MadeAppends DEF EntryAt, DataAt
<1>6. EntryAt[Len(made) + 1] = fifoIdx /\ DataAt[Len(made) + 1] = dataIdx
  BY <1>3 DEF EntryAt, DataAt
<1>7. \A n \in 1..(Len(made) + 1) : n \in 1..Len(made) \/ n = Len(made) + 1
  BY <1>1
<1> QED BY <1>4, <1>5, <1>6, <1>7

\* fifoAddEntry writes one entry behind those that are queued.
LEMMA AddEntryType ==
  ASSUME TypeOK, NEW n \in 0..MaxCalls, NEW c \in Call,
         fifoIdx + (NArgs[c] + 1) < MAX_FIFO,
         mfifo' = AddEntry(StoreArgs(mfifo, n, c), n, c)
  PROVE  /\ mfifo' \in [2..(MAX_FIFO - 1) -> Words]
         /\ mfifo'[fifoIdx] = Word(n, "fenum", 0)
         /\ \A k \in 1..NArgs[c] : mfifo'[fifoIdx + k] = Word(n, "arg", k)
         /\ \A k \in FIRST_FIFO..(fifoIdx - 1) : mfifo'[k] = mfifo[k]
<1> DEFINE mem == StoreArgs(mfifo, n, c)
<1>0. /\ FIRST_FIFO \in Nat /\ MAX_FIFO \in Nat /\ fifoIdx \in Nat
      /\ FIRST_FIFO <= fifoIdx /\ fifoIdx < MAX_FIFO
  BY Sizes
<1>1. NArgs[c] \in Nat /\ NArgs[c] + 2 <= FIRST_FIFO
  BY SizesAreNat, ArgsFit
<1>2. mem \in [2..(MAX_FIFO - 1) -> Words] /\ \A k \in 1..NArgs[c] : mem[1 + k] = Word(n, "arg", k)
  BY StoreArgsType
<1>3. \A k \in FIRST_FIFO..(MAX_FIFO - 1) : mem[k] = mfifo[k]
  BY StoreArgsType
<1>4. Word(n, "fenum", 0) \in Words
  BY WordType DEF Parts
<1>5. \A k \in (fifoIdx + 1)..(fifoIdx + NArgs[c]) : 2 + (k - fifoIdx - 1) \in 2..(MAX_FIFO - 1)
  BY <1>0, <1>1
<1>6. \A k \in 2..(MAX_FIFO - 1) : mfifo'[k] =
        IF k = fifoIdx THEN Word(n, "fenum", 0)
        ELSE IF k \in (fifoIdx + 1)..(fifoIdx + NArgs[c]) THEN mem[2 + (k - fifoIdx - 1)] ELSE mem[k]
  BY <1>2 DEF AddEntry
<1>7. mfifo' \in [2..(MAX_FIFO - 1) -> Words]
  BY <1>2, <1>4, <1>5 DEF AddEntry
<1>8. mfifo'[fifoIdx] = Word(n, "fenum", 0)
  <2>1. fifoIdx \in 2..(MAX_FIFO - 1)
    BY <1>0, <1>1
  <2> QED BY <1>6, <2>1
<1>9. ASSUME NEW k \in 1..NArgs[c]
      PROVE  mfifo'[fifoIdx + k] = Word(n, "arg", k)
  <2>1. /\ fifoIdx + k \in 2..(MAX_FIFO - 1) /\ fifoIdx + k # fifoIdx
        /\ fifoIdx + k \in (fifoIdx + 1)..(fifoIdx + NArgs[c])
        /\ 2 + ((fifoIdx + k) - fifoIdx - 1) = 1 + k
    BY <1>0, <1>1
  <2> QED BY <1>2, <1>6, <2>1
<1>10. ASSUME NEW k \in FIRST_FIFO..(fifoIdx - 1)
       PROVE  mfifo'[k] = mfifo[k]
  <2>1. /\ k \in FIRST_FIFO..(MAX_FIFO - 1) /\ k \in 2..(MAX_FIFO - 1) /\ k # fifoIdx
        /\ ~(k \in (fifoIdx + 1)..(fifoIdx + NArgs[c]))
    BY <1>0, <1>1
  <2> QED BY <1>3, <1>6, <2>1
<1> QED BY <1>7, <1>8, <1>9, <1>10

\* The calls carried out stay as they were when the guest makes another.
LEMMA SeenStays ==
  ASSUME TypeOK, SeenAsMade, NEW c \in Call, Made(c), Len(made) < MaxCalls, seen' = seen
  PROVE  SeenAsMade'
<1>1. Len(seen) <= Len(made') /\ \A n \in 1..Len(seen) : made'[n] = made[n]
  <2>1. Len(seen) \in Nat /\ Len(made) \in Nat /\ Len(seen) <= Len(made)
    BY Sizes DEF SeenAsMade
  <2>2. Len(made') = Len(made) + 1 /\ \A n \in 1..Len(made) : made'[n] = made[n]
    BY MadeAppends
  <2> QED BY <2>1, <2>2
<1>2. \A n \in 1..Len(seen) : seen[n] = Remote!AsMade(n, made'[n])
  BY <1>1 DEF SeenAsMade
<1> QED BY <1>1, <1>2 DEF SeenAsMade, Remote!AsMade, Remote!Word

-----------------------------------------------------------------------------
(* A queued call keeps the invariant *)

\* The guest may go on appending: what Contiguous says where it matters.
LEMMA GuestLayout ==
  TypeOK /\ QueueLayout /\ pc = "guest" =>
    /\ Contiguous /\ Stocked /\ dataIdx < MAX_DATA /\ DATA0 <= dataIdx
    /\ Last = Len(made) /\ First \in 1..(Len(made) + 1)
    /\ EntryAt[Len(made) + 1] = fifoIdx /\ DataAt[Len(made) + 1] = dataIdx
<1> HAVE TypeOK /\ QueueLayout /\ pc = "guest"
<1>1. Contiguous /\ Stocked /\ dataIdx < MAX_DATA /\ Last = Len(made)
  BY DEF QueueLayout, Last
<1>2. Len(made) \in Nat /\ Len(seen) \in Nat
  BY Sizes
<1>3. First \in 1..(Len(made) + 1)
  BY <1>1, <1>2 DEF Contiguous, First
<1>4. EntryAt[Len(made) + 1] = fifoIdx /\ DataAt[Len(made) + 1] = dataIdx
  BY <1>2 DEF EntryAt, DataAt
<1>5. DATA0 <= dataIdx
  BY <1>1, <1>2, <1>3, <1>4 DEF Contiguous
<1> QED BY <1>1, <1>3, <1>4, <1>5

\* The calls in the queue end before its write indexes.
LEMMA QueuedBefore ==
  TypeOK /\ QueueLayout /\ pc = "guest" =>
    \A n \in First..Len(made) :
      /\ n \in 1..Len(made) /\ n \in 1..(Len(made) + 1)
      /\ FIRST_FIFO <= EntryAt[n] /\ EntryAt[n] + 1 + NArgs[made[n]] <= fifoIdx
      /\ DATA0 <= DataAt[n] /\ DataAt[n] + GuestWords[made[n]] <= dataIdx
<1> HAVE TypeOK /\ QueueLayout /\ pc = "guest"
<1>1. Contiguous /\ Last = Len(made) /\ First \in 1..(Len(made) + 1)
  BY GuestLayout
<1>2. EntryAt[Len(made) + 1] = fifoIdx /\ DataAt[Len(made) + 1] = dataIdx
  BY GuestLayout
<1>3. Len(made) \in Nat
  BY Sizes
<1> SUFFICES ASSUME NEW n \in First..Len(made)
             PROVE  /\ n \in 1..Len(made) /\ n \in 1..(Len(made) + 1)
                    /\ FIRST_FIFO <= EntryAt[n] /\ EntryAt[n] + 1 + NArgs[made[n]] <= fifoIdx
                    /\ DATA0 <= DataAt[n] /\ DataAt[n] + GuestWords[made[n]] <= dataIdx
  OBVIOUS
<1>4. /\ n \in 1..Len(made) /\ n \in 1..(Len(made) + 1) /\ n < Len(made) + 1
      /\ n \in First..(Last + 1) /\ Len(made) + 1 \in First..(Last + 1)
  BY <1>1, <1>3
<1> QED BY <1>1, <1>2, <1>4 DEF Contiguous

LEMMA EnqueueKeeps ==
  ASSUME IInv, SidesAgree, LargeInEmptyArea, NEW c \in Call, Enqueue(c)
  PROVE  IInv'
<1> DEFINE N == Len(made) + 1
<1>0. TypeOK /\ SeenAsMade /\ QueueLayout
  BY DEF IInv
<1>1. /\ pc = "guest" /\ pc' = "guest" /\ Len(made) < MaxCalls /\ Made(c) /\ AddData(N, c)
      /\ fifoIdx + (NArgs[c] + 1) < MAX_FIFO /\ dataIdx' < MAX_DATA
      /\ mfifo' = AddEntry(StoreArgs(mfifo, N, c), N, c) /\ fifoIdx' = fifoIdx + 1 + NArgs[c]
      /\ i' = i /\ j' = j /\ seen' = seen /\ readBack' = readBack
  BY DEF Enqueue, Room
<1>2. Contiguous /\ Stocked /\ dataIdx < MAX_DATA /\ DATA0 <= dataIdx
  BY <1>0, <1>1, GuestLayout
<1>3. /\ FIRST_FIFO \in Nat /\ MAX_FIFO \in Nat /\ fifoIdx \in Nat /\ FIRST_FIFO <= fifoIdx
      /\ DATA0 \in Nat /\ dataIdx \in Nat /\ Len(made) \in Nat
      /\ NArgs[c] \in Nat /\ GuestWords[c] \in Nat
  BY <1>0, Sizes, SizesAreNat
<1>4. N \in 0..MaxCalls
  BY <1>1, <1>3, SizesAreNat
<1>5. /\ mfifo' \in [2..(MAX_FIFO - 1) -> Words]
      /\ mfifo'[fifoIdx] = Word(N, "fenum", 0)
      /\ \A k \in 1..NArgs[c] : mfifo'[fifoIdx + k] = Word(N, "arg", k)
      /\ \A k \in FIRST_FIFO..(fifoIdx - 1) : mfifo'[k] = mfifo[k]
  BY <1>0, <1>1, <1>4, AddEntryType
<1>6. /\ mdata' \in [DATA0..(AreaWords - 1) -> Words]
      /\ dataIdx' = dataIdx + GuestWords[c] /\ dataIdx' \in Nat
      /\ \A k \in 1..GuestWords[c] : mdata'[dataIdx + k - 1] = Word(N, "data", k)
      /\ \A k \in DATA0..(dataIdx - 1) : mdata'[k] = mdata[k]
  BY <1>0, <1>1, <1>2, <1>4, AddDataType
<1>7. /\ made' \in Seq(Call) /\ placed' \in Seq([entry : Nat, data : Nat])
      /\ Len(made') = N /\ Len(placed') = Len(made') /\ Len(made') <= MaxCalls
      /\ \A n \in 1..Len(made) : made'[n] = made[n]
      /\ made'[N] = c
  BY <1>0, <1>1, MadeAppends
<1>8. TypeOK'
  <2>1. fifoIdx' \in FIRST_FIFO..(MAX_FIFO - 1)
    BY <1>1, <1>3
  <2> QED BY <1>0, <1>1, <1>5, <1>6, <1>7, <2>1 DEF TypeOK
<1>9. SeenAsMade'
  BY <1>0, <1>1, SeenStays
<1>10. First' = First /\ Last' = N /\ First \in 1..N
  <2>1. First \in 1..N
    BY <1>0, <1>1, GuestLayout
  <2> QED BY <1>1, <1>7, <2>1 DEF First, Last
<1>11. \A n \in 1..N : EntryAt'[n] = EntryAt[n] /\ DataAt'[n] = DataAt[n]
  BY <1>0, <1>1, CallsStay
<1>12. EntryAt'[N + 1] = fifoIdx' /\ DataAt'[N + 1] = dataIdx'
  BY <1>3, <1>7 DEF EntryAt, DataAt
<1>13. EntryAt[N] = fifoIdx /\ DataAt[N] = dataIdx
  BY <1>0, <1>1, GuestLayout
<1>16. /\ N \in Nat /\ EntryAt'[N] = fifoIdx /\ DataAt'[N] = dataIdx
       /\ fifoIdx <= fifoIdx' /\ dataIdx <= dataIdx' /\ fifoIdx' \in Nat
  <2>1. N \in 1..N /\ N \in Nat
    BY <1>3
  <2>2. fifoIdx <= fifoIdx' /\ dataIdx <= dataIdx' /\ fifoIdx' \in Nat
    <3>1. fifoIdx' = fifoIdx + 1 + NArgs[c]
      BY <1>1
    <3>2. dataIdx' = dataIdx + GuestWords[c]
      BY <1>6
    <3> QED BY <1>3, <3>1, <3>2
  <2> QED BY <1>11, <1>13, <2>1, <2>2
<1>14. Contiguous'
  <2>1. /\ First <= N + 1
        /\ EntryAt'[First] = FIRST_FIFO /\ DataAt'[First] = DATA0
    BY <1>1, <1>2, <1>3, <1>10, <1>11 DEF Contiguous
  <2>2. ASSUME NEW n \in First..N
        PROVE  /\ EntryAt'[n + 1] = EntryAt'[n] + 1 + NArgs[made'[n]]
               /\ DataAt'[n + 1] = DataAt'[n] + GuestWords[made'[n]]
    <3>1. CASE n = N
      BY <1>1, <1>6, <1>7, <1>12, <1>16, <3>1
    <3>2. CASE n < N
      <4>1. n \in First..Len(made) /\ n \in 1..Len(made) /\ n \in 1..N /\ n + 1 \in 1..N
        BY <1>3, <1>10, <3>2
      <4>2. /\ EntryAt[n + 1] = EntryAt[n] + 1 + NArgs[made[n]]
            /\ DataAt[n + 1] = DataAt[n] + GuestWords[made[n]]
        BY <1>1, <1>2, <4>1 DEF Contiguous, Last
      <4> QED BY <1>7, <1>11, <4>1, <4>2
    <3> QED BY <1>3, <1>10, <3>1, <3>2
  <2>3. ASSUME NEW n \in First..(N + 1)
        PROVE  FIRST_FIFO <= EntryAt'[n] /\ DATA0 <= DataAt'[n]
    <3>1. CASE n = N + 1
      BY <1>2, <1>3, <1>6, <1>12, <1>16, <3>1
    <3>2. CASE n < N + 1
      <4>1. n \in First..N /\ n \in 1..N
        BY <1>3, <1>10, <3>2
      <4>2. FIRST_FIFO <= EntryAt[n] /\ DATA0 <= DataAt[n]
        BY <1>1, <1>2, <4>1 DEF Contiguous, Last
      <4> QED BY <1>11, <4>1, <4>2
    <3> QED BY <1>3, <1>10, <3>1, <3>2
  <2>4. ASSUME NEW n \in First..(N + 1), NEW m \in First..(N + 1), n < m
        PROVE  /\ EntryAt'[n] + 1 + NArgs[made'[n]] <= EntryAt'[m]
               /\ DataAt'[n] + GuestWords[made'[n]] <= DataAt'[m]
    <3>1. CASE n = N
      <4>1. m = N + 1
        BY <1>10, <1>16, <2>4, <3>1
      <4>2. fifoIdx' = fifoIdx + 1 + NArgs[c] /\ dataIdx' = dataIdx + GuestWords[c] /\ made'[n] = c
        BY <1>1, <1>6, <1>7, <3>1
      <4>3. /\ EntryAt'[n] = fifoIdx /\ DataAt'[n] = dataIdx
            /\ EntryAt'[m] = fifoIdx' /\ DataAt'[m] = dataIdx'
        BY <1>12, <1>16, <3>1, <4>1
      <4> QED BY <1>3, <4>2, <4>3
    <3>2. CASE n < N
      <4>1. n \in First..Len(made) /\ n \in 1..Len(made) /\ n \in 1..N
        BY <1>3, <1>10, <3>2
      <4>2. EntryAt'[n] = EntryAt[n] /\ DataAt'[n] = DataAt[n] /\ made'[n] = made[n]
        BY <1>7, <1>11, <4>1
      <4>3. CASE m = N + 1
        <5>1. /\ EntryAt[n] + 1 + NArgs[made[n]] <= fifoIdx
              /\ DataAt[n] + GuestWords[made[n]] <= dataIdx
          BY <1>0, <1>1, <4>1, QueuedBefore
        <5>2. /\ EntryAt[n] \in Nat /\ DataAt[n] \in Nat
              /\ NArgs[made[n]] \in Nat /\ GuestWords[made[n]] \in Nat
          BY <1>0, <4>1, PlacesAreNat, MadeSizes
        <5>3. EntryAt[n] + 1 + NArgs[made[n]] <= fifoIdx'
          <6>1. fifoIdx' \in Nat /\ fifoIdx <= fifoIdx' /\ fifoIdx \in Nat
            BY <1>3, <1>16
          <6> DEFINE end == EntryAt[n] + 1 + NArgs[made[n]]
          <6>2. end \in Nat /\ end <= fifoIdx
            BY <5>1, <5>2
          <6> HIDE DEF end
          <6>3. end <= fifoIdx'
            BY <6>1, <6>2
          <6> QED BY <6>3 DEF end
        <5>4. DataAt[n] + GuestWords[made[n]] <= dataIdx'
          <6>1. dataIdx' \in Nat /\ dataIdx <= dataIdx' /\ dataIdx \in Nat
            BY <1>3, <1>6
          <6> DEFINE end == DataAt[n] + GuestWords[made[n]]
          <6>2. end \in Nat /\ end <= dataIdx
            BY <5>1, <5>2
          <6> HIDE DEF end
          <6>3. end <= dataIdx'
            BY <6>1, <6>2
          <6> QED BY <6>3 DEF end
        <5> QED BY <1>12, <4>2, <4>3, <5>3, <5>4
      <4>4. CASE m < N + 1
        <5>1. m \in 1..N /\ m \in First..(Len(made) + 1) /\ n \in First..(Len(made) + 1)
          BY <1>3, <1>10, <4>1, <4>4
        <5>2. /\ EntryAt[n] + 1 + NArgs[made[n]] <= EntryAt[m]
              /\ DataAt[n] + GuestWords[made[n]] <= DataAt[m]
          BY <1>1, <1>2, <2>4, <5>1 DEF Contiguous, Last
        <5> QED BY <1>11, <4>2, <5>1, <5>2
      <4> QED BY <1>3, <1>10, <4>3, <4>4
    <3> QED BY <1>3, <1>10, <2>4, <3>1, <3>2
  <2> QED BY <1>1, <1>10, <1>12, <2>1, <2>2, <2>3, <2>4 DEF Contiguous
<1>15. Stocked'
  <2> SUFFICES ASSUME NEW n \in First..N
               PROVE  /\ mfifo'[EntryAt'[n]] = Word(n, "fenum", 0)
                      /\ \A k \in 1..NArgs[made'[n]] : mfifo'[EntryAt'[n] + k] = Word(n, "arg", k)
                      /\ \A k \in 1..GuestWords[made'[n]] :
                           mdata'[DataAt'[n] + k - 1] = Word(n, "data", k)
    BY <1>10 DEF Stocked
  <2>1. CASE n = N
    BY <1>5, <1>6, <1>7, <1>16, <2>1
  <2>2. CASE n < N
    <3>1. n \in First..Len(made) /\ n \in 1..Len(made) /\ n \in 1..N
      BY <1>3, <1>10, <2>2
    <3>2. EntryAt'[n] = EntryAt[n] /\ DataAt'[n] = DataAt[n] /\ made'[n] = made[n]
      BY <1>7, <1>11, <3>1
    <3>3. /\ FIRST_FIFO <= EntryAt[n] /\ EntryAt[n] + 1 + NArgs[made[n]] <= fifoIdx
          /\ DATA0 <= DataAt[n] /\ DataAt[n] + GuestWords[made[n]] <= dataIdx
      BY <1>0, <1>1, <3>1, QueuedBefore
    <3>4. /\ EntryAt[n] \in Nat /\ DataAt[n] \in Nat
          /\ NArgs[made[n]] \in Nat /\ GuestWords[made[n]] \in Nat
      BY <1>0, <3>1, PlacesAreNat, MadeSizes
    <3>5. /\ mfifo[EntryAt[n]] = Word(n, "fenum", 0)
          /\ \A k \in 1..NArgs[made[n]] : mfifo[EntryAt[n] + k] = Word(n, "arg", k)
          /\ \A k \in 1..GuestWords[made[n]] : mdata[DataAt[n] + k - 1] = Word(n, "data", k)
      BY <1>1, <1>2, <3>1 DEF Stocked, Last
    <3>6. /\ EntryAt[n] \in FIRST_FIFO..(fifoIdx - 1)
          /\ \A k \in 1..NArgs[made[n]] : EntryAt[n] + k \in FIRST_FIFO..(fifoIdx - 1)
          /\ \A k \in 1..GuestWords[made[n]] : DataAt[n] + k - 1 \in DATA0..(dataIdx - 1)
      BY <1>3, <3>3, <3>4, Within
    <3> QED BY <1>5, <1>6, <3>2, <3>5, <3>6
  <2> QED BY <1>3, <1>10, <2>1, <2>2
<1> QED BY <1>1, <1>8, <1>9, <1>14, <1>15 DEF IInv, QueueLayout

-----------------------------------------------------------------------------
(* An immediate call keeps the invariant: the call, and the way back *)

LEMMA CallNowKeeps ==
  ASSUME IInv, SidesAgree, LargeInEmptyArea, NEW c \in Call, CallNow(c)
  PROVE  IInv'
<1> DEFINE N == Len(made) + 1
<1>0. TypeOK /\ SeenAsMade /\ QueueLayout
  BY DEF IInv
<1>1. /\ pc = "guest" /\ pc' = "drain" /\ Len(made) < MaxCalls /\ Made(c) /\ AddData(N, c)
      /\ mfifo' = StoreArgs(mfifo, N, c) /\ i' = FIRST_FIFO /\ j' = DATA0
      /\ fifoIdx' = fifoIdx /\ seen' = seen /\ readBack' = readBack
  BY DEF CallNow
<1>2. Contiguous /\ Stocked /\ dataIdx < MAX_DATA /\ DATA0 <= dataIdx
  BY <1>0, <1>1, GuestLayout
<1>3. /\ FIRST_FIFO \in Nat /\ MAX_FIFO \in Nat /\ fifoIdx \in Nat /\ FIRST_FIFO <= fifoIdx
      /\ DATA0 \in Nat /\ dataIdx \in Nat /\ Len(made) \in Nat /\ fifoIdx < MAX_FIFO
      /\ NArgs[c] \in Nat /\ GuestWords[c] \in Nat
  BY <1>0, Sizes, SizesAreNat
<1>4. N \in 0..MaxCalls /\ N \in Nat /\ N > 0 /\ N \in 1..N
  BY <1>1, <1>3, SizesAreNat
<1>5. /\ mfifo' \in [2..(MAX_FIFO - 1) -> Words]
      /\ \A k \in 1..NArgs[c] : mfifo'[1 + k] = Word(N, "arg", k)
      /\ \A k \in FIRST_FIFO..(MAX_FIFO - 1) : mfifo'[k] = mfifo[k]
  BY <1>0, <1>1, <1>4, StoreArgsType
<1>6. /\ mdata' \in [DATA0..(AreaWords - 1) -> Words]
      /\ dataIdx' = dataIdx + GuestWords[c] /\ dataIdx' \in Nat /\ dataIdx' <= AreaWords
      /\ \A k \in 1..GuestWords[c] : mdata'[dataIdx + k - 1] = Word(N, "data", k)
      /\ \A k \in DATA0..(dataIdx - 1) : mdata'[k] = mdata[k]
  BY <1>0, <1>1, <1>2, <1>4, AddDataType
<1>7. /\ made' \in Seq(Call) /\ placed' \in Seq([entry : Nat, data : Nat])
      /\ Len(made') = N /\ Len(placed') = Len(made') /\ Len(made') <= MaxCalls
      /\ \A n \in 1..Len(made) : made'[n] = made[n]
      /\ made'[N] = c /\ placed'[N] = [entry |-> fifoIdx, data |-> dataIdx]
  BY <1>0, <1>1, MadeAppends
<1>8. TypeOK'
  <2>1. fifoIdx' \in FIRST_FIFO..(MAX_FIFO - 1)
    BY <1>1, <1>3
  <2> QED BY <1>0, <1>1, <1>3, <1>5, <1>6, <1>7, <2>1 DEF TypeOK
<1>9. SeenAsMade'
  BY <1>0, <1>1, SeenStays
<1>10. First' = First /\ Last' = Len(made) /\ First \in 1..N /\ Last = Len(made)
  <2>1. First \in 1..N /\ Last = Len(made)
    BY <1>0, <1>1, GuestLayout
  <2>2. Last' = N - 1
    BY <1>1, <1>7 DEF Last
  <2> QED BY <1>1, <1>3, <2>1, <2>2 DEF First
<1>11. \A n \in 1..N : EntryAt'[n] = EntryAt[n] /\ DataAt'[n] = DataAt[n]
  BY <1>0, <1>1, CallsStay
<1>12. \A n \in First..N : n \in 1..N
  BY <1>4, <1>10
<1>13. \A n \in First..Len(made) : n \in 1..N /\ n + 1 \in 1..N /\ n \in 1..Len(made)
  BY <1>3, <1>4, <1>10
<1>14. Contiguous'
  <2>1. /\ First <= N
        /\ EntryAt'[First] = FIRST_FIFO /\ DataAt'[First] = DATA0
        /\ EntryAt'[N] = fifoIdx
    BY <1>1, <1>2, <1>4, <1>10, <1>11 DEF Contiguous
  <2>2. ASSUME NEW n \in First..Len(made)
        PROVE  /\ EntryAt'[n + 1] = EntryAt'[n] + 1 + NArgs[made'[n]]
               /\ DataAt'[n + 1] = DataAt'[n] + GuestWords[made'[n]]
    <3>1. /\ EntryAt[n + 1] = EntryAt[n] + 1 + NArgs[made[n]]
          /\ DataAt[n + 1] = DataAt[n] + GuestWords[made[n]]
      BY <1>2, <1>10 DEF Contiguous
    <3> QED BY <1>7, <1>11, <1>13, <3>1
  <2>3. ASSUME NEW n \in First..N
        PROVE  FIRST_FIFO <= EntryAt'[n] /\ DATA0 <= DataAt'[n]
    <3>1. FIRST_FIFO <= EntryAt[n] /\ DATA0 <= DataAt[n]
      BY <1>2, <1>10 DEF Contiguous
    <3> QED BY <1>11, <1>12, <3>1
  <2>4. ASSUME NEW n \in First..N, NEW m \in First..N, n < m
        PROVE  /\ EntryAt'[n] + 1 + NArgs[made'[n]] <= EntryAt'[m]
               /\ DataAt'[n] + GuestWords[made'[n]] <= DataAt'[m]
    <3>1. /\ EntryAt[n] + 1 + NArgs[made[n]] <= EntryAt[m]
          /\ DataAt[n] + GuestWords[made[n]] <= DataAt[m]
      BY <1>2, <1>10, <2>4 DEF Contiguous
    <3>2. n \in 1..Len(made)
      BY <1>3, <1>10, <2>4
    <3> QED BY <1>7, <1>11, <1>12, <3>1, <3>2
  <2>5. pc' # "guest"
    BY <1>1
  <2> QED BY <1>1, <1>10, <2>1, <2>2, <2>3, <2>4, <2>5 DEF Contiguous
<1>15. Stocked'
  <2> SUFFICES ASSUME NEW n \in First..Len(made)
               PROVE  /\ mfifo'[EntryAt'[n]] = Word(n, "fenum", 0)
                      /\ \A k \in 1..NArgs[made'[n]] : mfifo'[EntryAt'[n] + k] = Word(n, "arg", k)
                      /\ \A k \in 1..GuestWords[made'[n]] :
                           mdata'[DataAt'[n] + k - 1] = Word(n, "data", k)
    BY <1>10 DEF Stocked
  <2>1. EntryAt'[n] = EntryAt[n] /\ DataAt'[n] = DataAt[n] /\ made'[n] = made[n]
    BY <1>7, <1>11, <1>13
  <2>2. /\ FIRST_FIFO <= EntryAt[n] /\ EntryAt[n] + 1 + NArgs[made[n]] <= fifoIdx
        /\ DATA0 <= DataAt[n] /\ DataAt[n] + GuestWords[made[n]] <= dataIdx
    BY <1>0, <1>1, QueuedBefore
  <2>3. /\ EntryAt[n] \in Nat /\ DataAt[n] \in Nat
        /\ NArgs[made[n]] \in Nat /\ GuestWords[made[n]] \in Nat
    BY <1>0, <1>13, PlacesAreNat, MadeSizes
  <2>4. /\ mfifo[EntryAt[n]] = Word(n, "fenum", 0)
        /\ \A k \in 1..NArgs[made[n]] : mfifo[EntryAt[n] + k] = Word(n, "arg", k)
        /\ \A k \in 1..GuestWords[made[n]] : mdata[DataAt[n] + k - 1] = Word(n, "data", k)
    BY <1>2, <1>10 DEF Stocked
  <2>5. /\ EntryAt[n] \in FIRST_FIFO..(fifoIdx - 1)
        /\ \A k \in 1..NArgs[made[n]] : EntryAt[n] + k \in FIRST_FIFO..(fifoIdx - 1)
        /\ \A k \in 1..GuestWords[made[n]] : DataAt[n] + k - 1 \in DATA0..(dataIdx - 1)
    BY <1>3, <2>2, <2>3, Within
  <2>6. FIRST_FIFO..(fifoIdx - 1) \subseteq FIRST_FIFO..(MAX_FIFO - 1)
    BY <1>3
  <2> QED BY <1>5, <1>6, <2>1, <2>4, <2>5, <2>6
<1>16. CurrentInPlace'
  <2>1. placed'[N].data = dataIdx
    BY <1>7
  <2>2. /\ N > 0 /\ DATA0 <= dataIdx /\ dataIdx + GuestWords[c] <= AreaWords
    BY <1>2, <1>4, <1>6
  <2> QED BY <1>5, <1>6, <1>7, <2>1, <2>2 DEF CurrentInPlace
<1>17. dataIdx' = placed'[Len(made')].data + GuestWords[made'[Len(made')]]
  BY <1>6, <1>7
<1> QED BY <1>1, <1>8, <1>9, <1>14, <1>15, <1>16, <1>17 DEF IInv, QueueLayout

LEMMA CallReturnsKeeps ==
  ASSUME IInv, CallReturns
  PROVE  IInv'
<1> DEFINE N == Len(made)
           c == made[N]
<1>0. TypeOK /\ SeenAsMade /\ QueueLayout
  BY DEF IInv
<1>1. /\ pc = "done" /\ pc' = "guest"
      /\ readBack' = [k \in 1..ReadWords[c] |-> mdata[DATA0 + k - 1]]
      /\ UNCHANGED <<mfifo, fifoIdx, mdata, dataIdx, i, j, made, placed, seen>>
  BY DEF CallReturns
<1>2. /\ FIRST_FIFO \in Nat /\ DATA0 \in Nat /\ DATA0 < MAX_DATA /\ N \in Nat /\ Len(seen) \in Nat
      /\ MAX_DATA \in Nat /\ MAX_DATA <= AreaWords /\ AreaWords \in Nat
  BY <1>0, Sizes
<1>3. made # <<>> /\ Len(seen) = N /\ fifoIdx = FIRST_FIFO /\ dataIdx = DATA0
  BY <1>0, <1>1 DEF QueueLayout
<1>4. TypeOK'
  <2>1. N \in 1..N
    BY <1>0, <1>2, <1>3 DEF TypeOK
  <2>2. c \in Call
    BY <1>0, <2>1, MadeSizes
  <2>3. ReadWords[c] \in Nat /\ \A k \in 1..ReadWords[c] : DATA0 + k - 1 \in DATA0..(AreaWords - 1)
    <3>1. ReadWords[c] \in Nat
      BY <2>2, SizesAreNat
    <3>2. ReadWords[c] > 0 => DATA0 + ReadWords[c] <= AreaWords
      BY <2>2, ReadersSendNothing
    <3> QED BY <1>2, <3>1, <3>2
  <2>4. \A k \in 1..ReadWords[c] : mdata[DATA0 + k - 1] \in Words
    BY <1>0, <2>3 DEF TypeOK
  <2>5. readBack' \in Seq(Words)
    BY <1>1, <2>3, <2>4
  <2> QED BY <1>0, <1>1, <2>5 DEF TypeOK
<1>5. SeenAsMade'
  BY <1>0, <1>1 DEF SeenAsMade, Remote!AsMade, Remote!Word
<1>6. First' = N + 1 /\ Last' = N
  BY <1>1, <1>3 DEF First, Last
<1>7. EntryAt'[N + 1] = FIRST_FIFO /\ DataAt'[N + 1] = DATA0
  BY <1>1, <1>2, <1>3 DEF EntryAt, DataAt
<1>8. Contiguous'
  <2>1. \A n \in (N + 1)..N : FALSE
    BY <1>2
  <2>2. \A n \in (N + 1)..(N + 1) : n = N + 1
    BY <1>2
  <2>3. ~(N + 1 < N + 1) /\ N + 1 <= N + 1
    BY <1>2
  <2> QED BY <1>1, <1>2, <1>3, <1>6, <1>7, <2>1, <2>2, <2>3 DEF Contiguous
<1>9. Stocked'
  <2>1. \A n \in (N + 1)..N : FALSE
    BY <1>2
  <2> QED BY <1>6, <2>1 DEF Stocked
<1>10. dataIdx' < MAX_DATA
  BY <1>1, <1>2, <1>3
<1> QED BY <1>1, <1>4, <1>5, <1>8, <1>9, <1>10 DEF IInv, QueueLayout

-----------------------------------------------------------------------------
(* The device keeps the invariant while it drains the queue *)

\* What Contiguous says while the device drains the queue.
LEMMA DrainLayout ==
  TypeOK /\ QueueLayout /\ pc = "drain" =>
    /\ Contiguous /\ Stocked /\ CurrentInPlace
    /\ dataIdx = placed[Len(made)].data + GuestWords[made[Len(made)]]
    /\ Last = Len(made) - 1 /\ Len(made) > 0
    /\ First \in 1..Len(made)
    /\ EntryAt[Len(made)] = fifoIdx /\ DataAt[Len(made)] = placed[Len(made)].data
    /\ EntryAt[First] = i /\ DataAt[First] = j
<1> HAVE TypeOK /\ QueueLayout /\ pc = "drain"
<1>1. /\ Contiguous /\ Stocked /\ CurrentInPlace /\ Last = Len(made) - 1
      /\ dataIdx = placed[Len(made)].data + GuestWords[made[Len(made)]]
  BY DEF QueueLayout, Last
<1>2. Len(made) \in Nat /\ Len(seen) \in Nat
  BY Sizes
<1>3. Len(made) > 0
  BY <1>1 DEF CurrentInPlace
<1>4. Len(made) \in 1..(Len(made) + 1) /\ Len(made) <= Len(made) /\ Last + 1 = Len(made)
  BY <1>1, <1>2, <1>3
<1>5. First \in 1..Len(made)
  BY <1>1, <1>2, <1>4 DEF Contiguous, First
<1>6. EntryAt[Len(made)] = fifoIdx
  BY <1>1, <1>4 DEF Contiguous
<1>7. DataAt[Len(made)] = placed[Len(made)].data
  BY <1>4 DEF DataAt
<1>8. EntryAt[First] = i /\ DataAt[First] = j
  BY <1>1 DEF Contiguous
<1> QED BY <1>1, <1>3, <1>5, <1>6, <1>7, <1>8

\* The next word of the queue starts the oldest call that is left.
LEMMA DrainNext ==
  ASSUME TypeOK, QueueLayout, pc = "drain", i < fifoIdx
  PROVE  /\ First \in 1..(Len(made) - 1) /\ First \in First..Last
         /\ mfifo[i] = Word(First, "fenum", 0)
         /\ \A k \in 1..NArgs[made[First]] : mfifo[i + k] = Word(First, "arg", k)
         /\ \A k \in 1..GuestWords[made[First]] : mdata[j + k - 1] = Word(First, "data", k)
<1>1. /\ Contiguous /\ Stocked /\ Last = Len(made) - 1 /\ First \in 1..Len(made)
      /\ EntryAt[Len(made)] = fifoIdx /\ EntryAt[First] = i /\ DataAt[First] = j
  BY DrainLayout
<1>2. Len(made) \in Nat /\ i \in Nat /\ fifoIdx \in Nat
  BY Sizes
<1>3. First # Len(made)
  BY <1>1, <1>2
<1>4. First \in 1..(Len(made) - 1) /\ First \in First..Last
  BY <1>1, <1>2, <1>3
<1> QED BY <1>1, <1>4 DEF Stocked

LEMMA DrainOneKeeps ==
  ASSUME IInv, SidesAgree, DrainOne
  PROVE  IInv'
<1> DEFINE n == First
           c == made[n]
           N == Len(made)
<1>0. TypeOK /\ SeenAsMade /\ QueueLayout
  BY DEF IInv
<1>1. /\ pc = "drain" /\ i < fifoIdx
      /\ UNCHANGED <<mfifo, fifoIdx, dataIdx, pc, made, placed, readBack>>
  BY DEF DrainOne
<1>2. /\ n \in 1..(N - 1) /\ n \in n..Last
      /\ mfifo[i] = Word(n, "fenum", 0)
      /\ \A k \in 1..NArgs[c] : mfifo[i + k] = Word(n, "arg", k)
      /\ \A k \in 1..GuestWords[c] : mdata[j + k - 1] = Word(n, "data", k)
  BY <1>0, <1>1, DrainNext
<1>3. /\ Contiguous /\ Stocked /\ CurrentInPlace
      /\ dataIdx = placed[N].data + GuestWords[made[N]]
      /\ Last = N - 1 /\ N > 0 /\ n \in 1..N
      /\ EntryAt[N] = fifoIdx /\ DataAt[N] = placed[N].data
      /\ EntryAt[n] = i /\ DataAt[n] = j
  BY <1>0, <1>1, DrainLayout
<1>4. /\ N \in Nat /\ i \in Nat /\ j \in Nat /\ Len(seen) \in Nat /\ FIRST_FIFO \in Nat
      /\ DATA0 \in Nat /\ AreaWords \in Nat /\ fifoIdx \in Nat
  BY <1>0, Sizes
<1>5. n \in 1..N /\ n = Len(seen) + 1 /\ n + 1 \in 1..N
  BY <1>2, <1>4 DEF First
<1>6. /\ c \in Call /\ NArgs[c] \in Nat /\ GuestWords[c] \in Nat
      /\ HostArgs[c] = NArgs[c] /\ HostWords[c] = GuestWords[c]
      /\ Stores[c] \subseteq 0..(GuestWords[c] - 1)
  <2>1. c \in Call /\ NArgs[c] \in Nat /\ GuestWords[c] \in Nat
    BY <1>0, <1>5, MadeSizes
  <2> QED BY <2>1 DEF SidesAgree
<1>7. n \in 0..MaxCalls
  <2>1. N <= MaxCalls /\ MaxCalls \in Nat
    BY <1>0, SizesAreNat DEF TypeOK
  <2> QED BY <1>4, <1>5, <2>1
<1>8. mfifo[i].call = n
  BY <1>2, WordCall
<1>9. /\ seen' = Append(seen, Decoded(Word(n, "fenum", 0), c, i + 1, j))
      /\ mdata' = Stored(c, n, j)
      /\ i' = i + 1 + NArgs[c] /\ j' = j + GuestWords[c]
  BY <1>2, <1>6, <1>8 DEF DrainOne
<1>10. Decoded(Word(n, "fenum", 0), c, i + 1, j) = Remote!AsMade(n, c)
  <2>1. \A k \in 1..NArgs[c] : (i + 1) + k - 1 = i + k
    BY <1>4, <1>6
  <2>2. \A k \in 1..NArgs[c] : mfifo[(i + 1) + k - 1] = Word(n, "arg", k)
    BY <1>2, <2>1
  <2> QED BY <1>2, <1>6, <2>2, DecodedAsMade
<1>11. /\ seen' \in Seq([fenum : Words, args : Seq(Words), data : Seq(Words)])
       /\ Len(seen') = n
       /\ \A m \in 1..Len(seen) : seen'[m] = seen[m]
       /\ seen'[n] = Remote!AsMade(n, c)
  <2>1. Remote!AsMade(n, c) \in [fenum : Words, args : Seq(Words), data : Seq(Words)]
    BY <1>6, <1>7, AsMadeType
  <2>2. seen \in Seq([fenum : Words, args : Seq(Words), data : Seq(Words)])
    BY <1>0 DEF TypeOK
  <2>3. seen' = Append(seen, Remote!AsMade(n, c))
    BY <1>9, <1>10
  <2> QED BY <1>5, <2>1, <2>2, <2>3, AppendKeeps
<1>12. /\ mdata' \in [DATA0..(AreaWords - 1) -> Words]
       /\ \A k \in DATA0..(AreaWords - 1) : k >= j + GuestWords[c] => mdata'[k] = mdata[k]
  <2>1. mdata \in [DATA0..(AreaWords - 1) -> Words]
    BY <1>0 DEF TypeOK
  <2>2. \A k \in DATA0..(AreaWords - 1) :
          mdata'[k] = IF k - j \in Stores[c] THEN Word(n, "stored", k - j) ELSE mdata[k]
    BY <1>9, <2>1 DEF Stored
  <2>3. \A k \in DATA0..(AreaWords - 1) : k - j \in Stores[c] => Word(n, "stored", k - j) \in Words
    <3>1. Stores[c] \subseteq Nat
      BY <1>6, SizesAreNat
    <3> QED BY <1>7, <3>1, WordType DEF Parts
  <2>4. \A k \in DATA0..(AreaWords - 1) : k >= j + GuestWords[c] => k - j \notin Stores[c]
    <3>1. \A k \in DATA0..(AreaWords - 1) : k >= j + GuestWords[c] => k - j \notin 0..(GuestWords[c] - 1)
      BY <1>4, <1>6
    <3> QED BY <1>6, <3>1
  <2>5. mdata' \in [DATA0..(AreaWords - 1) -> Words]
    BY <1>9, <2>1, <2>3 DEF Stored
  <2> QED BY <2>2, <2>4, <2>5
<1>13. TypeOK'
  <2>1. i' \in Nat /\ j' \in Nat
    BY <1>4, <1>6, <1>9
  <2> QED BY <1>0, <1>1, <1>11, <1>12, <2>1 DEF TypeOK
<1>14. SeenAsMade'
  <2>1. Len(seen') <= Len(made')
    BY <1>1, <1>4, <1>5, <1>11
  <2>2. ASSUME NEW m \in 1..Len(seen')
        PROVE  seen'[m] = Remote!AsMade(m, made'[m])
    <3>1. CASE m = n
      BY <1>1, <1>11, <3>1
    <3>2. CASE m # n
      <4>1. m \in 1..Len(seen)
        BY <1>4, <1>5, <1>11, <3>2
      <4>2. seen[m] = Remote!AsMade(m, made[m])
        BY <1>0, <4>1 DEF SeenAsMade
      <4> QED BY <1>1, <1>11, <4>1, <4>2
    <3> QED BY <3>1, <3>2
  <2> QED BY <2>1, <2>2 DEF SeenAsMade, Remote!AsMade, Remote!Word
<1>15. First' = n + 1 /\ Last' = Last /\ EntryAt' = EntryAt /\ DataAt' = DataAt
  BY <1>1, <1>11 DEF First, Last, EntryAt, DataAt
<1>16. \A m \in (n + 1)..Last : m \in n..Last
  BY <1>3, <1>4, <1>5
<1>17. \A m \in (n + 1)..(Last + 1) : m \in n..(Last + 1) /\ m \in 1..(N + 1) /\ n < m
  BY <1>3, <1>4, <1>5
<1>18. Contiguous'
  <2>1. /\ n + 1 <= Last + 1
        /\ EntryAt[n + 1] = i' /\ DataAt[n + 1] = j'
    BY <1>2, <1>3, <1>4, <1>5, <1>9 DEF Contiguous
  <2> QED BY <1>1, <1>3, <1>15, <1>16, <1>17, <2>1 DEF Contiguous
<1>19. \A m \in (n + 1)..(Last + 1) : j + GuestWords[c] <= DataAt[m] /\ DataAt[m] \in Nat
  <2>1. n \in n..(Last + 1)
    BY <1>2, <1>3, <1>4, <1>5
  <2>2. \A m \in (n + 1)..(Last + 1) : DataAt[n] + GuestWords[c] <= DataAt[m]
    BY <1>3, <1>17, <2>1 DEF Contiguous
  <2> QED BY <1>0, <1>3, <1>17, <2>2, PlacesAreNat
<1>20. /\ placed[N].data \in Nat /\ GuestWords[made[N]] \in Nat
       /\ placed[N].data + GuestWords[made[N]] <= AreaWords
  <2>1. N \in 1..N /\ N \in 1..(N + 1)
    BY <1>3, <1>4
  <2>2. DataAt[N] \in Nat /\ GuestWords[made[N]] \in Nat
    BY <1>0, <2>1, PlacesAreNat, MadeSizes
  <2> QED BY <1>3, <2>2 DEF CurrentInPlace
<1>21. ASSUME NEW m \in (n + 1)..(Last + 1), NEW k \in 1..GuestWords[made[m]]
       PROVE  mdata'[DataAt[m] + k - 1] = mdata[DataAt[m] + k - 1]
  <2>1. j + GuestWords[c] <= DataAt[m] /\ DataAt[m] \in Nat
    BY <1>19
  <2>2. DataAt[m] + GuestWords[made[m]] <= AreaWords /\ GuestWords[made[m]] \in Nat
    <3>1. CASE m = N
      BY <1>3, <1>20, <3>1
    <3>2. CASE m # N
      <4>1. m \in n..(Last + 1) /\ N \in n..(Last + 1) /\ m < N /\ m \in 1..N
        BY <1>3, <1>4, <1>5, <3>2
      <4>2. DataAt[m] + GuestWords[made[m]] <= placed[N].data
        BY <1>3, <4>1 DEF Contiguous
      <4>3. GuestWords[made[m]] \in Nat
        BY <1>0, <4>1, MadeSizes
      <4> DEFINE at == DataAt[m]
                 words == GuestWords[made[m]]
                 end == placed[N].data
      <4>4. end <= AreaWords
        BY <1>4, <1>20
      <4>5. at \in Nat /\ words \in Nat /\ end \in Nat /\ at + words <= end
        BY <1>20, <2>1, <4>2, <4>3
      <4> HIDE DEF at, words, end
      <4>6. at + words <= AreaWords /\ words \in Nat
        BY <1>4, <4>4, <4>5
      <4> QED BY <4>6 DEF at, words
    <3> QED BY <3>1, <3>2
  <2>3. /\ DataAt[m] + k - 1 \in DATA0..(AreaWords - 1)
        /\ DataAt[m] + k - 1 >= j + GuestWords[c]
    <3>1. m \in n..(Last + 1)
      BY <1>17
    <3>2. DATA0 <= DataAt[m]
      BY <1>3, <3>1 DEF Contiguous
    <3>3. DataAt[m] + k - 1 \in DATA0..(AreaWords - 1)
      BY <1>4, <2>1, <2>2, <3>2, Within
    <3>4. DataAt[m] + k - 1 >= j + GuestWords[c]
      <4>1. j + GuestWords[c] \in Nat /\ k >= 1 /\ k \in Nat
        BY <1>4, <1>6, <2>2
      <4> QED BY <2>1, <4>1
    <3> QED BY <3>3, <3>4
  <2> QED BY <1>12, <2>3
<1>22. Stocked'
  <2> SUFFICES ASSUME NEW m \in (n + 1)..Last
               PROVE  /\ mfifo[EntryAt[m]] = Word(m, "fenum", 0)
                      /\ \A k \in 1..NArgs[made[m]] : mfifo[EntryAt[m] + k] = Word(m, "arg", k)
                      /\ \A k \in 1..GuestWords[made[m]] :
                           mdata'[DataAt[m] + k - 1] = Word(m, "data", k)
    BY <1>1, <1>15 DEF Stocked
  <2>1. /\ mfifo[EntryAt[m]] = Word(m, "fenum", 0)
        /\ \A k \in 1..NArgs[made[m]] : mfifo[EntryAt[m] + k] = Word(m, "arg", k)
        /\ \A k \in 1..GuestWords[made[m]] : mdata[DataAt[m] + k - 1] = Word(m, "data", k)
    BY <1>3, <1>16 DEF Stocked
  <2>2. m \in (n + 1)..(Last + 1)
    BY <1>3, <1>4
  <2> QED BY <1>21, <2>1, <2>2
<1>23. CurrentInPlace'
  <2>1. N \in (n + 1)..(Last + 1)
    BY <1>3, <1>4, <1>5
  <2>2. \A k \in 1..GuestWords[made[N]] :
          mdata'[placed[N].data + k - 1] = mdata[placed[N].data + k - 1]
    BY <1>3, <1>21, <2>1
  <2> QED BY <1>1, <1>3, <2>2 DEF CurrentInPlace
<1> QED BY <1>1, <1>3, <1>13, <1>14, <1>18, <1>22, <1>23 DEF IInv, QueueLayout

\* When the device leaves the loop, only the call being made is left.
LEMMA DrainedAll ==
  ASSUME TypeOK, QueueLayout, pc = "drain", i >= fifoIdx
  PROVE  Len(seen) = Len(made) - 1 /\ j = placed[Len(made)].data
<1>1. /\ Contiguous /\ Last = Len(made) - 1 /\ First \in 1..Len(made)
      /\ EntryAt[Len(made)] = fifoIdx /\ EntryAt[First] = i /\ DataAt[First] = j
      /\ DataAt[Len(made)] = placed[Len(made)].data
  BY DrainLayout
<1>2. /\ Len(made) \in Nat /\ Len(seen) \in Nat /\ i \in Nat /\ fifoIdx \in Nat
  BY Sizes
<1>3. First = Len(made)
  <2> SUFFICES ASSUME First < Len(made) PROVE FALSE
    BY <1>1, <1>2
  <2>1. First \in First..(Last + 1) /\ Len(made) \in First..(Last + 1) /\ First \in 1..Len(made)
    BY <1>1, <1>2
  <2>2. i + 1 + NArgs[made[First]] <= fifoIdx
    BY <1>1, <2>1 DEF Contiguous
  <2>3. NArgs[made[First]] \in Nat
    BY <2>1, MadeSizes
  <2> QED BY <1>2, <2>2, <2>3
<1>4. Len(seen) = Len(made) - 1
  BY <1>2, <1>3 DEF First
<1> QED BY <1>1, <1>3, <1>4

LEMMA DrainEndsKeeps ==
  ASSUME IInv, DrainEnds
  PROVE  IInv'
<1> DEFINE N == Len(made)
<1>0. TypeOK /\ SeenAsMade /\ QueueLayout
  BY DEF IInv
<1>1. /\ pc = "drain" /\ i >= fifoIdx /\ pc' = "call" /\ fifoIdx' = FIRST_FIFO
      /\ dataIdx' = IF j > DATA0 THEN dataIdx - j ELSE dataIdx
      /\ UNCHANGED <<mfifo, mdata, i, j, made, placed, seen, readBack>>
  BY DEF DrainEnds
<1>2. Len(seen) = N - 1 /\ j = placed[N].data
  BY <1>0, <1>1, DrainedAll
<1>3. /\ CurrentInPlace /\ N > 0 /\ dataIdx = placed[N].data + GuestWords[made[N]]
  BY <1>0, <1>1, DrainLayout
<1>4. /\ N \in Nat /\ DATA0 \in Nat /\ j \in Nat /\ dataIdx \in Nat
      /\ FIRST_FIFO \in Nat /\ MAX_FIFO \in Nat /\ FIRST_FIFO < MAX_FIFO
  BY <1>0, Sizes
<1>5. GuestWords[made[N]] \in Nat /\ DATA0 <= j
  <2>1. N \in 1..N
    BY <1>3, <1>4
  <2> QED BY <1>0, <1>2, <1>3, <2>1, MadeSizes DEF CurrentInPlace
<1>6. dataIdx' = (IF j > DATA0 THEN 0 ELSE DATA0) + GuestWords[made[N]] /\ dataIdx' \in Nat
  <2>1. CASE j > DATA0
    BY <1>1, <1>2, <1>3, <1>4, <1>5, <2>1
  <2>2. CASE ~(j > DATA0)
    BY <1>1, <1>2, <1>3, <1>4, <1>5, <2>2
  <2> QED BY <2>1, <2>2
<1>7. TypeOK'
  BY <1>0, <1>1, <1>4, <1>6 DEF TypeOK
<1>8. SeenAsMade'
  BY <1>0, <1>1 DEF SeenAsMade, Remote!AsMade, Remote!Word
<1>9. CurrentInPlace'
  BY <1>1, <1>3 DEF CurrentInPlace
<1> QED BY <1>1, <1>2, <1>6, <1>7, <1>8, <1>9 DEF IInv, QueueLayout

-----------------------------------------------------------------------------
(* The immediate call itself keeps the invariant *)

LEMMA CarryOutKeeps ==
  ASSUME IInv, SidesAgree, CarryOut
  PROVE  IInv'
<1> DEFINE N == Len(made)
           c == made[N]
<1>0. TypeOK /\ SeenAsMade /\ QueueLayout
  BY DEF IInv
<1>1. /\ pc = "call" /\ pc' = "done" /\ dataIdx' = DATA0
      /\ seen' = Append(seen, Decoded(Word(N, "fenum", 0), c, 2, j))
      /\ mdata' = [k \in DOMAIN mdata |->
                     IF k \in j..(j + ReadWords[c] - 1)
                     THEN Word(N, "result", k - j + 1) ELSE Stored(c, N, j)[k]]
      /\ UNCHANGED <<mfifo, fifoIdx, i, j, made, placed, readBack>>
  BY DEF CarryOut
<1>2. /\ CurrentInPlace /\ Len(seen) = N - 1 /\ fifoIdx = FIRST_FIFO /\ j = placed[N].data
  BY <1>0, <1>1 DEF QueueLayout
<1>3. /\ N \in Nat /\ j \in Nat /\ DATA0 \in Nat /\ AreaWords \in Nat /\ FIRST_FIFO \in Nat
  BY <1>0, Sizes
<1>4. N > 0 /\ N \in 1..N
  BY <1>2, <1>3 DEF CurrentInPlace
<1>5. c \in Call /\ NArgs[c] \in Nat /\ GuestWords[c] \in Nat
  BY <1>0, <1>4, MadeSizes
<1>6. N \in 0..MaxCalls
  <2>1. N <= MaxCalls /\ MaxCalls \in Nat
    BY <1>0, SizesAreNat DEF TypeOK
  <2> QED BY <1>3, <2>1
<1>7. Decoded(Word(N, "fenum", 0), c, 2, j) = Remote!AsMade(N, c)
  <2>1. \A k \in 1..NArgs[c] : 2 + k - 1 = 1 + k
    BY <1>5
  <2>2. \A k \in 1..NArgs[c] : mfifo[2 + k - 1] = Word(N, "arg", k)
    BY <1>2, <2>1 DEF CurrentInPlace
  <2>3. \A k \in 1..GuestWords[c] : mdata[j + k - 1] = Word(N, "data", k)
    BY <1>2 DEF CurrentInPlace
  <2> QED BY <1>5, <2>2, <2>3, DecodedAsMade
<1>8. /\ seen' \in Seq([fenum : Words, args : Seq(Words), data : Seq(Words)])
      /\ Len(seen') = N
      /\ \A m \in 1..Len(seen) : seen'[m] = seen[m]
      /\ seen'[N] = Remote!AsMade(N, c)
  <2>1. Remote!AsMade(N, c) \in [fenum : Words, args : Seq(Words), data : Seq(Words)]
    BY <1>5, <1>6, AsMadeType
  <2>2. seen \in Seq([fenum : Words, args : Seq(Words), data : Seq(Words)])
    BY <1>0 DEF TypeOK
  <2>3. seen' = Append(seen, Remote!AsMade(N, c))
    BY <1>1, <1>7
  <2>4. Len(seen) + 1 = N
    BY <1>2, <1>3
  <2> QED BY <2>1, <2>2, <2>3, <2>4, AppendKeeps
<1>9. mdata \in [DATA0..(AreaWords - 1) -> Words]
  BY <1>0 DEF TypeOK
<1>10. mdata' \in [DATA0..(AreaWords - 1) -> Words]
  <2>1. Stores[c] \subseteq Nat
    BY <1>5, SizesAreNat
  <2>2. \A k \in DATA0..(AreaWords - 1) : Stored(c, N, j)[k] \in Words
    <3>1. \A k \in DATA0..(AreaWords - 1) : k - j \in Stores[c] => Word(N, "stored", k - j) \in Words
      BY <1>6, <2>1, WordType DEF Parts
    <3> QED BY <1>9, <3>1 DEF Stored
  <2>3. \A k \in j..(j + ReadWords[c] - 1) : Word(N, "result", k - j + 1) \in Words
    <3>1. ReadWords[c] \in Nat
      BY <1>5, SizesAreNat
    <3>2. \A k \in j..(j + ReadWords[c] - 1) : k - j + 1 \in Nat
      BY <1>3, <3>1
    <3> QED BY <1>6, <3>2, WordType DEF Parts
  <2> QED BY <1>1, <1>9, <2>2, <2>3
<1>11. TypeOK'
  BY <1>0, <1>1, <1>3, <1>8, <1>10 DEF TypeOK
<1>12. SeenAsMade'
  <2>1. Len(seen') <= Len(made')
    BY <1>1, <1>3, <1>8
  <2>2. ASSUME NEW m \in 1..Len(seen')
        PROVE  seen'[m] = Remote!AsMade(m, made'[m])
    <3>1. CASE m = N
      BY <1>1, <1>8, <3>1
    <3>2. CASE m # N
      <4>1. m \in 1..Len(seen)
        BY <1>2, <1>3, <1>8, <3>2
      <4>2. seen[m] = Remote!AsMade(m, made[m])
        BY <1>0, <4>1 DEF SeenAsMade
      <4> QED BY <1>1, <1>8, <4>1, <4>2
    <3> QED BY <3>1, <3>2
  <2> QED BY <2>1, <2>2 DEF SeenAsMade, Remote!AsMade, Remote!Word
<1>13. j = DATA0 => \A k \in 1..ReadWords[c] : mdata'[DATA0 + k - 1] = Word(N, "result", k)
  <2> SUFFICES ASSUME j = DATA0, NEW k \in 1..ReadWords[c]
               PROVE  mdata'[DATA0 + k - 1] = Word(N, "result", k)
    OBVIOUS
  <2>1. ReadWords[c] \in Nat
    BY <1>5, SizesAreNat
  <2>2. DATA0 + ReadWords[c] <= AreaWords
    BY <1>5, <2>1, ReadersSendNothing
  <2>3. /\ DATA0 + k - 1 \in DATA0..(AreaWords - 1)
        /\ DATA0 + k - 1 \in DATA0..(DATA0 + ReadWords[c] - 1)
        /\ (DATA0 + k - 1) - DATA0 + 1 = k
    BY <1>3, <2>1, <2>2
  <2> QED BY <1>1, <1>9, <2>3
<1>14. made' # <<>> /\ Len(seen') = Len(made') /\ fifoIdx' = FIRST_FIFO
  <2>1. made' # <<>>
    BY <1>1, <1>4
  <2> QED BY <1>1, <1>2, <1>8, <2>1
<1> QED BY <1>1, <1>11, <1>12, <1>13, <1>14 DEF IInv, QueueLayout

-----------------------------------------------------------------------------
(* The theorems *)

LEMMA StepKeeps ==
  ASSUME IInv, SidesAgree, [LargeInEmptyArea]_vars, [Next]_vars
  PROVE  IInv'
<1>1. ASSUME NEW c \in Call, LargeInEmptyArea, Enqueue(c)
      PROVE  IInv'
  BY <1>1, EnqueueKeeps
<1>2. ASSUME NEW c \in Call, LargeInEmptyArea, CallNow(c)
      PROVE  IInv'
  BY <1>2, CallNowKeeps
<1>3. CASE CallReturns
  BY <1>3, CallReturnsKeeps
<1>4. CASE DrainOne
  BY <1>4, DrainOneKeeps
<1>5. CASE DrainEnds
  BY <1>5, DrainEndsKeeps
<1>6. CASE CarryOut
  BY <1>6, CarryOutKeeps
<1>7. CASE UNCHANGED vars
  <2>1. /\ mfifo' = mfifo /\ fifoIdx' = fifoIdx /\ mdata' = mdata /\ dataIdx' = dataIdx
        /\ pc' = pc /\ i' = i /\ j' = j /\ made' = made /\ placed' = placed
        /\ seen' = seen /\ readBack' = readBack
    BY <1>7 DEF vars
  <2>2. TypeOK'
    BY <2>1 DEF IInv, TypeOK
  <2>3. SeenAsMade'
    BY <2>1 DEF IInv, SeenAsMade, Remote!AsMade, Remote!Word
  <2>4. First' = First /\ Last' = Last /\ EntryAt' = EntryAt /\ DataAt' = DataAt
    BY <2>1 DEF First, Last, EntryAt, DataAt
  <2>5. (Contiguous <=> Contiguous') /\ (Stocked <=> Stocked') /\ (CurrentInPlace <=> CurrentInPlace')
    BY <2>1, <2>4 DEF Contiguous, Stocked, CurrentInPlace
  <2>6. QueueLayout'
    BY <2>1, <2>5 DEF IInv, QueueLayout
  <2> QED BY <2>2, <2>3, <2>6 DEF IInv
<1> QED BY <1>1, <1>2, <1>3, <1>4, <1>5, <1>6, <1>7 DEF Next, Guest, Device

(* Where the data of every call fit behind MAX_DATA, none has to be sent    *)
(* alone: the theorems then need no hypothesis about the guest.             *)
LEMMA SlackIsEnough ==
  SlackFits => (Spec => LargeAlone)
<1> SUFFICES ASSUME SlackFits
             PROVE  Spec => LargeAlone
  OBVIOUS
<1>1. LargeInEmptyArea
  BY DEF SlackFits, LargeInEmptyArea
<1> QED BY <1>1, PTL DEF LargeAlone

(* Wherever the sizes of the two sides agree (SidesAgree) and data that do  *)
(* not fit behind MAX_DATA are sent into an empty area (LargeAlone), guest  *)
(* and device agree all the time about where the queued calls and their     *)
(* data lie.                                                                *)
THEOREM QueueIntact ==
  SidesAgree => (Spec /\ LargeAlone => []IInv)
<1> SUFFICES ASSUME SidesAgree
             PROVE  Spec /\ LargeAlone => []IInv
  OBVIOUS
<1>1. Init => IInv
  BY InitLayout
<1>2. IInv /\ [LargeInEmptyArea]_vars /\ [Next]_vars => IInv'
  BY StepKeeps
<1> QED BY <1>1, <1>2, PTL DEF Spec, LargeAlone

(* Every variable keeps its type; the write indexes of the queue stay in    *)
(* range, and the data index never wraps below zero.                        *)
THEOREM TypeCorrect ==
  SidesAgree => (Spec /\ LargeAlone => []TypeOK)
<1>1. IInv => TypeOK
  BY DEF IInv
<1> QED BY <1>1, QueueIntact, PTL

(* processFifo decodes every call with its own number, its own arguments    *)
(* and its own data, in the order the guest made them.                      *)
THEOREM CallsIntact ==
  SidesAgree => (Spec /\ LargeAlone => []SeenAsMade)
<1>1. IInv => SeenAsMade
  BY DEF IInv
<1> QED BY <1>1, QueueIntact, PTL

(* fifoAddData never stores into the result page, although FIFO_GRFUNC      *)
(* looks at the data index only afterwards.                                 *)
THEOREM DataStaysInArea ==
  SidesAgree => (Spec /\ LargeAlone => []DataInArea)
<1>1. ASSUME IInv
      PROVE  DataInArea
  <2>0. TypeOK /\ QueueLayout
    BY <1>1 DEF IInv
  <2>1. /\ dataIdx \in Nat /\ MAX_DATA \in Nat /\ AreaWords \in Nat /\ MAX_DATA <= AreaWords
        /\ DATA0 \in Nat /\ DATA0 < MAX_DATA /\ j \in Nat /\ Len(made) \in Nat
    BY <2>0, Sizes
  <2>2. CASE pc = "guest"
    BY <2>0, <2>1, <2>2 DEF QueueLayout, DataInArea
  <2>3. CASE pc = "drain"
    BY <2>0, <2>3 DEF QueueLayout, CurrentInPlace, DataInArea
  <2>4. CASE pc = "call"
    <3>1. /\ CurrentInPlace /\ j = placed[Len(made)].data
          /\ dataIdx = (IF j > DATA0 THEN 0 ELSE DATA0) + GuestWords[made[Len(made)]]
      BY <2>0, <2>4 DEF QueueLayout
    <3>2. Len(made) \in 1..Len(made)
      BY <2>1, <3>1 DEF CurrentInPlace
    <3>3. GuestWords[made[Len(made)]] \in Nat
      BY <2>0, <3>2, MadeSizes
    <3>4. DATA0 <= j /\ j + GuestWords[made[Len(made)]] <= AreaWords
      BY <3>1 DEF CurrentInPlace
    <3>5. dataIdx <= j + GuestWords[made[Len(made)]]
      BY <2>1, <3>1, <3>3, <3>4
    <3> QED BY <2>1, <3>3, <3>4, <3>5 DEF DataInArea
  <2>5. CASE pc = "done"
    BY <2>0, <2>1, <2>5 DEF QueueLayout, DataInArea
  <2> QED BY <2>0, <2>2, <2>3, <2>4, <2>5 DEF TypeOK
<1>2. IInv => DataInArea
  BY <1>1
<1> QED BY <1>2, QueueIntact, PTL

(* The device never finds words in the data area that no call accounts for. *)
THEOREM NoLeak ==
  SidesAgree => (Spec /\ LargeAlone => []NoDataLeak)
<1> SUFFICES ASSUME SidesAgree
             PROVE  Spec /\ LargeAlone => []NoDataLeak
  OBVIOUS
<1>1. ASSUME IInv
      PROVE  NoDataLeak
  <2>0. TypeOK /\ QueueLayout
    BY <1>1 DEF IInv
  <2> SUFFICES ASSUME pc = "call"
               PROVE  dataIdx - HostWords[made[Len(made)]] = IF j > DATA0 THEN 0 ELSE DATA0
    BY DEF NoDataLeak
  <2>1. /\ CurrentInPlace
        /\ dataIdx = (IF j > DATA0 THEN 0 ELSE DATA0) + GuestWords[made[Len(made)]]
    BY <2>0 DEF QueueLayout
  <2>2. Len(made) \in 1..Len(made) /\ DATA0 \in Nat
    BY <2>0, <2>1, Sizes DEF CurrentInPlace
  <2>3. /\ GuestWords[made[Len(made)]] \in Nat
        /\ HostWords[made[Len(made)]] = GuestWords[made[Len(made)]]
    BY <2>0, <2>2, MadeSizes DEF SidesAgree
  <2> QED BY <2>1, <2>2, <2>3
<1>2. IInv => NoDataLeak
  BY <1>1
<1> QED BY <1>2, QueueIntact, PTL

(* When the queue is empty, every call the guest made has been carried out. *)
THEOREM NoneLeftBehind ==
  SidesAgree => (Spec /\ LargeAlone => []NothingStranded)
<1>1. ASSUME IInv
      PROVE  NothingStranded
  <2>0. TypeOK /\ QueueLayout /\ SeenAsMade
    BY <1>1 DEF IInv
  <2> SUFFICES ASSUME pc = "guest", fifoIdx = FIRST_FIFO
               PROVE  Len(seen) = Len(made)
    BY DEF NothingStranded
  <2>1. Len(made) \in Nat /\ Len(seen) \in Nat /\ FIRST_FIFO \in Nat
    BY <2>0, Sizes
  <2>2. First \in 1..(Len(made) + 1)
    BY <2>0, GuestLayout
  <2>3. CASE First = Len(made) + 1
    BY <2>1, <2>3 DEF First
  <2>4. CASE First # Len(made) + 1
    <3>1. First \in First..Len(made)
      BY <2>1, <2>2, <2>4
    <3>2. /\ FIRST_FIFO <= EntryAt[First] /\ EntryAt[First] + 1 + NArgs[made[First]] <= fifoIdx
          /\ First \in 1..Len(made) /\ First \in 1..(Len(made) + 1)
      BY <2>0, <3>1, QueuedBefore
    <3>3. EntryAt[First] \in Nat /\ NArgs[made[First]] \in Nat
      BY <2>0, <3>2, PlacesAreNat, MadeSizes
    <3> QED BY <2>1, <3>2, <3>3
  <2> QED BY <2>3, <2>4
<1>2. IInv => NothingStranded
  BY <1>1
<1> QED BY <1>2, QueueIntact, PTL

(* A call that reads back with no drained data in the way gets exactly the  *)
(* words the device returned for it.                                        *)
THEOREM ReadBackCorrect ==
  SidesAgree => (Spec /\ LargeAlone => ReadBackIsOwn)
<1>1. ASSUME IInv, [Next]_vars, pc = "done", pc' = "guest", j = DATA0
      PROVE  OwnResults
  <2>0. TypeOK /\ QueueLayout
    BY <1>1 DEF IInv
  <2>1. CallReturns
    BY <1>1 DEF Next, Guest, Device, Enqueue, CallNow, DrainOne, DrainEnds, CarryOut, vars
  <2>2. \A k \in 1..ReadWords[made[Len(made)]] :
          mdata[DATA0 + k - 1] = Word(Len(made), "result", k)
    BY <2>0, <1>1 DEF QueueLayout
  <2>3. readBack' = [k \in 1..ReadWords[made[Len(made)]] |-> mdata[DATA0 + k - 1]]
    BY <2>1 DEF CallReturns
  <2> QED BY <2>2, <2>3 DEF OwnResults
<1>2. IInv /\ [Next]_vars => [pc = "done" /\ pc' = "guest" /\ j = DATA0 => OwnResults]_vars
  BY <1>1
<1> QED BY <1>2, QueueIntact, PTL DEF Spec, ReadBackIsOwn

-----------------------------------------------------------------------------
(* Why the guest does not wait for ever: the device has not far to go.     *)
(* That it goes on is the fairness of Spec, which QueueImplements uses.    *)

(* The cursors of processFifo never pass the write index of the queue nor   *)
(* the data of the call being made.  They reach the write index exactly     *)
(* when the last queued call has been carried out, and the data cursor is   *)
(* then at the data of the call being made: the loop runs on into no word   *)
(* that is not queued.                                                      *)
THEOREM DrainStaysInQueue ==
  SidesAgree => (Spec /\ LargeAlone => []CursorsInQueue)
<1>1. ASSUME IInv
      PROVE  CursorsInQueue
  <2>0. TypeOK /\ QueueLayout
    BY <1>1 DEF IInv
  <2> SUFFICES ASSUME pc = "drain"
               PROVE  /\ i <= fifoIdx /\ j <= placed[Len(made)].data
                      /\ i = fifoIdx <=> Len(seen) = Len(made) - 1
                      /\ i = fifoIdx => j = placed[Len(made)].data
    BY DEF CursorsInQueue
  <2>1. /\ Contiguous /\ Last = Len(made) - 1 /\ First \in 1..Len(made)
        /\ EntryAt[Len(made)] = fifoIdx /\ DataAt[Len(made)] = placed[Len(made)].data
        /\ EntryAt[First] = i /\ DataAt[First] = j
    BY <2>0, DrainLayout
  <2>2. Len(made) \in Nat /\ Len(seen) \in Nat /\ i \in Nat /\ j \in Nat /\ fifoIdx \in Nat
    BY <2>0, Sizes
  <2>3. CASE First = Len(made)
    <3>1. Len(seen) = Len(made) - 1
      BY <2>2, <2>3 DEF First
    <3> QED BY <2>1, <2>2, <2>3, <3>1
  <2>4. CASE First # Len(made)
    <3>1. /\ First \in First..(Last + 1) /\ Len(made) \in First..(Last + 1)
          /\ First < Len(made) /\ First \in 1..(Len(made) + 1) /\ Len(made) \in 1..(Len(made) + 1)
      BY <2>1, <2>2, <2>4
    <3>2. /\ i + 1 + NArgs[made[First]] <= fifoIdx
          /\ j + GuestWords[made[First]] <= placed[Len(made)].data
      BY <2>1, <3>1 DEF Contiguous
    <3>3. NArgs[made[First]] \in Nat /\ GuestWords[made[First]] \in Nat
      BY <2>0, <2>1, MadeSizes
    <3>4. placed[Len(made)].data \in Nat
      BY <2>0, <2>1, <3>1, PlacesAreNat
    <3>5. i < fifoIdx
      BY <2>2, <3>2, <3>3
    <3>6. j <= placed[Len(made)].data
      BY <2>2, <3>2, <3>3, <3>4
    <3>7. Len(seen) # Len(made) - 1
      BY <2>2, <2>4 DEF First
    <3> QED BY <2>2, <3>5, <3>6, <3>7
  <2> QED BY <2>3, <2>4
<1>2. IInv => CursorsInQueue
  BY <1>1
<1> QED BY <1>2, QueueIntact, PTL

(* While the guest is held, every step takes it one step nearer to the      *)
(* return of its call, and the way is never longer than the calls it has    *)
(* made and one step: no size in the queue can keep processFifo at one      *)
(* entry, and nothing the guest does makes the way longer.                  *)
THEOREM DeviceComesToItsEnd ==
  SidesAgree => (Spec /\ LargeAlone => [][Nearer]_vars)
<1>1. ASSUME IInv, IInv', [Next]_vars, ~UNCHANGED vars, pc \in {"drain", "call"}
      PROVE  Nearer
  <2>0. TypeOK /\ QueueLayout /\ TypeOK' /\ QueueLayout'
    BY <1>1 DEF IInv
  <2>1. Len(made) \in Nat /\ Len(seen) \in Nat /\ i \in Nat /\ fifoIdx \in Nat
    BY <2>0, Sizes
  <2>2. DrainOne \/ DrainEnds \/ CarryOut
    BY <1>1 DEF Next, Guest, Device, Enqueue, CallNow, CallReturns
  <2>3. CASE DrainOne
    <3>1. /\ pc = "drain" /\ i < fifoIdx /\ pc' = "drain" /\ made' = made
      BY <2>3 DEF DrainOne
    <3>2. First \in 1..(Len(made) - 1)
      BY <2>0, <3>1, DrainNext
    <3>3. Len(seen') = Len(seen) + 1
      BY <2>0, <2>3 DEF DrainOne, TypeOK
    <3> QED BY <2>1, <3>1, <3>2, <3>3 DEF Nearer, StepsLeft, First
  <2>4. CASE DrainEnds
    <3>1. pc = "drain" /\ i >= fifoIdx /\ pc' = "call"
      BY <2>4 DEF DrainEnds
    <3>2. Len(seen) = Len(made) - 1
      BY <2>0, <3>1, DrainedAll
    <3> QED BY <2>1, <3>1, <3>2 DEF Nearer, StepsLeft
  <2>5. CASE CarryOut
    <3>1. pc = "call" /\ pc' = "done"
      BY <2>5 DEF CarryOut
    <3> QED BY <2>1, <3>1 DEF Nearer, StepsLeft
  <2> QED BY <2>2, <2>3, <2>4, <2>5
<1>2. IInv /\ IInv' /\ [Next]_vars => [Nearer]_vars
  BY <1>1 DEF Nearer
<1> QED BY <1>2, QueueIntact, PTL DEF Spec

\* A step that appends to seen carries out the next call as it was made.
LEMMA AppendIsCarryOut ==
  ASSUME IInv, IInv', NEW e, seen' = Append(seen, e), made' = made, pc # "guest", pc' # "guest"
  PROVE  Remote!CarryOut
<1> DEFINE n == Len(seen) + 1
<1>1. Len(seen') = n /\ seen'[n] = e /\ n \in Nat /\ n > 0
  BY DEF IInv, TypeOK
<1>2. n <= Len(made) /\ \A m \in 1..Len(seen') : seen'[m] = Remote!AsMade(m, made[m])
  BY <1>1 DEF IInv, SeenAsMade, Remote!AsMade, Remote!Word
<1>3. e = Remote!AsMade(n, made[n])
  BY <1>1, <1>2
<1>4. Len(seen) < Len(made)
  BY <1>1, <1>2, Sizes DEF IInv
<1> QED BY <1>3, <1>4 DEF Remote!CarryOut

(* The safety part of the refinement: every step of the queue is a step of  *)
(* the abstract calls, or leaves them alone.                                *)
THEOREM StepsOfRemoteCalls ==
  SidesAgree => (Spec /\ LargeAlone => Remote!Init /\ [][Remote!Next]_(Remote!vars))
<1>1. Init => Remote!Init
  BY DEF Init, Remote!Init
<1>2. ASSUME IInv, IInv', [Next]_vars
      PROVE  [Remote!Next]_(Remote!vars)
  <2>1. ASSUME NEW c \in Call, Enqueue(c)
        PROVE  Remote!Defer(c)
    BY <2>1 DEF Enqueue, Made, Remote!Defer
  <2>2. ASSUME NEW c \in Call, CallNow(c)
        PROVE  Remote!Block(c)
    BY <2>2 DEF CallNow, Made, Remote!Block
  <2>3. CASE CallReturns
    <3>1. Len(seen) = Len(made)
      BY <1>2, <2>3 DEF IInv, QueueLayout, CallReturns
    <3> QED BY <2>3, <3>1 DEF CallReturns, Remote!Return, Remote!Next
  <2>4. CASE DrainOne
    <3>1. Remote!CarryOut
      BY <1>2, <2>4, AppendIsCarryOut DEF DrainOne
    <3> QED BY <3>1 DEF Remote!Next
  <2>5. CASE DrainEnds
    BY <2>5 DEF DrainEnds, Remote!vars
  <2>6. CASE CarryOut
    <3>1. Remote!CarryOut
      BY <1>2, <2>6, AppendIsCarryOut DEF CarryOut
    <3> QED BY <3>1 DEF Remote!Next
  <2>7. CASE UNCHANGED vars
    BY <2>7 DEF vars, Remote!vars
  <2> QED BY <1>2, <2>1, <2>2, <2>3, <2>4, <2>5, <2>6, <2>7 DEF Next, Guest, Device, Remote!Next
<1> QED BY <1>1, <1>2, QueueIntact, PTL DEF Spec
-----------------------------------------------------------------------------
(* The liveness half of the refinement *)

LEMMA DeviceStep ==
  ASSUME IInv, IInv', <<Device>>_vars
  PROVE  \/ <<Remote!CarryOut>>_(Remote!vars)
         \/ pc = "drain" /\ pc' = "call" /\ seen' = seen
<1>1. CASE DrainOne
  <2>1. Remote!CarryOut
    BY <1>1, AppendIsCarryOut DEF DrainOne
  <2>2. Len(seen') = Len(seen) + 1 /\ Len(seen) \in Nat
    BY <1>1, Sizes DEF DrainOne, IInv, TypeOK
  <2> QED BY <2>1, <2>2 DEF Remote!vars
<1>2. CASE DrainEnds
  BY <1>2 DEF DrainEnds
<1>3. CASE CarryOut
  <2>1. Remote!CarryOut
    BY <1>3, AppendIsCarryOut DEF CarryOut
  <2>2. Len(seen') = Len(seen) + 1 /\ Len(seen) \in Nat
    BY <1>3, Sizes DEF CarryOut, IInv, TypeOK
  <2> QED BY <2>1, <2>2 DEF Remote!vars
<1> QED BY <1>1, <1>2, <1>3 DEF Device

\* In which phase the guest is when calls are left, and when none is.
LEMMA PhaseOf ==
  ASSUME IInv, pc # "guest"
  PROVE  /\ pc \in {"drain", "call", "done"}
         /\ Len(seen) < Len(made) <=> pc \in {"drain", "call"}
         /\ Len(seen) = Len(made) <=> pc = "done"
<1>1. TypeOK /\ QueueLayout /\ pc \in {"drain", "call", "done"}
  BY DEF IInv, TypeOK
<1>2. Len(seen) \in Nat /\ Len(made) \in Nat
  BY <1>1, Sizes
<1>3. pc = "drain" => Len(seen) < Len(made)
  BY <1>1, <1>2, DrainLayout DEF First
<1>4. pc = "call" => Len(seen) < Len(made)
  BY <1>1, <1>2 DEF QueueLayout
<1>5. pc = "done" => Len(seen) = Len(made)
  BY <1>1 DEF QueueLayout
<1> QED BY <1>1, <1>2, <1>3, <1>4, <1>5

(* The queue implements the abstract calls, with their liveness: the calls  *)
(* that a call waits for are carried out one after the other, and it        *)
(* returns.                                                                 *)
THEOREM QueueImplements ==
  SidesAgree => (Spec /\ LargeAlone /\ []CanAct /\ []RemoteWaits => ImplementsRemoteCalls)
<1> SUFFICES ASSUME SidesAgree
             PROVE  Spec /\ LargeAlone /\ []CanAct /\ []RemoteWaits => ImplementsRemoteCalls
  OBVIOUS
<1> DEFINE Out == <<Remote!CarryOut>>_(Remote!vars)
           Back == <<Remote!Return>>_(Remote!vars)
           Guest0 == pc = "guest"
           Drain == pc = "drain"
           Call0 == pc = "call"
           Done == pc = "done"
<1>1. Spec /\ LargeAlone => []IInv /\ Remote!Init /\ [][Remote!Next]_(Remote!vars)
  BY QueueIntact, StepsOfRemoteCalls, PTL
<1>2. IInv /\ IInv' /\ <<Device>>_vars => Out \/ (Drain /\ Call0')
  BY DeviceStep
<1>3. IInv /\ IInv' /\ [Next]_vars /\ Drain => Drain' \/ Call0'
  BY DEF Next, Guest, Device, Enqueue, CallNow, CallReturns, DrainOne, DrainEnds, CarryOut, vars
<1>4. IInv /\ IInv' /\ [Next]_vars /\ Call0 => Call0' \/ Done'
  BY DEF Next, Guest, Device, Enqueue, CallNow, CallReturns, DrainOne, DrainEnds, CarryOut, vars
<1>5. IInv /\ IInv' /\ [Next]_vars /\ Done => Done' \/ Guest0'
  BY DEF Next, Guest, Device, Enqueue, CallNow, CallReturns, DrainOne, DrainEnds, CarryOut, vars
<1>6. IInv /\ <<CallReturns>>_vars => Back
  <2>1. IInv /\ CallReturns => Len(seen) = Len(made)
    BY DEF IInv, QueueLayout, CallReturns
  <2> QED BY <2>1 DEF CallReturns, Remote!Return, Remote!vars
<1>7. IInv /\ CanAct /\ (Drain \/ Call0) => ENABLED <<Device>>_vars
  BY DEF CanAct
<1>8. IInv /\ CanAct /\ Done => ENABLED <<CallReturns>>_vars
  BY DEF CanAct
<1>9. IInv /\ RemoteWaits /\ ENABLED <<Remote!CarryOut>>_(Remote!vars) => Drain \/ Call0
  BY PhaseOf DEF RemoteWaits
<1>10. IInv /\ RemoteWaits /\ ENABLED <<Remote!Return>>_(Remote!vars) => Done
  BY PhaseOf DEF RemoteWaits
<1>11. ~(Drain /\ Call0) /\ ~(Drain /\ Done) /\ ~(Call0 /\ Done)
  OBVIOUS
<1>12. Spec /\ LargeAlone /\ []CanAct /\ []RemoteWaits => WF_(Remote!vars)(Remote!CarryOut)
  BY <1>1, <1>2, <1>3, <1>4, <1>7, <1>9, <1>11, PTL DEF Spec
<1>13. Spec /\ LargeAlone /\ []CanAct /\ []RemoteWaits => WF_(Remote!vars)(Remote!Return)
  BY <1>1, <1>5, <1>6, <1>8, <1>10, PTL DEF Spec
<1> QED BY <1>1, <1>12, <1>13, PTL DEF ImplementsRemoteCalls, Remote!Spec
=============================================================================
