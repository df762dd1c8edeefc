----------------------------- MODULE GlideFifo -----------------------------
(***************************************************************************)
(* The command queue between a Glide wrapper DLL in the guest and the      *)
(* glidept device in QEMU.  Both sides see one block of shared memory:     *)
(* the words mfifo[0 .. MAX_FIFO-1] hold the write index, the arguments of *)
(* the call being made and the queued calls; the words of mdata, after     *)
(* them, hold a write index and the bulk data of the calls (vertices,      *)
(* textures).                                                              *)
(*                                                                         *)
(* Most calls are only appended (FIFO_GRFUNC).  A call that cannot be      *)
(* queued is made by writing its number to the MMIO word 0xFC0: the device *)
(* first carries out all that is queued (processFifo), then the call.  The *)
(* virtual CPU stands still until the device is done.                      *)
(*                                                                         *)
(* The device finds the arguments and the data of a queued call only by    *)
(* adding up the sizes of the calls before it; nothing in the queue marks  *)
(* where a call starts.                                                    *)
(***************************************************************************)
EXTENDS Integers, Sequences

CONSTANTS
  Call,        \* API functions (the FEnum values)
  Queueable,   \* those the wrapper makes with FIFO_GRFUNC
  NArgs,       \* [Call -> Nat]: argument words the wrapper stores
  HostArgs,    \* [Call -> Nat]: GRFEnumArgsCnt of the device
  GuestWords,  \* [Call -> Nat]: data words the wrapper's fifoAddData calls take
  HostWords,   \* [Call -> Nat]: data words by which processArgs advances
  Stores,      \* [Call -> SUBSET Nat]: data words processArgs writes, counted from s->hshm
  ReadWords,   \* [Call -> Nat]: words the host returns in the data area
  FIRST_FIFO,  \* index of the first queued word
  MAX_FIFO,    \* words of the queue
  MAX_DATA,    \* data index from which calls are no longer queued
  AreaWords,   \* end of the data area: the result page starts there
  MaxCalls     \* bound on the calls of a behaviour

\* ALIGNED(1) >> 2: the first data word after the index and its padding.
DATA0 == 2

ASSUME SizesAreNat ==
  /\ Queueable \subseteq Call
  /\ NArgs \in [Call -> Nat]
  /\ HostArgs \in [Call -> Nat]
  /\ GuestWords \in [Call -> Nat]
  /\ HostWords \in [Call -> Nat]
  /\ Stores \in [Call -> SUBSET Nat]
  /\ ReadWords \in [Call -> Nat]
  /\ FIRST_FIFO \in Nat /\ MAX_FIFO \in Nat /\ FIRST_FIFO < MAX_FIFO
  /\ MAX_DATA \in Nat /\ AreaWords \in Nat /\ DATA0 < MAX_DATA /\ MAX_DATA <= AreaWords
  /\ MaxCalls \in Nat

\* The arguments of the call being made fit between the index words and the queue.
ASSUME ArgsFit == \A c \in Call : NArgs[c] + 2 <= FIRST_FIFO

\* A call that returns words in the data area sends none, and is never queued.
ASSUME ReadersSendNothing ==
  \A c \in Call : ReadWords[c] > 0 => /\ c \notin Queueable
                                      /\ GuestWords[c] = 0
                                      /\ DATA0 + ReadWords[c] <= AreaWords

(* What the sizes of the two sides have to satisfy for the queue to work.  *)
(* The theorems take it as a hypothesis.                                   *)
SidesAgree ==
  /\ \A c \in Call : HostArgs[c] = NArgs[c]
  /\ \A c \in Call : HostWords[c] = GuestWords[c]
  /\ \A c \in Call : Stores[c] \subseteq 0..(HostWords[c] - 1)

\* The data of any one call fits behind the last index that lets a call be queued.
SlackFits == \A c \in Call : (MAX_DATA - 1) + GuestWords[c] <= AreaWords

VARIABLES
  mfifo,     \* the queue words; mfifo[2..] are the arguments of the call being made
  fifoIdx,   \* mfifo[0]
  mdata,     \* the data words
  dataIdx,   \* mdata[0]
  pc,        \* who runs: "guest", or the device: "drain", "call", "done"
  i, j,      \* processFifo's queue and data cursors; j stays as s->hshm
  made,      \* history: the calls the guest made
  placed,    \* history: fifoIdx and dataIdx when each of them was made
  seen,      \* history: the calls the device carried out, as it decoded them
  readBack   \* what the guest copied out of the data area after the last call

vars == <<mfifo, fifoIdx, mdata, dataIdx, pc, i, j, made, placed, seen, readBack>>

Word(n, part, k) == [call |-> n, part |-> part, word |-> k]
Blank == Word(0, "fenum", 0)

-----------------------------------------------------------------------------
(* The wrapper *)

Init ==
  /\ mfifo = [k \in 2..(MAX_FIFO - 1) |-> Blank]
  /\ fifoIdx = FIRST_FIFO
  /\ mdata = [k \in DATA0..(AreaWords - 1) |-> Blank]
  /\ dataIdx = DATA0
  /\ pc = "guest"
  /\ i = FIRST_FIFO
  /\ j = DATA0
  /\ made = <<>>
  /\ placed = <<>>
  /\ seen = <<>>
  /\ readBack = <<>>

\* pt[1] = arg0; pt[2] = arg1; ...
StoreArgs(mem, n, c) ==
  [k \in DOMAIN mem |-> IF k < 2 + NArgs[c] THEN Word(n, "arg", k - 1) ELSE mem[k]]

\* fifoAddEntry: the function number, then the arguments from pt.
AddEntry(mem, n, c) ==
  [k \in DOMAIN mem |->
     IF k = fifoIdx THEN Word(n, "fenum", 0)
     ELSE IF k \in (fifoIdx + 1)..(fifoIdx + NArgs[c])
       THEN mem[2 + (k - fifoIdx - 1)]
     ELSE mem[k]]

\* fifoAddData, for all the data of the call.
AddData(n, c) ==
  /\ mdata' = [k \in DOMAIN mdata |->
                 IF k \in dataIdx..(dataIdx + GuestWords[c] - 1)
                 THEN Word(n, "data", k - dataIdx + 1) ELSE mdata[k]]
  /\ dataIdx' = dataIdx + GuestWords[c]

\* Mutation of Room: the size of the entry is off by one word.
RoomForOneMore(c, dataEnd) == fifoIdx + (NArgs[c] + 1) <= MAX_FIFO /\ dataEnd < MAX_DATA

\* Mutation of Room: only the queue is tested.
RoomInQueue(c, dataEnd) == fifoIdx + (NArgs[c] + 1) < MAX_FIFO

\* The condition of FIFO_GRFUNC, evaluated after the data has been stored.
Room(c, dataEnd) == fifoIdx + (NArgs[c] + 1) < MAX_FIFO /\ dataEnd < MAX_DATA

\* History of the calls made.
Made(c) ==
  /\ made' = Append(made, c)
  /\ placed' = Append(placed, [entry |-> fifoIdx, data |-> dataIdx])

\* A call that is queued.
Enqueue(c) ==
  LET n == Len(made) + 1 IN
  /\ pc = "guest"
  /\ Len(made) < MaxCalls
  /\ c \in Queueable
  /\ AddData(n, c)
  /\ Room(c, dataIdx')
  /\ mfifo' = AddEntry(StoreArgs(mfifo, n, c), n, c)
  /\ fifoIdx' = fifoIdx + 1 + NArgs[c]
  /\ Made(c)
  /\ UNCHANGED <<pc, i, j, seen, readBack>>

\* Mutation of CallNow: the device does not look at the queue first.
CallNowUndrained(c) ==
  LET n == Len(made) + 1 IN
  /\ pc = "guest"
  /\ Len(made) < MaxCalls
  /\ AddData(n, c)
  /\ c \in Queueable => ~Room(c, dataIdx')
  /\ mfifo' = StoreArgs(mfifo, n, c)
  /\ Made(c)
  /\ pc' = "call"
  /\ UNCHANGED <<fifoIdx, i, j, seen, readBack>>

\* A call made at once, *pt0 = FEnum: because it returns something, or because
\* there is no room.  The device starts with the queue.
CallNow(c) ==
  LET n == Len(made) + 1 IN
  /\ pc = "guest"
  /\ Len(made) < MaxCalls
  /\ AddData(n, c)
  /\ c \in Queueable => ~Room(c, dataIdx')
  /\ mfifo' = StoreArgs(mfifo, n, c)
  /\ Made(c)
  /\ pc' = "drain"
  /\ i' = FIRST_FIFO
  /\ j' = DATA0
  /\ UNCHANGED <<fifoIdx, seen, readBack>>

\* Mutation of CallReturns: the copy starts one word late.
CallReturnsLate ==
  LET c == made[Len(made)] IN
  /\ pc = "done"
  /\ pc' = "guest"
  /\ readBack' = [k \in 1..ReadWords[c] |-> mdata[DATA0 + k]]
  /\ UNCHANGED <<mfifo, fifoIdx, mdata, dataIdx, i, j, made, placed, seen>>

\* The MMIO write returns.  A call with results in the data area copies them
\* from the start of the area (grLfbReadRegion).
CallReturns ==
  LET c == made[Len(made)] IN
  /\ pc = "done"
  /\ pc' = "guest"
  /\ readBack' = [k \in 1..ReadWords[c] |-> mdata[DATA0 + k - 1]]
  /\ UNCHANGED <<mfifo, fifoIdx, mdata, dataIdx, i, j, made, placed, seen>>

-----------------------------------------------------------------------------
(* The device *)

\* What the device takes for a call of c: the arguments from a, the data from d.
Decoded(fenum, c, a, d) ==
  [fenum |-> fenum,
   args  |-> [k \in 1..HostArgs[c] |-> mfifo[a + k - 1]],
   data  |-> [k \in 1..HostWords[c] |-> mdata[d + k - 1]]]

\* The words processArgs itself stores with the data of a call of c at d.
Stored(c, n, d) ==
  [k \in DOMAIN mdata |-> IF k - d \in Stores[c] THEN Word(n, "stored", k - d) ELSE mdata[k]]

\* Mutation of DrainOne: the data of the call is not skipped.
DrainOneSameData ==
  LET fenum == mfifo[i]
      c     == made[fenum.call]
  IN
  /\ pc = "drain"
  /\ i < fifoIdx
  /\ seen' = Append(seen, Decoded(fenum, c, i + 1, j))
  /\ mdata' = Stored(c, fenum.call, j)
  /\ i' = i + 1 + HostArgs[c]
  /\ UNCHANGED <<mfifo, fifoIdx, dataIdx, pc, j, made, placed, readBack>>

\* The loop body of processFifo.
DrainOne ==
  LET fenum == mfifo[i]
      c     == made[fenum.call]
  IN
  /\ pc = "drain"
  /\ i < fifoIdx
  /\ seen' = Append(seen, Decoded(fenum, c, i + 1, j))
  /\ mdata' = Stored(c, fenum.call, j)
  /\ i' = i + 1 + HostArgs[c]
  /\ j' = j + HostWords[c]
  /\ UNCHANGED <<mfifo, fifoIdx, dataIdx, pc, made, placed, readBack>>

\* Mutation of DrainEnds: it may leave the loop early.
DrainEndsEarly ==
  /\ pc = "drain"
  /\ fifoIdx' = FIRST_FIFO
  /\ dataIdx' = IF j > DATA0 THEN dataIdx - j ELSE dataIdx
  /\ pc' = "call"
  /\ UNCHANGED <<mfifo, mdata, i, j, made, placed, seen, readBack>>

\* Mutation of DrainEnds: the drained data is not taken off the data index.
DrainEndsKeepIndex ==
  /\ pc = "drain"
  /\ i >= fifoIdx
  /\ fifoIdx' = FIRST_FIFO
  /\ pc' = "call"
  /\ UNCHANGED <<mfifo, mdata, dataIdx, i, j, made, placed, seen, readBack>>

\* The rest of processFifo: the queue is empty, and what is left in the data
\* area belongs to the call being made.
DrainEnds ==
  /\ pc = "drain"
  /\ i >= fifoIdx
  /\ fifoIdx' = FIRST_FIFO
  /\ dataIdx' = IF j > DATA0 THEN dataIdx - j ELSE dataIdx
  /\ pc' = "call"
  /\ UNCHANGED <<mfifo, mdata, i, j, made, placed, seen, readBack>>

\* The call itself, with its data at s->hshm; results replace the data there.
\* Then the data area is empty.
CarryOut ==
  LET n == Len(made)
      c == made[n]
  IN
  /\ pc = "call"
  /\ seen' = Append(seen, Decoded(Word(n, "fenum", 0), c, 2, j))
  /\ mdata' = [k \in DOMAIN mdata |->
                 IF k \in j..(j + ReadWords[c] - 1)
                 THEN Word(n, "result", k - j + 1) ELSE Stored(c, n, j)[k]]
  /\ dataIdx' = DATA0
  /\ pc' = "done"
  /\ UNCHANGED <<mfifo, fifoIdx, i, j, made, placed, readBack>>

-----------------------------------------------------------------------------

Guest == (\E c \in Call : Enqueue(c) \/ CallNow(c)) \/ CallReturns
Device == DrainOne \/ DrainEnds \/ CarryOut

Next == Guest \/ Device

\* The virtual CPU resumes after the exit, and the device handler runs to its
\* end: it holds the iothread lock and nothing in it waits for the guest.
Spec == Init /\ [][Next]_vars /\ WF_vars(Device) /\ WF_vars(CallReturns)

-----------------------------------------------------------------------------
(* Properties *)

Words == [call : 0..MaxCalls, part : {"fenum", "arg", "data", "stored", "result"}, word : Nat]

(* Every variable keeps its range.  In particular the write index of the   *)
(* queue stays inside it, and subtracting the drained data from the data   *)
(* index in DrainEnds never wraps below zero.                              *)
TypeOK ==
  /\ mfifo \in [2..(MAX_FIFO - 1) -> Words]
  /\ mdata \in [DATA0..(AreaWords - 1) -> Words]
  /\ fifoIdx \in FIRST_FIFO..(MAX_FIFO - 1)
  /\ dataIdx \in Nat
  /\ pc \in {"guest", "drain", "call", "done"}
  /\ i \in Nat
  /\ j \in Nat
  /\ made \in Seq(Call)
  /\ placed \in Seq([entry : Nat, data : Nat])
  /\ Len(made) <= MaxCalls
  /\ Len(placed) = Len(made)
  /\ seen \in Seq([fenum : Words, args : Seq(Words), data : Seq(Words)])
  /\ readBack \in Seq(Words)

Remote == INSTANCE RemoteCalls WITH
  NData <- GuestWords, carriedOut <- seen, blocked <- pc # "guest"

(* Whatever mix of queued and immediate calls the guest makes, what the    *)
(* device has carried out so far is a prefix of what the guest made, in    *)
(* order, every call with its own function number, its own arguments and   *)
(* its own data: the running sums of processFifo never slip by a word.     *)
SeenAsMade ==
  /\ Len(seen) <= Len(made)
  /\ \A n \in 1..Len(seen) : seen[n] = Remote!AsMade(n, made[n])

(* No call is left behind: when the guest is back from an immediate call,  *)
(* all calls made have been carried out or were queued after it, and the   *)
(* queue holds exactly the words of those.  In particular an empty queue   *)
(* means that nothing is pending.                                          *)
NothingStranded ==
  pc = "guest" /\ fifoIdx = FIRST_FIFO => Len(seen) = Len(made)

(* The data of a call stay in front of the result page, although           *)
(* FIFO_GRFUNC looks at the data index only after fifoAddData has copied   *)
(* them.                                                                   *)
DataInArea == dataIdx <= AreaWords

(* What the wrapper does not look at itself, and the theorems take as a     *)
(* hypothesis: data that do not fit behind the last index at which a call   *)
(* is queued are only sent into an empty area.  Textures are: the wrapper   *)
(* asks the device for their size first, at once (glidedll.c:749).          *)
LargeInEmptyArea ==
  \A c \in Call : made' = Append(made, c) =>
    \/ (MAX_DATA - 1) + GuestWords[c] <= AreaWords
    \/ dataIdx = DATA0 /\ DATA0 + GuestWords[c] <= AreaWords

LargeAlone == [][LargeInEmptyArea]_vars

(* The device never warns "FIFO data leak": once the queue is drained, the *)
(* words left in the data area are exactly those of the call being made.   *)
NoDataLeak ==
  pc = "call" => LET left == dataIdx - HostWords[made[Len(made)]]
                 IN  left = IF j > DATA0 THEN 0 ELSE DATA0

OwnResults ==
  \A k \in DOMAIN readBack' : readBack'[k] = Word(Len(made), "result", k)

(* An immediate call that reads back (grLfbReadRegion) gets the words the  *)
(* device returned for this very call, provided no queued call carried     *)
(* data: the device returns them behind the drained data, the wrapper      *)
(* reads them at the start of the area.                                    *)
ReadBackIsOwn ==
  [][pc = "done" /\ pc' = "guest" /\ j = DATA0 => OwnResults]_vars

-----------------------------------------------------------------------------
(* The inductive invariant behind SeenAsMade: where the calls that are     *)
(* still to be carried out lie in the queue and in the data area.          *)

\* Where the n-th call starts; past the last one, where the next would.
EntryAt == [n \in 1..(Len(made) + 1) |-> IF n <= Len(made) THEN placed[n].entry ELSE fifoIdx]
DataAt  == [n \in 1..(Len(made) + 1) |-> IF n <= Len(made) THEN placed[n].data ELSE dataIdx]

\* The calls that lie in the queue: the one being made now does not.
First == Len(seen) + 1
Last  == IF pc = "guest" THEN Len(made) ELSE Len(made) - 1

\* The calls lie one after the other, none reaching into a later one, from
\* where the device will start reading to the write index of the queue.
Contiguous ==
  /\ First <= Last + 1
  /\ EntryAt[First] = IF pc = "guest" THEN FIRST_FIFO ELSE i
  /\ DataAt[First] = IF pc = "guest" THEN DATA0 ELSE j
  /\ EntryAt[Last + 1] = fifoIdx
  /\ \A n \in First..Last :
       /\ EntryAt[n + 1] = EntryAt[n] + 1 + NArgs[made[n]]
       /\ DataAt[n + 1] = DataAt[n] + GuestWords[made[n]]
  /\ \A n \in First..(Last + 1) : FIRST_FIFO <= EntryAt[n] /\ DATA0 <= DataAt[n]
  /\ \A n, m \in First..(Last + 1) :
       n < m => /\ EntryAt[n] + 1 + NArgs[made[n]] <= EntryAt[m]
                /\ DataAt[n] + GuestWords[made[n]] <= DataAt[m]

\* The queue and the data area hold the words of those calls.
Stocked ==
  \A n \in First..Last :
    /\ mfifo[EntryAt[n]] = Word(n, "fenum", 0)
    /\ \A k \in 1..NArgs[made[n]] : mfifo[EntryAt[n] + k] = Word(n, "arg", k)
    /\ \A k \in 1..GuestWords[made[n]] : mdata[DataAt[n] + k - 1] = Word(n, "data", k)

\* The arguments and the data of the call being made are in place.
CurrentInPlace ==
  LET N == Len(made) IN
  /\ N > 0
  /\ DATA0 <= placed[N].data /\ placed[N].data + GuestWords[made[N]] <= AreaWords
  /\ \A k \in 1..NArgs[made[N]] : mfifo[1 + k] = Word(N, "arg", k)
  /\ \A k \in 1..GuestWords[made[N]] : mdata[placed[N].data + k - 1] = Word(N, "data", k)

QueueLayout ==
  /\ pc = "guest" => Contiguous /\ Stocked /\ dataIdx < MAX_DATA
  /\ pc = "drain" => /\ Contiguous /\ Stocked /\ CurrentInPlace
                     /\ dataIdx = placed[Len(made)].data + GuestWords[made[Len(made)]]
  /\ pc = "call" => /\ CurrentInPlace
                    /\ Len(seen) = Len(made) - 1
                    /\ fifoIdx = FIRST_FIFO
                    /\ j = placed[Len(made)].data
                    /\ dataIdx = (IF j > DATA0 THEN 0 ELSE DATA0) + GuestWords[made[Len(made)]]
  /\ pc = "done" => /\ made # <<>>
                    /\ Len(seen) = Len(made)
                    /\ fifoIdx = FIRST_FIFO
                    /\ dataIdx = DATA0
                    /\ j = DATA0 => \A k \in 1..ReadWords[made[Len(made)]] :
                                     mdata[DATA0 + k - 1] = Word(Len(made), "result", k)

(* What the guest and the device each believe about the shared memory      *)
(* agrees: the calls that are still queued lie, intact and without gaps,   *)
(* where the device will look for them.                                    *)
IInv == TypeOK /\ SeenAsMade /\ QueueLayout

(* The queue implements the abstract calls, with the liveness: a call that *)
(* is not deferred returns.                                                *)
ImplementsRemoteCalls == Remote!Spec

-----------------------------------------------------------------------------
(* What the proofs of termination and liveness use.  ENABLED is opaque to  *)
(* the proof system; CanAct and RemoteWaits say of it what follows from    *)
(* the guards.                                                             *)

\* The cursors of processFifo while it runs, and where it leaves the loop.
CursorsInQueue ==
  pc = "drain" => /\ i <= fifoIdx /\ j <= placed[Len(made)].data
                  /\ i = fifoIdx <=> Len(seen) = Len(made) - 1
                  /\ i = fifoIdx => j = placed[Len(made)].data

\* The device steps before the guest runs on: one for every call that is left
\* in the queue, one for leaving the loop, one for the call being made.
StepsLeft ==
  IF pc = "drain" THEN (Len(made) - 1 - Len(seen)) + 2 ELSE IF pc = "call" THEN 1 ELSE 0

\* A step while the guest is held leaves one step less.
Nearer ==
  pc \in {"drain", "call"} =>
    /\ StepsLeft \in 1..(Len(made) + 1)
    /\ StepsLeft' = StepsLeft - 1
    /\ StepsLeft' = 0 => pc' = "done"

\* The fair actions can be taken when their guards hold.
CanAct ==
  /\ pc \in {"drain", "call"} => ENABLED <<Device>>_vars
  /\ pc = "done" => ENABLED <<CallReturns>>_vars

\* The fair actions of the abstract calls have guards.
RemoteWaits ==
  /\ ENABLED <<Remote!CarryOut>>_(Remote!vars) => pc # "guest" /\ Len(seen) < Len(made)
  /\ ENABLED <<Remote!Return>>_(Remote!vars) => pc # "guest" /\ Len(seen) = Len(made)
=============================================================================
