# A TLA+ verification project for QEMU MESA GL/3Dfx Glide pass-through

The repository adds two paravirtual devices to QEMU, one that carries a guest's
3Dfx Glide calls to the host's Glide library and one that does the same for
OpenGL, and the wrapper libraries that take the place of `glide*.dll` and
`opengl32.dll` in the guest.  Guest and host share memory and a page of MMIO
registers; the guest's calls are batched in a queue that lies in the shared
memory and are decoded by the device.  What can go wrong there is seldom one
statement: it is the wrapper and the device disagreeing about the state both of
them keep, some calls, some timers or some processes later.

This directory holds models of that protocol in TLA+, their TLC
configurations, and proofs about them for the TLA+ proof system.

    tlc -config MCGlideFifo.cfg MCGlideFifo       check a run
    tlapm GlideFifo_proofs.tla                    check the proofs

## 1. The system

| component | state it keeps | operations | interacts with |
|---|---|---|---|
| Glide wrappers (`wrappers/3dfx/src`, one per API version; `dxe`, `ovl`, `dso` for DOS and Linux) | the block `mfifo`/`mdata`, `grGlidePresent`, `grGlideWnd`, `vlut`, the texture table of gu* calls | about 140 API calls, generated, plus attach and detach | device, through shared memory and the words 0xFB0-0xFC0 |
| Glide device (`qemu-0/hw/3dfx/glidept_mm.c`) | `GlidePTState`: the call being made, cursors, LFB state, window callback | `glidept_read`/`write`, `processArgs`, `processFifo`, `processFRet`, LFB windows | wrapper; `glide2x_impl.c`; `glidewnd.c` |
| Glide library glue (`glide2x_impl.c`) | table of function pointers | load, call by number, unload | host's Glide |
| Glide window (`glidewnd.c`) | `hwnd`, options of `glide.cfg` | `init_window`, `stat_window`, `fini_window` | the display |
| Display (`0*-qemu*-mesa-glide.patch`: `ui/sdl2.c`, `ui/console.c`) | `scon_cb`, one timer, the SDL window | prepare, release, status, `sched_wndproc` | both devices |
| Mesa wrapper (`wrappers/mesa/src/wrapgl32.c`) | the current context, client arrays, mapped buffers | some 3000 GL calls, WGL calls | device, like Glide |
| Mesa device (`qemu-1/hw/mesa/mesapt_mm.c`, `mesagl_impl.c`, generated headers) | `MesaPTState`: contexts, client arrays, pixel buffers, buffer maps | `mesapt_read`/`write`, `processArgs`, `processFifo`, `processFRet` | wrapper; `mglcntx_*.c` |
| Mesa contexts (`mglcntx_{linux,mingw,sdlgl}.c`) | contexts by level, pbuffers, `wnd_ready`, activation | pixel format, create, share, make current, delete, swap | display; host GL |
| Tables (`mglmapbo.c`, `mglvarry.c`, `gllstbuf.c`) | lists of mapped buffers, vertex caches, state buffers | look up, insert, free | devices |
| Blit (`mesagl_blit.c`) | one program and its objects | scale the picture, keep the GL state | host GL |
| `fxlib`, `drv`, `instdrv` | hooks of the guest's timer and gamma calls; mapping driver | | guest OS |
| `buildenv`, `scripts`, `virgil3d` | build support | | |

The virtual CPU that writes a device register stands still until the handler is
done, and handlers and timer callbacks run one at a time under QEMU's global
lock.  So the interleavings that matter are not those of two threads inside the
queue.  They are:

- the guest's calls, batched, against the one call that drains the batch:
  the two sides compute the place of each argument and each datum separately;
- what a wrapper and the device each remember (vertex layout, window, context,
  buffers), changed on one side when a call is made and on the other when it is
  carried out, and with different lifetimes: a process on one side, the
  virtual machine on the other;
- two devices, two timers and polling guests around one window.

## 2. The modules

Each component has a module of its own; `MC...` modules instantiate it for TLC;
`..._proofs` modules hold the theorems.

    RemoteCalls            what the transport promises
      ^ implemented by
    GlideFifo              the queue: wrapper, shared memory, device
      ^ extended by
    GlideCalls             the sizes of each Glide call, as either side counts them
    GlideVertex            vertex layouts on both ends of the queue
    DisplayWindow          the SDL window and its timer
      ^ extended by
    GuestWindows           Glide and MESA GL as guests of that window
    DirectBuffers          what Glide promises of the linear frame buffer
      ^ implemented by
    GlideLfb               locks, copies and mapped pages of the frame buffer
    BufferObjects          OpenGL buffers mapped into the guest by copies
    MesaArrays             client vertex arrays on both ends of the queue
    MesaContext            contexts and pixel buffers, handles and slots

### GlideFifo, RemoteCalls

`Enqueue` is the body of a wrapper function that ends in `FIFO_GRFUNC`, with the
calls of `fifoAddData` before it; `CallNow` one that writes the word 0xFC0,
because it returns something or because there was no room.  The device's part of
that MMIO write is cut at the points where something could go wrong: each turn
of `processFifo`'s loop (`DrainOne`), the rest of it (`DrainEnds`), the call
itself with the accounting that follows (`CarryOut`).  `CallReturns` is the
wrapper copying results out.

A word of shared memory is not a number but remembers where it came from: the
call, the part (number, argument, datum, result) and the index.  That is all
the properties tell apart, and it makes a slip of one word visible.  The device
in the model decodes with its own sizes, `HostArgs` and `HostWords`; the wrapper
has `NArgs` and `GuestWords`.  That the two agree (`SidesAgree`) is a hypothesis
of this module's theorems, and what `GlideCalls` is about.  `made`, `placed` and
`seen` are history.

### GlideCalls

The sizes of the calls, which the queue takes as constants.  The wrappers compute
them function by function (`ArgWords`, and `WordsSent` from one operator per group of
functions: `VerticesSent`, `TextureSent`, ...), the device in the switch of
`processArgs` (`datacb`, `VerticesTaken`, ...) and from the names of the functions
(`GRFEnumArgsCnt`).  The wrapper rounds with the parity of its index (`NextIndex`), the
device each datum to 8 bytes (`ALIGNED`); some structures it does not round.  A call
is a record of its function and the numbers these sizes depend on.  Functions
without data are one, `"plain"`, with any number of arguments.  `WellFormed` excludes
the two cases in which the sides do not agree (see 4.); `GlideSizes` says that
the constants of the queue are those of well-formed calls.

### GlideVertex

Glide 3.x vertices have no fixed length.  Wrapper and device compile the same
`vertex3x.h` and keep a table each; `guestVlut` and `hostVlut` are those tables,
`glide` the layout in the host's library.  The queue is reduced to the calls
that matter for vertices.  The constant `ResetsOnExit` tells the DOS wrapper (which
resets the layout in `grGlideShutdown`) from the Windows DLL (which does not);
`restored` is history and says that Glide's layout comes from
`grGlideSetVertexLayout`.

### DisplayWindow, GuestWindows

`DisplayWindow` gives the operations of the patched `sdl2.c` as operators from
one value of `scon_cb` to the next, and the timer's callback as an action;
`GuestWindows` has one action per step of a guest.  A wrapper that waits reads a
register in a loop; only the read that ends the loop is an action
(`PollOpen`, `PollClose`, `PollReady`), as the others change nothing.  A Glide window
opened over a drawing Mesa shares Mesa's window (`glide_on_mesa`).  The Glide
guests are those of Glide 2.x and 3.x.

### BufferObjects

The variables are the three parties' views of a buffer: `store` and `bound` of the
host's GL, the device's records `bufo` with `szUsedBuf` and `BufIdx`, the guest's
`view`.  `want` is history: the contents the buffer has according to GL.  A mapping
is made by `glMapBufferRange`, whose two halves (`processArgs` copies into `fbtm`,
`processFRet` returns the place) are one MMIO write; `glMapBuffer` is the mapping of
the whole buffer.  `Store` is the application writing a unit of what it has mapped.
`Transfer` is any call whose data go through the end of `fbtm`.  Calls without a
result are steps at the time the device carries them out; the module says why the
delay makes no difference GL defines.

The code works only for applications that do no more than GL requires and a little
less than it allows.  What they have to keep to is the constant `Rules`: a buffer is
mapped, flushed and unmapped while it is the one bound last (`last-bound`); no
texture or buffer data are sent while one is mapped (`no-transfer`); none is deleted
while mapped (`unmap-first`); an unpack buffer is mapped with undefined contents
(`orphan`).  The passing runs and the theorems assume these four; dropping any of the
first, second and fourth lets TLC refute `GuestSeesContents` or `HostHasWrites`.

### GlideLfb, DirectBuffers

An application locks the front, back or depth buffer and gets a pointer.  What lies
behind it depends on `glide.cfg`, whose options are the variable `cfg`, read when a
window is opened:

| option | way to the pixels |
|---|---|
| `LfbHandler` | every access traps into the device, which has the host's pointer |
| `LfbMapBufo` (with KVM or WHPX) | the host's pages are mapped into the guest: `pages`, `mbufo` |
| neither | a copy in shared memory: `copy`, filled at a lock and taken back at the unlock |

With copies, front and back share one, and `lfb_dirty` says whether it must be filled
again (`"stale"`) or still waits to be taken back (`"merge"`); `LfbLockDirty`,
`LfbWriteMerge` and `LfbNoAux` change when.  `grLfbLock`, `grLfbUnlock` and
`grBufferSwap` are whole handlers, with the copy (`vgLfbFlush`) or the mapping
(`MapPages`) they make.  `looked` and `drawn` are history.  `DirectBuffers` has none of
this: a lock gives the buffer itself, locking and unlocking change no pixel.

Drawing is not immediate: `Draw` is a call that the wrapper queues (`FIFO_GRFUNC`), and
`queued` what the draws in the queue will leave at each place; `processFifo` carries them
out, and every handler finds the queue empty, as any call that is not queued has it drained first.
`grLfbWriteRegion` is such a call.  A store or a read through a lock is an access to memory:
it drains nothing.  A queue that is full makes a draw immediate; that is `Draw` followed by
`processFifo`.

The refinement mapping says where a buffer's pixels are at a time (`Home`): in the copy
while the application may write there or while they wait to be merged, else on the
host; and that what waits in the queue counts already (`Buf`).  So `DirectBuffers` sees
draws, stores and reads in the order in which the application makes them.

`MayLock`, `MayDraw`, `MayWriteRegion` and `MaySwap` are what applications have to keep to,
each by the way in force.  They exclude what the code is known to lose or misplace:

- no drawing on a buffer while it is locked, by whichever way: with traps and mapped pages
  a store would be overwritten by a draw called before it, and a read would not show the draw
  (without this rule TLC refutes `ReadsBuffer`); with copies the unlock overwrites what was drawn.
  `grLfbWriteRegion` may be used on a locked buffer with traps and mapped pages;

- one lock at a time with copies, but a buffer may be locked for reading and writing
  if the copy is still good when it is locked again;
- no drawing between two locks of a buffer without `LfbLockDirty`: the device does not
  see that its copy is out of date;
- while writes wait to be merged, only the back buffer is locked, and not drawn on,
  and not with `LfbLockDirty`: another lock drops the mark and the writes with it;
- with copies, no swap while a buffer is locked for reading, or the front one for writing:
  the copy is filled again, or goes to the other buffer;
- with mapped pages, not both locks on one buffer: the unlock of the first takes
  the pages from under the other;
- with traps and `LfbNoAux`, no lock of the depth buffer (its pointer is not in the
  second half of the window).

The host is assumed to grant each lock and to point into the buffer asked for.

### MesaArrays

With a draw the wrapper sends the part of each client array that is drawn; the device
copies it to a cache at the place that stands for the guest's pointer.  Which arrays
and how long goes nowhere with the call: both sides derive it from a client state of
their own, `guest` and `host`, the wrapper when the call is made, the device when it is
carried out.  The operators named after C functions (`vtxarry_init`, `vtxarry_state`,
`vtxarry_ptr_reset`, `Parcel` for `PushVertexArray` and its counterpart) are the code
that the two files share almost word by word.  A draw is cut as the wrapper's code
is: turn off texture arrays that cannot be read, by calls of its own (`PrepSelect`,
`PrepDisable`), look for room (`PrepRoom`), send (`Push`).  `told` and `cached` are history.

Left out of it: the order of the arrays in the data area is the same in both files, so
a parcel is a function of the array; index lists have elements of 2 bytes; a context
is current, and the client state is started only at the start (what happens when it is
not, is in `MesaContext`); `glDeleteBuffers` deletes one name; the enabling of
attributes by `glEnable(VERTEX_ATTRIB_ARRAYn_NV)`.  `glMultiDraw*` and instanced draws
send no arrays from where these are prepared.

### MesaContext

`dll` is the wrapper (a fresh one with each process), `dev` the device with the
contexts of the host, `app` what the application holds; the rest is who knows what.
The wrapper makes handles up by counting, the device takes the first free slot, and only
the number in the handle is transmitted.  A call is carried out if the gate is open
(`mglContext` and `mglCntxCurrent`); queued calls (`glQueued`) remember the context they
were made in.  `Attach` and `Detach` are `DllMain`, `Killed` the end of a process
without it, and also a reset of the guest, which changes nothing in the device.  The
host is the Linux one (`mglcntx_linux.c`).

Many orders of calls that WGL allows are not what the two sides count on.  None is
excluded: each happens in the model and is noted in the history variable `mishaps`,
whose meanings the module's head lists, and each property names those it does not
survive.  So a property says two things: it holds as long as none of these happened,
and it survives all others.

## 3. The runs

| run | instance | shows |
|---|---|---|
| `glide_fifo` | 6 Glide functions, 5 calls, a queue of 8 words, 10 data words | order, integrity, accounting, liveness: see below |
| `glide_readback` | the same | finding: stale read-back |
| `glide_vertex` | 3 parameters, 2 offsets, queue of 2 calls | both sides compute the same vertex size, and it covers what Glide reads |
| `glide_vertex_dll` | the Windows DLL | finding: the device's table outlives the process |
| `display` | two window sizes, Glide 2.x/3.x and Mesa | waits end, contexts stay, the console comes back |
| `bufobj` | 2 buffers of one unit, 2 targets | mappings stay apart, both sides see each other's data |
| `bufobj_range` | 1 buffer of 3 units, three kinds of access | parts, explicit flushes |
| `bufobj_contention` | 2 targets, any of them mapped | finding: one record for two mappings |
| `arrays` | one array and the interleaved one, a buffer, a vertex array object, 6 draws | the device takes what the wrapper sent, to where it belongs |
| `arrays_tex` | two texture units, attributes, an unreadable pointer | the unit calls refer to is the same on both sides |
| `context` | 5 host contexts, 3 slots, 2 pixel buffers, one mishap | handles find their contexts, calls stay in theirs, nothing is left |
| `glide_lfb` | one pixel, two values, 8 sets of options | implements `DirectBuffers` |

The bounds.  In `glide_fifo` the queue holds two or three calls, so that it
overflows before the fifth call, and two draws or a texture pass the data bound;
the calls are real ones with their own sizes (`MCGlideFifo` takes them from
`GlideCalls`: two plain calls, a vertex, a texture level of one texel pair, a texture
description, a row read back), the queue and the area are scaled down but keep their
relations (the slack between `MAX_DATA` and the end of the area just takes the
largest call, as the theorems require).  An assumption of the module compares the
two sides for every function with small counts; the theorem does for all.
Longer behaviours repeat: after every immediate call the queue is back in its
initial state, which is what the invariant says.  `MaxQueue = 2` in `GlideVertex`
allows a layout change between two draws and forces the third call to be
immediate; the tables are finite, so behaviours are not bounded.  `GuestWindows`
is finite without any bound.

In `BufferObjects` a unit is 8 bytes, so that a buffer of one or three units is padded
by `ALIGNBO`; `AreaSize = 6` lets two buffers be mapped with a hole of one left between
them and the end, the case that room given back out of order creates.  The kinds of
access are a constant: reading and writing with two buffers, where it is the places
that matter, all but that with one buffer of three units.

In `MesaArrays` an element of a word in a stride of three lets parcels have different
lengths; `MaxData = 16` (12 with textures) is passed by a draw behind another one, so
that room is looked for with the area empty and with it half full; one call queued
in front of a draw is what a disagreement takes, and the second one comes from the
wrapper's own calls.  The two instances divide what multiplies: buffers and vertex
array objects do not touch units.  In `MesaContext` three slots are a window's context, a
shared one and the last one; five contexts of the host are all that slots and
pixel buffers can hold, so that one is made whenever the code could make one.  Two
mishaps in a behavior (with one pixel buffer) were also checked.  In `GlideLfb` every operation
acts pixel by pixel and each pixel alike, so that one tells what all do, and draws wait for
one place at a time (`MaxQueued`), as the order among draws is the queue's matter; the theorems
are for any number of either.  The sets of options are each way to the pixels with and without the
guest's own depth buffer, and each of the other two options; the theorems take any.

Fairness.  `GlideFifo`: the device handler runs to its end and the virtual CPU
resumes (`WF` of the device's steps and of `CallReturns`); it holds the lock
and nothing in it waits for the guest.  `GuestWindows`: an armed QEMU timer
fires, and a guest that waits keeps reading the register.  Nothing is assumed
about guests making calls.

`CHECK_DEADLOCK FALSE` stands in the runs of `glide_fifo`, which end after their five
calls.  All others go on for ever and TLC checks that they can.

### What the properties say

- `SeenAsMade`, `ImplementsRemoteCalls`: what the device has carried out is, at any
  time, a prefix of what the guest called, each call with exactly its own
  arguments and data.  `NoDataLeak`: the device's own diagnostic can not fire.
- `ReadBackIsOwn` holds when no queued call carried data; without that condition
  it is refuted by `glide_readback`.
- `VertexSizesAgree`, `CoveredUnlessRestored`: the length of the vertices that wrapper,
  device and library assume.  `IInv` says how the layouts of pending calls are chained.
- `GlideHasContext`, `MesaHasContext`, `ContextKept`: a guest that was told its window
  is there has it until it gives it back.  `ConsoleRestored`: nobody leaves a
  dead screen behind.  `OpeningEnds`, `ClosingEnds`, `ChoosingEnds`: the waiting loops end.

- `ViewsDisjoint`: mapped buffers never share memory, in whatever order they are
  mapped and unmapped.  `GuestSeesContents`, `HostHasWrites`, `FlushReachesHost`: the
  copies bring each unit to where the other side looks for it, and nothing else.
  `NothingLeftOver`: no record and no room outlives the mappings.
- `ArraysAgree`: when the device takes a draw, its own client state says exactly what the
  wrapper sent.  `DrawsComplete`: what the application enabled last, wherever it pointed,
  is among it.  `PushesToCache`: an offset into a buffer is never taken for an address.
  `RoomForArrays`: after room was looked for, arrays do not run over the data area.
- `RightContext`: the context the application made current is the one current in the
  host.  `CallsInOwn`: queued calls will be carried out in the context they were made
  in.  `StatesTogether`: wrapper and device started the client state over for the same
  calls.  `PbuffersAgree`: the wrapper's list of pixel buffers is the host's.
  `NothingLeft`: after a process the device is as before.
- `ActsDirectly`: through a lock of the frame buffer, `GlideLfb` implements
  `DirectBuffers`: no store is lost, nothing drawn is overwritten, and draws, stores and
  reads count in the order in which the application makes them.  `ReadsBuffer`: a lock
  for reading shows the buffer's pixels, whatever is still queued.

## 4. The findings

1. `grLfbReadRegion` copies from the start of the data area what the device wrote
   behind the drained data (`glidedll.c:578`, `glidept_mm.c:924`).
2. The Windows DLL for Glide 3.x leaves the device's vertex table behind
   (`gl301dll.c:355`); the DOS wrapper resets it (`gl301dxe.c:325`).
3. The device finds the record of a mapping by the buffer bound last to any target
   (`mesapt_mm.c:1844`); two buffers mapped through two targets share one.

Met on the way, and without a document of the repository that says otherwise; the
models exclude or except each of them by name:

- `grGlideSetVertexLayout` restores the library's layout but neither table
  (`gl301dll.c:869`); the property is stated until one is restored.
- The Glide 2.1 wrapper never closes its window (`gl211dll.c:920`).
- The room of a buffer unmapped out of order is lost until nothing is mapped
  (`mesapt_mm.c:1942`); buffers mapped in turn use up the block.
- Contexts: deleting one when there are shared ones is not handled
  (`mesapt_mm.c:2425`); if it is left to the exit, `mglCntxCurrent` stays set and the gate opens
  early for the next process.  Handles wrap to 1 while the host shifts its slots.
  `wglCreateContextAttribsARB` replaces the context of the usual detour through a temporary
  one, whose deletion then deletes the new one.  `wglCreateContext` destroys the host's
  contexts that the application holds.  A pixel buffer that could not be made clears an entry
  of the wrapper's list (`currPB`), and those left at the exit stay if no context is current.
  After `wglMakeCurrent(0, 0)` the host's context stays current.
- A draw with an unreadable texture array leaves that array's unit selected
  (`wrapgl32.c:290`); an application that goes on without selecting one means another.
- `guTexDownloadMipMapLevel` of a texture the wrapper does not know sends no data, yet
  the device stores its pointer (`glidept_mm.c:441`), over the data of the next call of the
  queue.  The device does not round the data of `guFbWriteRegion` (`glidept_mm.c:487`,
  499), as the wrapper does: after a rectangle of an odd number of words it counts
  a word too many and warns of a leak, without harm, as the call is never queued.
- No wrapper looks whether the data of a call fit (`LargeAlone`): those of a large
  `grLfbWriteRegion` or of a partial level of a large texture need not.
- Frame buffer: an access through a lock does not drain the queue, so that it overtakes
  draws called before it; drawing between locks is not seen without `LfbLockDirty`; `LfbWriteMerge`
  loses what waits when another buffer is locked; a refused lock is taken as
  granted (`glidept_mm.c:734`); with mapped pages the first unlock of a buffer locked twice
  unmaps it.

## 5. The proofs

All hold for every value of the constants that satisfies the modules' `ASSUME`s.

**GlideFifo_proofs**, under `SidesAgree` (wrapper and device count the same words)
and `LargeAlone`: data that do not fit behind the last index at which a call is still
queued are sent into an empty area only.  Small calls meet it always (`SlackIsEnough`);
for textures the wrapper asks the device for the size just before, at once, which
empties the area (`glidedll.c:749`).  `SeenAsMade` is not inductive: nothing in it says where the
pending calls lie.  `IInv` adds `QueueLayout`: from the place where the device
will start to read up to the write index, the calls lie one after the other, no
one reaching into a later one (`Contiguous`), and hold their words (`Stocked`); the
call being made is in place (`CurrentInPlace`); and in each phase the data index
counts what it should.  The proof goes action by action.  `Enqueue` needs that
appending does not touch earlier entries, `DrainOne` that the device's stores stay
within the call's own data, `DrainEnds` that subtracting the cursor leaves
exactly the immediate call's words.  The theorems `TypeCorrect`, `CallsIntact`,
`DataStaysInArea`, `NoLeak`, `NoneLeftBehind` and `ReadBackCorrect` follow;
`StepsOfRemoteCalls` is the safety half of the refinement.

For the other half two theorems say why `processFifo` ends: its cursors stay in what is
queued and meet the write index exactly at the last call (`DrainStaysInQueue`), and each
step of the device leaves one step less, of at most the calls made and one
(`DeviceComesToItsEnd`).  `QueueImplements` is the refinement `ImplementsRemoteCalls` with
its liveness.  It takes two hypotheses about `ENABLED`, which is opaque to the prover:
`CanAct`, the device and the return can act where their guards hold, and `RemoteWaits`, the
abstract calls cannot where theirs do not.  Fairness then turns `Device` into
`CarryOut`: every step of it is one, but for leaving the loop, after which the call itself
is left.  TLC finds `CanAct` to hold when it is added to the invariants of run
`glide_fifo`; it cannot evaluate `ENABLED` under the mapping, so for `RemoteWaits` the guards of
`CarryOut` and `Return` in `RemoteCalls` are what there is to look at.

**GlideCalls_proofs** discharges `SidesAgree` from the code of both sides.  `SentIsAligned`:
from an even index, the words by which `fifoAddData` moves on are the bytes of `ALIGNED`;
`IndexMoves` keeps the index even, `RoundSizes` names what needs no rounding.  One
lemma per group of functions then shows that what is taken is what is sent, whatever
the counts and the size of a vertex; `EverySizeAgrees` collects them.  With it
`GlideCallsIntact`, `GlideCallsLeakNothing` and `GlideCallsReturn` hold for any set of
well-formed Glide calls, with no hypothesis left about their sizes but `LargeAlone`.

**GlideVertex_proofs**, under `ResetsOnExit`.  `IInv` says that each call in flight was
made with the layout that the call before it left (`Chained`), the first with the
device's table, the last leaving the wrapper's (`Follows`); a draw's size is
that of its layout.  `Follows` adds that Glide has the device's layout until one
is restored.  `TablesChained`, `LayoutTyped`, `DrawsAgree`, `DrawsCovered`.

**GuestWindows_proofs**, under `Settled`: windows are asked for when the
timer has nothing left to do.  `IInv` classifies the window as shown, coming,
going or gone, and says for each pair of guests' states which of these it is,
what request is noted and what the timer will do.  All the safety properties of
run `display` follow, and `ContextKept` as a property of steps.

For the three loops that poll, `NoneWaitsInVain` is the heart: all guests write their requests
into the same fields and share one timer, yet whoever waits has the answer already or the
timer is armed with the very request (`Awaited`).  An answer stays until it is read, and the
firing timer gives it, so by the fairness of the timer and of the polling each loop ends:
`OpeningDone`, `ClosingDone`, `ChoosingDone`.  They too take the facts about `ENABLED` as a
hypothesis (`CanAct`), which TLC finds to hold when it is added to the invariants of run
`display`.  `Settled` cannot go: without it TLC finds a window that a Glide application shares
after Mesa has released it, and that the timer then takes away.

**BufferObjects_proofs**, under `Kept` (the four rules).  `HostHasWrites` says nothing of
mapped buffers and so is not inductive.  `IInv` adds that each mapped buffer's record
is its own and says what the guest was told (`Recorded`), that its view lies inside
the buffer and inside the room taken (`ViewFits`), and `StoreAgrees`: outside of what the
application may write through a mapping, the host's buffer is already right.  The
lemma `Places` bounds where a unit of a mapping lies, `PlacesApart` says that two
mappings have no place in common; `MapIInv` needs that a new mapping lies below all
others, `UnmapIInv` that whoever takes the room back lies lowest, `StoreIInv` that a
store changes one place of one mapping.  All for any number and size of buffers.

The part of it about records and room, `RoomInv`, is inductive by itself and takes only two
of the rules (`UsedInTurn`): the buffer used is the one bound last, and it is unmapped before
it is deleted.  So `TypeCorrect`, `Disjoint` and `AllGivenBack` hold whatever is transferred
or left unwritten meanwhile, and `NoneContends` shows that the violation of run
`bufobj_contention` has no other cause than the first of the two rules being broken.

**MesaArrays_proofs**.  `IInv` is the idea of the protocol: each pending call was made in
the client state that the call before it leaves (`Chained`), the first in the device's,
the last one leads to the wrapper's (`GuestAhead`).  A draw changes nothing but what it
was sent from, so at its turn the device's state is the one it was sent in:
`DeviceKnowsArrays`.  `Heard` relates the wrapper to what the application said, the ground of
`NoArrayLost`; the wrapper's own calls select a unit, after which it is open which one the
application means until it says so again.  `NothingBesideCache` adds `CacheOnly`, which
vertex array objects break, hence its condition.

The room for a draw is counted before it is sent, by other sums than the sending takes.
`CountedIsTaken`: both come to the same words, whatever arrays go along, of whatever formats,
with whatever indices; `ElementsAreSent`: the bytes of each array reach over all elements
the draw reads.  The sums run over sets, and the proofs about them, and about the least and
largest index of a list, are by the least counterexample, which exists because the naturals
are well ordered: a fact about one set, which needs no induction rule.  They
need the arrays to be finite in number (`ArraysAreFinite`).  `Prepared` says what the wrapper has made sure of between looking
and sending: there is room, the area is empty, or a call that empties it is on its way.
From both, `RoomIsFound`.

**MesaContext_proofs**.  For any number of slots, pixel buffers and mishaps.  `TInv` are types with
what the handles allow, `PInv` the two lists of pixel buffers; `RInv` is `Good` as long as
nothing that breaks it has happened: every handle held stands for a context in its slot
(`HeldExist`), wrapper and device count alike (`CountedAlike`, `LevelHeld`), what the
application made current is current and the gate is open (`CurrentReady`), and what is
queued waits for that context (`QueueReady`, `QueueOurs`), and a replaced context does not
come back (`NoneComesBack`).  `ContextIsRight` and `CallsStayInOwn` follow; `Good` is in fact
kept by every action that notes no such mishap, whatever happened else.  For `NothingIsLeft`
the deletion must have an effect when it is made: `Tidy` says that the gate is open only for
who holds a context of the window (`GateHeld`), that this is the first one unless there are
shared ones (`RcHeld`), and that with none current the wrapper believes none current
(`NoneCurrent`); then the one deletion clears both flags, and the end of the process the
rest.  `StatesStayTogether` rests on `Alike`: whoever has a context has the same calls on
both sides (`ActiveSame`), and a device that has a context nobody uses, and so would not
start over, has done nothing in it (`Unused`).  Neither may lean on `Good`, since each spares
other mishaps.

**GlideLfb_proofs**.  `IInv`: the device knows what is locked and where it lies
(`LocksKnown`); two locks at a time are of a kind that gets on (`LocksAgree`); a locked
buffer's pages are there and writable (`PagesMapped`); what waits to be merged is alone
(`MergeWaits`); and a copy the device would not fill again is right, unless the
application has drawn since (`CopyFresh`), which is what `MayLock` asks; and draws wait for no
buffer that is locked or waits to be merged (`Pending`).  From it
`ReadsAreTrue`, and with one lemma per action (`UnlockIsUnlock`, `LockIsLock`,
`StoreIsStore`, `DrawIsDraw`, `DrainIsNothing`, `WriteRegionIsDraw`, `SwapIsSwap`) the whole refinement,
`LfbActsDirectly`:
`Spec => Direct!Spec`, for any pixels, values and options.

Not proved, but model-checked: the facts about `ENABLED` that the liveness theorems take as
hypotheses (`CanAct`; `RemoteWaits` see above), since the prover has no rules for
`ENABLED`.  Every property that a passing run checks is stated by a theorem.

## 6. What is not modelled, and why

The numeric content of calls (colours, textures, matrices), the host libraries
and the guest's operating system are outside.  The generated code is the larger part
of the repository: `wrapgl32.c` is some 3000 wrapper functions that store their
arguments and write one word, and `mglfptbl.h`, `mglfunci.h`, `mgldefs.h` and `tokglstr.c` are
tables of the same calls.  Their form is what `GlideFifo` models once; the calls that
keep state of their own are in the other modules, the others are data, which is why the
models stand for a small share of the lines.  What a single call sends against
what the device takes is modelled for Glide (`GlideCalls`), not for Mesa, where the two sides are known
to differ for a few: `glTexCoord1*v` (`wrapgl32.c:10540`), `glColorTableParameter*v` (1702),
`glVertexAttribs*NV` (13319), `glShaderSourceARB` (10219 against `mesapt_mm.c:1607`).

`drv`, `instdrv`, `fxlib` and the build support hold no protocol state.  The devices'
reset handlers are empty (`glidept_mm.c:1127`, `mesapt_mm.c:2441`), so a reset leaves what
was there: for contexts that is the action `Killed` of `MesaContext`; for the other
modules a crash in the middle of a call is not an action, and the hazards list says
where that matters.  Not modelled either: the Windows host of contexts
(`mglcntx_mingw.c`), the Glide 2.1 wrapper's window, 32-bit writing modes and the pitch of
the frame buffer, and the components listed in the plan.

## 7. The plan

1. RemoteCalls, GlideFifo - done.
2. GlideVertex - done.
3. DisplayWindow, GuestWindows - done.
4. BufferObjects - done for the copies.
5. MesaArrays - done, but for generic attributes that alias no array and the growth of
   the device's cache (`mglvarry.c`).
6. MesaContext - done for the Linux host.
7. DirectBuffers, GlideLfb - done.
8. GlideCalls - done.  MesaCalls, the same for OpenGL: for each call, the words the wrapper
   stores against the words `processArgs` takes.
9. GlideSession: attach, detach, the reference count in shared memory, load and
   unload, the gate that lets only some calls pass before `grGlideInit`.
10. GuestPages: `MapBufObjGpa` and the pages that KVM maps; StateBuffers (`gllstbuf.c`).
11. The file push through the last 256 KB of the block (`m3df`), the texture table
    of the gu* calls.

Theorems planned: what `SlackIsEnough` says of small calls, for the larger ones of Glide as the
wrapper makes them; and that the lists' lookups return what was inserted.
