---------------------------- MODULE GuestWindows ----------------------------
(***************************************************************************)
(* Two guests of the window of module DisplayWindow: a Glide application,  *)
(* through its wrapper (2.x, 3.x) and the device (glidewnd.c, glidept_mm.c)*)
(* and a MESA GL application, through wrapgl32 and the Mesa device         *)
(* (mglcntx_*.c, mesapt_mm.c).  Neither device tells its guest when the    *)
(* window is there or gone.  The wrapper reads a register until it is      *)
(* (grSstWinOpen, grSstWinClose, wglChoosePixelFormat), and each read of   *)
(* the Glide device's register also runs the call of the Glide library     *)
(* that opens or closes its side.  A read that finds the window not ready  *)
(* changes nothing and is left out.                                        *)
(*                                                                         *)
(* Glide may open while Mesa draws, and then shares Mesa's window; it is    *)
(* not opened while Mesa has the window and does not draw, and Mesa ends   *)
(* no context while Glide plays.                                           *)
(*                                                                         *)
(* Mesa adds a timer of its own, which halts the console's refresh some    *)
(* time after it started to draw or stops the drawing some time after the  *)
(* last picture.                                                           *)
(***************************************************************************)
EXTENDS DisplayWindow

CONSTANT
  Settled     \* windows are asked for only when the timer has nothing to do

ASSUME SettledIsBoolean == Settled \in BOOLEAN

VARIABLES
  glide,      \* where the Glide application is
  activate,   \* disp_cb.activate: the window is wanted
  hwnd,       \* glidewnd.c: a window was asked for and not given back
  opened,     \* times the host's Glide library opened its window, less closed
  mesa,       \* where the MESA GL application is
  wnd_ready,  \* mglcntx: Mesa was called back with the window
  last,       \* MGLActivateHandler: Mesa draws
  ts          \* mglcntx: what Mesa's timer will do

glideVars == <<glide, activate, hwnd, opened>>
mesaVars == <<mesa, wnd_ready, last, ts>>
vars == <<scon_cb, console, glideVars, mesaVars>>

Init ==
  /\ scon_cb = NoRequest
  /\ console = PlainConsole
  /\ glide = "detached" /\ activate = FALSE /\ hwnd = FALSE /\ opened = 0
  /\ mesa = "none" /\ wnd_ready = FALSE /\ last = FALSE /\ ts = "none"

---------------------------------------------------------------------------
\* The Glide application.

\* DllMain: the wrapper is loaded (0xfbc).
Attach ==
  /\ glide = "detached"
  /\ glide' = "idle"
  /\ UNCHANGED <<scon_cb, console, activate, hwnd, opened, mesaVars>>

MayAsk == Settled => scon_cb.ts # "armed"

\* grSstWinOpen: the device notes the request and the wrapper
\* starts to read the register.  A wrapper of Glide 2.x or 3.x closes first.
grSstWinOpen(size) ==
  /\ glide = "idle"
  /\ mesa = "none" \/ (mesa = "current" /\ scon_cb.render_pause)
  /\ MayAsk
  /\ scon_cb' = glide_prepare_window(scon_cb, size)
  /\ activate' = TRUE /\ hwnd' = TRUE
  /\ glide' = "opening"
  /\ UNCHANGED <<console, opened, mesaVars>>

\* The read that finds the context: the Glide library opens its window.
PollOpen ==
  /\ glide = "opening" /\ activate /\ console.winctx
  /\ opened' = IF scon_cb.cwnd_fn = "cwnd_glide2x" THEN opened + 1 ELSE opened
  /\ glide' = "playing"
  /\ UNCHANGED <<scon_cb, console, activate, hwnd, mesaVars>>

\* grSstControl, grSstPassthruMode, grEnable and grDisable of GR_PASSTHRU.
grSstControl(show) ==
  /\ glide = "playing"
  /\ scon_cb' = sdl_renderer_stat(scon_cb, show)
  /\ UNCHANGED <<console, glideVars, mesaVars>>

\* fini_window.
GiveBack ==
  /\ activate' = FALSE /\ hwnd' = FALSE
  /\ scon_cb' = IF hwnd THEN glide_release_window(scon_cb) ELSE scon_cb

\* grSstWinClose, also called first by grGlideShutdown.
grSstWinClose ==
  /\ glide = "playing"
  /\ GiveBack
  /\ glide' = "closing"
  /\ UNCHANGED <<console, opened, mesaVars>>

\* Mutation of PollClose: the reads do not reach the Glide library.
PollCloseUnheard ==
  /\ glide = "closing" /\ ~activate
  /\ scon_cb' = [scon_cb EXCEPT !.glide_on_mesa = FALSE]
  /\ glide' = IF scon_cb.glide_on_mesa = console.winctx THEN "idle" ELSE "closing"
  /\ UNCHANGED <<console, activate, hwnd, opened, mesaVars>>

\* Each read after grSstWinClose closes the Glide library's window, whatever
\* is left of it; the last one finds the context gone, or shared.
PollClose ==
  /\ glide = "closing" /\ ~activate
  /\ opened' = IF scon_cb.cwnd_fn = "cwnd_glide2x" THEN 0 ELSE opened
  /\ scon_cb' = [scon_cb EXCEPT !.glide_on_mesa = FALSE]
  /\ glide' = IF scon_cb.glide_on_mesa = console.winctx THEN "idle" ELSE "closing"
  /\ UNCHANGED <<console, activate, hwnd, mesaVars>>

\* DllMain: the wrapper is unloaded, after grGlideShutdown (0xfbc).
Detach ==
  /\ glide = "idle"
  /\ GiveBack
  /\ glide' = "detached"
  /\ UNCHANGED <<console, opened, mesaVars>>

---------------------------------------------------------------------------
\* The MESA GL application.

\* Mutation of wglChoosePixelFormat: wnd_ready is left from the last window.
ChooseWithoutWait ==
  /\ mesa = "none" /\ glide \in {"detached", "idle"} /\ ~hwnd
  /\ MayAsk
  /\ scon_cb' = mesa_prepare_window(scon_cb)
  /\ mesa' = "choosing"
  /\ UNCHANGED <<console, glideVars, wnd_ready, last, ts>>

\* MGLPresetPixelFormat, for wglChoosePixelFormat.
wglChoosePixelFormat ==
  /\ mesa = "none" /\ glide \in {"detached", "idle"} /\ ~hwnd
  /\ MayAsk
  /\ wnd_ready' = FALSE
  /\ scon_cb' = mesa_prepare_window(scon_cb)
  /\ mesa' = "choosing"
  /\ UNCHANGED <<console, glideVars, last, ts>>

\* The read that finds the window.
PollReady ==
  /\ mesa = "choosing" /\ wnd_ready
  /\ mesa' = "ready"
  /\ UNCHANGED <<scon_cb, console, glideVars, wnd_ready, last, ts>>

\* Mutation of MGLActivateHandler: deactivating leaves the timer armed.
DeactivateKeepsTimer(on, deferred) ==
  /\ last' = on
  /\ CASE on = last -> UNCHANGED <<scon_cb, ts>>
       [] on # last /\ on -> /\ ts' = "halt"
                             /\ scon_cb' = mesa_renderer_stat(scon_cb, TRUE)
       [] on # last /\ ~on /\ deferred -> ts' = "deactivate" /\ UNCHANGED scon_cb
       [] OTHER -> scon_cb' = mesa_renderer_stat(scon_cb, FALSE) /\ UNCHANGED ts

\* MGLActivateHandler, with deactivateGuiRefSched and deactivateSched.
MGLActivateHandler(on, deferred) ==
  /\ last' = on
  /\ CASE on = last -> UNCHANGED <<scon_cb, ts>>
       [] on # last /\ on -> /\ ts' = "halt"
                             /\ scon_cb' = mesa_renderer_stat(scon_cb, TRUE)
       [] on # last /\ ~on /\ deferred -> ts' = "deactivate" /\ UNCHANGED scon_cb
       [] OTHER -> ts' = "none" /\ scon_cb' = mesa_renderer_stat(scon_cb, FALSE)

\* wglMakeCurrent, creating the context when there is none.
wglMakeCurrent ==
  /\ mesa = "ready"
  /\ mesa' = "current"
  /\ MGLActivateHandler(TRUE, FALSE)
  /\ UNCHANGED <<console, glideVars, wnd_ready>>

\* wglSwapBuffers, glFlush and glFinish activate; so does the guest's window
\* when it gets the focus, and losing it deactivates.
Activate(on) ==
  /\ mesa = "current"
  /\ MGLActivateHandler(on, FALSE)
  /\ UNCHANGED <<console, glideVars, mesa, wnd_ready>>

\* No picture was shown for a while (dispTimerProc).
dispTimerProc ==
  /\ mesa = "current"
  /\ MGLActivateHandler(FALSE, TRUE)
  /\ UNCHANGED <<console, glideVars, mesa, wnd_ready>>

\* wglDeleteContext.
wglDeleteContext ==
  /\ glide \in {"detached", "idle"}
  /\ mesa = "current"
  /\ mesa' = "ready"
  /\ MGLActivateHandler(FALSE, FALSE)
  /\ UNCHANGED <<console, glideVars, wnd_ready>>

\* DllMain: wrapgl32 is unloaded (0xfbc); MGLWndRelease.
MGLWndRelease ==
  /\ glide \in {"detached", "idle"}
  /\ mesa = "ready"
  /\ mesa' = "none"
  /\ scon_cb' = mesa_release_window(scon_cb)
  /\ UNCHANGED <<console, glideVars, wnd_ready, last, ts>>

---------------------------------------------------------------------------
\* The timers, in QEMU's main loop.

\* sched_wndproc; it calls Mesa back when it made Mesa's window.
WindowTimer ==
  /\ sched_wndproc
  /\ wnd_ready' = (wnd_ready \/ (Opens /\ ~scon_cb.opaque))
  /\ UNCHANGED <<glideVars, mesa, last, ts>>

\* Mesa's timer runs on the virtual clock, after the real-time clock's timers
\* that are due: deactivateGuiRefOneshot and deactivateOneshot.
MesaTimer ==
  /\ ts # "none" /\ scon_cb.ts # "armed"
  /\ ts' = "none"
  /\ \/ /\ ts = "halt"
        /\ console' = [console EXCEPT !.halt = TRUE]
        /\ UNCHANGED scon_cb
     \/ /\ ts = "deactivate"
        /\ scon_cb' = mesa_renderer_stat(scon_cb, FALSE)
        /\ UNCHANGED console
  /\ UNCHANGED <<glideVars, mesa, wnd_ready, last>>

Next ==
  \/ Attach \/ Detach
  \/ \E size \in WindowSizes : grSstWinOpen(size)
  \/ PollOpen \/ PollClose
  \/ \E show \in BOOLEAN : grSstControl(show)
  \/ grSstWinClose
  \/ wglChoosePixelFormat \/ PollReady \/ wglMakeCurrent
  \/ \E on \in BOOLEAN : Activate(on)
  \/ dispTimerProc \/ wglDeleteContext \/ MGLWndRelease
  \/ WindowTimer \/ MesaTimer

\* Armed timers fire; a guest that waits keeps reading the register.
Fairness ==
  /\ WF_vars(WindowTimer) /\ WF_vars(MesaTimer)
  /\ WF_vars(PollOpen) /\ WF_vars(PollClose) /\ WF_vars(PollReady)

Spec == Init /\ [][Next]_vars /\ Fairness

---------------------------------------------------------------------------
\* Properties.

\* The requests and windows there can be.
Requests ==
  [res : {Redraw, KeepSize, ConsoleSize} \cup WindowSizes,
   gui_saved_res : {KeepSize, ConsoleSize},
   render_pause : BOOLEAN, glide_on_mesa : BOOLEAN, opaque : BOOLEAN,
   cwnd_fn : {"none", "cwnd_glide2x", "cwnd_mesagl"},
   ts : {"none", "idle", "armed"}]

Screens ==
  [winctx : BOOLEAN, renderer : BOOLEAN,
   size : {ConsoleSize} \cup WindowSizes, halt : BOOLEAN]

\* The state of the window and of its guests; the saved size is the console's.
TypeOK ==
  /\ scon_cb \in Requests
  /\ console \in Screens
  /\ glide \in {"detached", "idle", "opening", "playing", "closing"}
  /\ activate \in BOOLEAN /\ hwnd \in BOOLEAN
  /\ opened \in {0, 1}
  /\ mesa \in {"none", "choosing", "ready", "current"}
  /\ wnd_ready \in BOOLEAN /\ last \in BOOLEAN
  /\ ts \in {"none", "halt", "deactivate"}

\* When grSstWinOpen has returned, the window's context exists and the host's
\* Glide library has opened in it, once, although the wrapper read the
\* register any number of times and Mesa may own the window.
GlideHasContext == glide = "playing" => console.winctx /\ opened = 1

\* While a GL context is current its window exists, whatever Glide does.
MesaHasContext == mesa = "current" => console.winctx /\ wnd_ready

\* Nobody has a window and the timer has done its work.
Unused == glide \in {"idle", "detached"} /\ mesa = "none" /\ scon_cb.ts # "armed"

\* Then the guest's console is as it was: its size, its renderer, its refresh
\* not halted.  Every request left in scon_cb, every timer left armed and the
\* order in which they were made could leave the user with a dead screen.
ConsoleRestored == Unused => console = PlainConsole

\* The loop of grSstWinOpen ends: the window it waits for is made.
OpeningEnds == glide = "opening" ~> glide = "playing"

\* The loop of grSstWinClose ends: the window goes, or was Mesa's.
ClosingEnds == glide = "closing" ~> glide = "idle"

\* The loop of wglChoosePixelFormat ends: Mesa is called back.
ChoosingEnds == mesa = "choosing" ~> mesa = "ready"

\* The context is deleted only when no guest has a window, or wants one.
ContextKept ==
  [][console.winctx /\ ~console'.winctx =>
       mesa = "none" /\ glide \in {"closing", "idle", "detached"}]_vars

---------------------------------------------------------------------------
\* The inductive invariant.

\* What the timer will do when it fires.
WillOpen == scon_cb.ts = "armed" /\ Opens
WillClose == scon_cb.ts = "armed" /\ Closes
WillRepaint == scon_cb.ts = "armed" /\ Repaints

\* A window shown and not about to be taken away; no window, the next one asked
\* for; no window, nor will there be one.
Shown == console.winctx /\ scon_cb.ts # "none" /\ ~WillOpen /\ ~WillClose
Coming == ~console.winctx /\ ~scon_cb.render_pause /\ WillOpen
Going ==
  console.winctx /\ WillClose /\ scon_cb.res \in {KeepSize, ConsoleSize}
Gone == console = PlainConsole /\ ~scon_cb.render_pause /\ scon_cb.ts = "none"

Wanted == glide \in {"opening", "playing"}
OnMesa == mesa = "current" /\ glide \in {"opening", "playing", "closing"}

GlideInv ==
  /\ activate <=> Wanted
  /\ hwnd <=> Wanted
  /\ glide \in {"detached", "idle", "opening"} => opened = 0
  /\ glide = "playing" => opened = 1
  /\ glide \in {"opening", "playing", "closing"} => scon_cb.cwnd_fn = "cwnd_glide2x"
  /\ glide \in {"opening", "playing", "closing"} => mesa \in {"none", "current"}
  /\ scon_cb.glide_on_mesa <=> OnMesa
  /\ mesa = "none" => (Wanted <=> scon_cb.gui_saved_res # KeepSize)
  /\ OnMesa => scon_cb.gui_saved_res = KeepSize

MesaInv ==
  /\ last => mesa = "current"
  /\ ts = "halt" => last
  /\ mesa \in {"ready", "current"} => wnd_ready

WindowInv ==
  /\ mesa \in {"ready", "current"} => Shown
  /\ mesa = "choosing" => \/ Coming /\ ~scon_cb.opaque /\ ~wnd_ready
                          \/ Shown /\ wnd_ready
  /\ mesa = "none" /\ glide = "playing" => Shown
  /\ mesa = "none" /\ glide = "opening" => Coming \/ Shown
  /\ mesa = "none" /\ ~Wanted => Going \/ Gone

\* The state between any two steps, whoever made the last one: who has or
\* wants the window, what the timer will do, what the timer left.
IInv == TypeOK /\ GlideInv /\ MesaInv /\ WindowInv

---------------------------------------------------------------------------
\* What the liveness proofs use.

\* What the three loops wait for.
OpenAnswered == console.winctx
CloseAnswered == scon_cb.glide_on_mesa = console.winctx
ChooseAnswered == wnd_ready

\* A guest that waits has its answer, or the timer is armed with its request.
Awaited ==
  /\ glide = "opening" => activate /\ (OpenAnswered \/ WillOpen)
  /\ glide = "closing" => ~activate /\ (CloseAnswered \/ WillClose)
  /\ mesa = "choosing" => ChooseAnswered \/ (WillOpen /\ ~scon_cb.opaque)

\* The fair actions can be taken when their guards hold; a timer that fires and
\* a read that finds the answer change the state.
CanAct ==
  /\ scon_cb.ts = "armed" => ENABLED <<WindowTimer>>_vars
  /\ glide = "opening" /\ activate /\ OpenAnswered => ENABLED <<PollOpen>>_vars
  /\ glide = "closing" /\ ~activate /\ CloseAnswered => ENABLED <<PollClose>>_vars
  /\ mesa = "choosing" /\ ChooseAnswered => ENABLED <<PollReady>>_vars
=============================================================================
