--------------------------- MODULE DisplayWindow ---------------------------
(***************************************************************************)
(* The SDL window of the virtual machine, which the pass-through devices   *)
(* borrow from the guest's console (the sdl2.c part of the QEMU patch).    *)
(* A device asks for the window while it carries a guest's call out; the   *)
(* request is only noted in scon_cb and a timer is armed.  The work itself *)
(* is done by the timer's callback, sched_wndproc, in QEMU's main loop.    *)
(*                                                                         *)
(* The operations below give the next value of scon_cb; module             *)
(* GuestWindows composes them into the steps of the devices.  A call of    *)
(* the C code runs with QEMU's global lock held and is one step.           *)
(***************************************************************************)
EXTENDS Integers

CONSTANTS
  WindowSizes,   \* sizes of the windows Glide asks for, as s->res packs them
  ConsoleSize    \* size of the guest's console

ASSUME SizesArePositive == WindowSizes \cup {ConsoleSize} \subseteq Nat \ {0}

Redraw == -1     \* s->res: redraw the console's texture, keep the window
KeepSize == 0    \* s->res: leave the size to the window

VARIABLES
  scon_cb,  \* the requests noted, with the timer that will carry them out
  console   \* the SDL window: its GL context, its 2D renderer, its size, and
            \* whether the console's refresh is halted

\* scon_cb, zeroed; ts is the timer: not allocated, allocated, armed.
NoRequest ==
  [res |-> KeepSize, gui_saved_res |-> KeepSize, render_pause |-> FALSE,
   glide_on_mesa |-> FALSE, opaque |-> FALSE, cwnd_fn |-> "none", ts |-> "none"]

PlainConsole ==
  [winctx |-> FALSE, renderer |-> TRUE, size |-> ConsoleSize, halt |-> FALSE]

\* Mutation of sdl_renderer_stat: no mark that only a redraw is asked for.
StatUnmarked(s, activate) ==
  IF activate = s.render_pause THEN s
  ELSE [s EXCEPT !.res = KeepSize, !.render_pause = activate, !.ts = "armed"]

\* A device shows its picture (activate) or gives the screen back.
sdl_renderer_stat(s, activate) ==
  IF activate = s.render_pause THEN s
  ELSE [s EXCEPT !.res = Redraw, !.render_pause = activate, !.ts = "armed"]

\* Mesa gives way to Glide when Glide plays in Mesa's window.
mesa_renderer_stat(s, activate) ==
  IF s.glide_on_mesa /\ ~activate
  THEN sdl_renderer_stat(sdl_renderer_stat(s, activate), TRUE)
  ELSE sdl_renderer_stat(s, activate)

\* Mutation of glide_prepare_window: shares the window of a former guest.
PrepareAfterFormer(s, size) ==
  LET asked == [s EXCEPT !.opaque = TRUE, !.cwnd_fn = "cwnd_glide2x"]
  IN  IF s.opaque
      THEN [asked EXCEPT !.glide_on_mesa = TRUE, !.gui_saved_res = KeepSize]
      ELSE [asked EXCEPT !.gui_saved_res = console.size, !.res = size, !.ts = "armed"]

\* Glide asks for a window of the size, or shares the one already shown.
glide_prepare_window(s, size) ==
  LET asked == [s EXCEPT !.opaque = TRUE, !.cwnd_fn = "cwnd_glide2x"]
  IN  IF s.render_pause
      THEN [asked EXCEPT !.glide_on_mesa = TRUE, !.gui_saved_res = KeepSize]
      ELSE [asked EXCEPT !.gui_saved_res = console.size, !.res = size, !.ts = "armed"]

\* Mutation of glide_release_window: the timer is not armed.
ReleaseUnarmed(s) ==
  LET asked == [s EXCEPT !.opaque = TRUE, !.cwnd_fn = "cwnd_glide2x"]
  IN  IF s.gui_saved_res = KeepSize THEN asked
      ELSE [asked EXCEPT !.res = s.gui_saved_res, !.gui_saved_res = KeepSize]

\* Mutation of glide_release_window: gives a shared window back too.
ReleaseShared(s) ==
  [s EXCEPT !.opaque = TRUE, !.cwnd_fn = "cwnd_glide2x",
            !.res = s.gui_saved_res, !.gui_saved_res = KeepSize,
            !.ts = IF @ = "none" THEN @ ELSE "armed"]

\* Glide gives the window back, unless it had shared it.
glide_release_window(s) ==
  LET asked == [s EXCEPT !.opaque = TRUE, !.cwnd_fn = "cwnd_glide2x"]
  IN  IF s.gui_saved_res = KeepSize THEN asked
      ELSE [asked EXCEPT !.res = s.gui_saved_res, !.gui_saved_res = KeepSize,
                         !.ts = IF @ = "none" THEN @ ELSE "armed"]

\* Mutation of mesa_prepare_window: Glide's argument of the callback is kept.
MesaPrepareOpaque(s) ==
  [s EXCEPT !.cwnd_fn = "cwnd_mesagl",
            !.gui_saved_res = console.size, !.res = KeepSize, !.ts = "armed"]

\* Mesa asks for the window; its callers leave the size alone (scale_x is 0).
mesa_prepare_window(s) ==
  [s EXCEPT !.opaque = FALSE, !.cwnd_fn = "cwnd_mesagl",
            !.gui_saved_res = console.size, !.res = KeepSize, !.ts = "armed"]

\* Mesa gives the window back.
mesa_release_window(s) ==
  [s EXCEPT !.res = KeepSize, !.opaque = FALSE, !.cwnd_fn = "none",
            !.gui_saved_res = KeepSize, !.ts = IF @ = "none" THEN @ ELSE "armed"]

\* The timer's work is one of three.
Repaints == scon_cb.res = Redraw
Opens == scon_cb.res # Redraw /\ scon_cb.gui_saved_res # KeepSize
Closes == scon_cb.res # Redraw /\ scon_cb.gui_saved_res = KeepSize

\* A window is made anew, at the console's size, when the render driver
\* changes: for the first context and when the last one goes.
NewSize ==
  IF scon_cb.res \notin {Redraw, KeepSize} THEN scon_cb.res
  ELSE IF Closes \/ (Opens /\ ~console.winctx) THEN ConsoleSize ELSE console.size

\* The refresh is halted for Glide only, and resumes for all.
Halted(s) == IF s.opaque \/ ~s.render_pause THEN s.render_pause ELSE console.halt

\* sched_wndproc, all but the call to Mesa that ends it: the timer fires.
sched_wndproc ==
  /\ scon_cb.ts = "armed"
  /\ \/ /\ Repaints
        /\ scon_cb' = [scon_cb EXCEPT !.ts = "idle"]
        /\ console' = [console EXCEPT !.renderer = @ \/ ~scon_cb.render_pause,
                                      !.halt = Halted(scon_cb)]
     \/ /\ Opens
        /\ scon_cb' = [scon_cb EXCEPT !.ts = "idle", !.render_pause = TRUE]
        /\ console' = [winctx |-> TRUE, renderer |-> FALSE, size |-> NewSize,
                       halt |-> Halted(scon_cb')]
     \/ /\ Closes
        /\ scon_cb' = [scon_cb EXCEPT !.ts = "none", !.render_pause = FALSE]
        /\ console' = [winctx |-> FALSE, renderer |-> TRUE, size |-> NewSize,
                       halt |-> Halted(scon_cb')]
=============================================================================
