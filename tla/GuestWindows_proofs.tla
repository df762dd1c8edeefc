------------------------ MODULE GuestWindows_proofs ------------------------
(***************************************************************************)
(* Proofs about GuestWindows, for every set of window sizes, when the      *)
(* wrappers are those of Glide 2.x and 3.x and the guests ask for windows  *)
(* only when the timer has nothing left to do.                             *)
(***************************************************************************)
EXTENDS GuestWindows, TLAPS

---------------------------------------------------------------------------
\* What the operations on scon_cb change and keep.

LEMMA StatFields ==
  ASSUME NEW s \in Requests, NEW on \in BOOLEAN, NEW t, t = sdl_renderer_stat(s, on)
  PROVE  /\ t \in Requests
         /\ t.gui_saved_res = s.gui_saved_res /\ t.glide_on_mesa = s.glide_on_mesa
         /\ t.opaque = s.opaque /\ t.cwnd_fn = s.cwnd_fn
         /\ t = s \/ (t.res = Redraw /\ t.ts = "armed")
  BY DEF sdl_renderer_stat, Requests

LEMMA MesaStatFields ==
  ASSUME NEW s \in Requests, NEW on \in BOOLEAN, NEW t, t = mesa_renderer_stat(s, on)
  PROVE  /\ t \in Requests
         /\ t.gui_saved_res = s.gui_saved_res /\ t.glide_on_mesa = s.glide_on_mesa
         /\ t.opaque = s.opaque /\ t.cwnd_fn = s.cwnd_fn
         /\ t = s \/ (t.res = Redraw /\ t.ts = "armed")
<1>1. CASE s.glide_on_mesa /\ ~on
  <2> DEFINE u == sdl_renderer_stat(s, on)
  <2>1. /\ u \in Requests
        /\ u.gui_saved_res = s.gui_saved_res /\ u.glide_on_mesa = s.glide_on_mesa
        /\ u.opaque = s.opaque /\ u.cwnd_fn = s.cwnd_fn
        /\ u = s \/ (u.res = Redraw /\ u.ts = "armed")
    BY StatFields
  <2>2. t = sdl_renderer_stat(u, TRUE)
    BY <1>1 DEF mesa_renderer_stat
  <2> HIDE DEF u
  <2>3. /\ t \in Requests
        /\ t.gui_saved_res = u.gui_saved_res /\ t.glide_on_mesa = u.glide_on_mesa
        /\ t.opaque = u.opaque /\ t.cwnd_fn = u.cwnd_fn
        /\ t = u \/ (t.res = Redraw /\ t.ts = "armed")
    BY <2>1, <2>2, StatFields
  <2> QED
    BY <1>1, <2>1, <2>3
<1>2. CASE ~(s.glide_on_mesa /\ ~on)
  <2>1. t = sdl_renderer_stat(s, on)
    BY <1>2 DEF mesa_renderer_stat
  <2> QED
    BY <2>1, StatFields
<1> QED
  BY <1>1, <1>2

LEMMA PrepareFields ==
  ASSUME NEW s \in Requests, NEW size \in WindowSizes,
         console \in Screens, ~s.render_pause => console.size = ConsoleSize,
         NEW t, t = glide_prepare_window(s, size)
  PROVE  /\ t \in Requests
         /\ t.render_pause = s.render_pause /\ t.cwnd_fn = "cwnd_glide2x"
         /\ s.render_pause =>
              /\ t.glide_on_mesa /\ t.gui_saved_res = KeepSize
              /\ t.res = s.res /\ t.ts = s.ts
         /\ ~s.render_pause =>
              /\ t.glide_on_mesa = s.glide_on_mesa /\ t.gui_saved_res = ConsoleSize
              /\ t.res = size /\ t.ts = "armed"
  BY DEF glide_prepare_window, Requests, Screens, KeepSize

LEMMA GlideReleaseFields ==
  ASSUME NEW s \in Requests, NEW t, t = glide_release_window(s)
  PROVE  /\ t \in Requests
         /\ t.render_pause = s.render_pause /\ t.cwnd_fn = "cwnd_glide2x"
         /\ t.glide_on_mesa = s.glide_on_mesa
         /\ t.gui_saved_res = KeepSize
         /\ s.gui_saved_res = KeepSize => t.res = s.res /\ t.ts = s.ts
         /\ s.gui_saved_res # KeepSize /\ s.ts # "none" =>
              t.res = s.gui_saved_res /\ t.ts = "armed"
  BY DEF glide_release_window, Requests, KeepSize

LEMMA MesaPrepareFields ==
  ASSUME NEW s \in Requests, console \in Screens, console.size = ConsoleSize,
         NEW t, t = mesa_prepare_window(s)
  PROVE  /\ t \in Requests
         /\ t.render_pause = s.render_pause /\ ~t.opaque
         /\ t.glide_on_mesa = s.glide_on_mesa
         /\ t.gui_saved_res = ConsoleSize /\ t.res = KeepSize /\ t.ts = "armed"
  BY DEF mesa_prepare_window, Requests, Screens, KeepSize

LEMMA MesaReleaseFields ==
  ASSUME NEW s \in Requests, NEW t, t = mesa_release_window(s)
  PROVE  /\ t \in Requests
         /\ t.render_pause = s.render_pause
         /\ t.glide_on_mesa = s.glide_on_mesa
         /\ t.gui_saved_res = KeepSize /\ t.res = KeepSize
         /\ s.ts # "none" => t.ts = "armed"
  BY DEF mesa_release_window, Requests, KeepSize

LEMMA InitInv == Init => IInv
<1> SUFFICES ASSUME Init PROVE IInv
  OBVIOUS
<1> USE SizesArePositive DEF Init, NoRequest, PlainConsole, Redraw, KeepSize
<1>1. TypeOK
  BY DEF TypeOK, Requests, Screens
<1>2. GlideInv
  BY DEF GlideInv, Wanted, OnMesa
<1>3. MesaInv
  BY DEF MesaInv
<1>4. WindowInv
  BY DEF WindowInv, Gone, Wanted
<1> QED
  BY <1>1, <1>2, <1>3, <1>4 DEF IInv

LEMMA Step ==
  ASSUME Settled, IInv, [Next]_vars
  PROVE  IInv'
<1> USE SizesArePositive DEF Redraw, KeepSize
<1>1. CASE Attach
  <2>1. TypeOK'
    BY <1>1 DEF Attach, mesaVars, IInv, TypeOK
  <2>2. GlideInv'
    BY <1>1 DEF Attach, mesaVars, IInv, TypeOK, GlideInv, Wanted, OnMesa
  <2>3. MesaInv'
    BY <1>1 DEF Attach, mesaVars, IInv, TypeOK, MesaInv
  <2>4. WindowInv'
    BY <1>1 DEF Attach, mesaVars, IInv, TypeOK, GlideInv, MesaInv, WindowInv, Shown, Coming, Going, Gone, WillOpen, WillClose, Opens, Closes, Wanted, OnMesa, PlainConsole
  <2> QED
    BY <2>1, <2>2, <2>3, <2>4 DEF IInv
<1>2. CASE Detach
  <2>1. /\ scon_cb' \in Requests
        /\ scon_cb'.render_pause = scon_cb.render_pause
        /\ hwnd => scon_cb'.cwnd_fn = "cwnd_glide2x"
        /\ scon_cb'.glide_on_mesa = scon_cb.glide_on_mesa
        /\ hwnd => scon_cb'.gui_saved_res = KeepSize
        /\ hwnd /\ scon_cb.gui_saved_res = KeepSize =>
             scon_cb'.res = scon_cb.res /\ scon_cb'.ts = scon_cb.ts
        /\ hwnd /\ scon_cb.gui_saved_res # KeepSize /\ scon_cb.ts # "none" =>
             scon_cb'.res = scon_cb.gui_saved_res /\ scon_cb'.ts = "armed"
        /\ ~hwnd => scon_cb' = scon_cb
    BY <1>2, GlideReleaseFields DEF Detach, GiveBack, IInv, TypeOK
  <2>2. TypeOK'
    BY <1>2, <2>1 DEF Detach, GiveBack, mesaVars, IInv, TypeOK
  <2>3. GlideInv'
    BY <1>2, <2>1 DEF Detach, GiveBack, mesaVars, IInv, TypeOK, GlideInv, Wanted, OnMesa
  <2>4. MesaInv'
    BY <1>2, <2>1 DEF Detach, GiveBack, mesaVars, IInv, TypeOK, MesaInv
  <2>5. WindowInv'
    BY <1>2, <2>1 DEF Detach, GiveBack, mesaVars, IInv, TypeOK, GlideInv, MesaInv, WindowInv, Shown, Coming, Going, Gone, WillOpen, WillClose, Opens, Closes, Wanted, OnMesa, PlainConsole
  <2> QED
    BY <2>2, <2>3, <2>4, <2>5 DEF IInv
<1>3. ASSUME NEW size \in WindowSizes, grSstWinOpen(size) PROVE IInv'
  <2>1. mesa = "none" => Gone
    BY <1>3 DEF grSstWinOpen, MayAsk, IInv, TypeOK, WindowInv, Going, Wanted, WillClose
  <2>2. ~scon_cb.render_pause => console.size = ConsoleSize
    BY <1>3, <2>1 DEF grSstWinOpen, Gone, PlainConsole
  <2>3. /\ scon_cb' \in Requests
        /\ scon_cb'.render_pause = scon_cb.render_pause
        /\ scon_cb'.cwnd_fn = "cwnd_glide2x"
        /\ scon_cb.render_pause =>
             /\ scon_cb'.glide_on_mesa /\ scon_cb'.gui_saved_res = KeepSize
             /\ scon_cb'.res = scon_cb.res /\ scon_cb'.ts = scon_cb.ts
        /\ ~scon_cb.render_pause =>
             /\ scon_cb'.glide_on_mesa = scon_cb.glide_on_mesa
             /\ scon_cb'.gui_saved_res = ConsoleSize
             /\ scon_cb'.res = size /\ scon_cb'.ts = "armed"
    BY <1>3, <2>2, PrepareFields DEF grSstWinOpen, IInv, TypeOK
  <2>4. TypeOK'
    BY <1>3, <2>1, <2>2, <2>3 DEF grSstWinOpen, MayAsk, mesaVars, IInv, TypeOK
  <2>5. GlideInv'
    BY <1>3, <2>1, <2>2, <2>3 DEF grSstWinOpen, MayAsk, mesaVars, IInv, TypeOK, GlideInv, Wanted, OnMesa, MesaInv, WindowInv, Coming, Going, Shown, Gone
  <2>6. MesaInv'
    BY <1>3, <2>1, <2>2, <2>3 DEF grSstWinOpen, MayAsk, mesaVars, IInv, TypeOK, MesaInv
  <2>7. WindowInv'
    BY <1>3, <2>1, <2>2, <2>3 DEF grSstWinOpen, MayAsk, mesaVars, IInv, TypeOK, GlideInv, MesaInv, WindowInv, Shown, Coming, Going, Gone, WillOpen, WillClose, Opens, Closes, Wanted, OnMesa, PlainConsole
  <2> QED
    BY <2>4, <2>5, <2>6, <2>7 DEF IInv
<1>4. CASE PollOpen
  <2>1. TypeOK'
    BY <1>4 DEF PollOpen, mesaVars, IInv, TypeOK, GlideInv, Wanted
  <2>2. GlideInv'
    BY <1>4 DEF PollOpen, mesaVars, IInv, TypeOK, GlideInv, Wanted, OnMesa
  <2>3. MesaInv'
    BY <1>4 DEF PollOpen, mesaVars, IInv, TypeOK, MesaInv
  <2>4. WindowInv'
    BY <1>4 DEF PollOpen, mesaVars, IInv, TypeOK, GlideInv, WindowInv, Wanted, OnMesa, Shown, WillOpen, WillClose, Opens, Closes, Coming, Going
  <2> QED
    BY <2>1, <2>2, <2>3, <2>4 DEF IInv
<1>5. CASE PollClose
  <2>1. /\ scon_cb' \in Requests /\ ~scon_cb'.glide_on_mesa
        /\ scon_cb'.render_pause = scon_cb.render_pause /\ scon_cb'.res = scon_cb.res
        /\ scon_cb'.gui_saved_res = scon_cb.gui_saved_res /\ scon_cb'.ts = scon_cb.ts
        /\ scon_cb'.cwnd_fn = scon_cb.cwnd_fn
    BY <1>5 DEF PollClose, Requests, IInv, TypeOK
  <2>2. TypeOK'
    BY <1>5, <2>1 DEF PollClose, mesaVars, IInv, TypeOK
  <2>3. GlideInv'
    BY <1>5, <2>1 DEF PollClose, mesaVars, IInv, TypeOK, GlideInv, Wanted, OnMesa, MesaInv, WindowInv, Coming, Going, Shown, Gone
  <2>4. MesaInv'
    BY <1>5, <2>1 DEF PollClose, mesaVars, IInv, TypeOK, MesaInv
  <2>5. WindowInv'
    BY <1>5, <2>1 DEF PollClose, mesaVars, IInv, TypeOK, GlideInv, MesaInv, WindowInv, Shown, Coming, Going, Gone, WillOpen, WillClose, Opens, Closes, Wanted, OnMesa, PlainConsole
  <2> QED
    BY <2>2, <2>3, <2>4, <2>5 DEF IInv
<1>6. ASSUME NEW show \in BOOLEAN, grSstControl(show) PROVE IInv'
  <2>1. /\ scon_cb' \in Requests
        /\ scon_cb'.gui_saved_res = scon_cb.gui_saved_res
        /\ scon_cb'.glide_on_mesa = scon_cb.glide_on_mesa
        /\ scon_cb'.opaque = scon_cb.opaque /\ scon_cb'.cwnd_fn = scon_cb.cwnd_fn
        /\ scon_cb' = scon_cb \/ (scon_cb'.res = Redraw /\ scon_cb'.ts = "armed")
    BY <1>6, StatFields DEF grSstControl, IInv, TypeOK
  <2>2. TypeOK'
    BY <1>6, <2>1 DEF grSstControl, glideVars, mesaVars, IInv, TypeOK
  <2>3. GlideInv'
    BY <1>6, <2>1 DEF grSstControl, glideVars, mesaVars, IInv, TypeOK, GlideInv, Wanted, OnMesa
  <2>4. MesaInv'
    BY <1>6, <2>1 DEF grSstControl, glideVars, mesaVars, IInv, TypeOK, MesaInv
  <2>5. WindowInv'
    BY <1>6, <2>1 DEF grSstControl, glideVars, mesaVars, IInv, TypeOK, GlideInv, WindowInv, Wanted, OnMesa, Shown, WillOpen, WillClose, Opens, Closes
  <2> QED
    BY <2>2, <2>3, <2>4, <2>5 DEF IInv
<1>7. CASE grSstWinClose
  <2>1. /\ scon_cb' \in Requests
        /\ scon_cb'.render_pause = scon_cb.render_pause
        /\ hwnd => scon_cb'.cwnd_fn = "cwnd_glide2x"
        /\ scon_cb'.glide_on_mesa = scon_cb.glide_on_mesa
        /\ hwnd => scon_cb'.gui_saved_res = KeepSize
        /\ hwnd /\ scon_cb.gui_saved_res = KeepSize =>
             scon_cb'.res = scon_cb.res /\ scon_cb'.ts = scon_cb.ts
        /\ hwnd /\ scon_cb.gui_saved_res # KeepSize /\ scon_cb.ts # "none" =>
             scon_cb'.res = scon_cb.gui_saved_res /\ scon_cb'.ts = "armed"
        /\ ~hwnd => scon_cb' = scon_cb
    BY <1>7, GlideReleaseFields DEF grSstWinClose, GiveBack, IInv, TypeOK
  <2>2. mesa = "none" => Going'
    BY <1>7, <2>1 DEF grSstWinClose, IInv, TypeOK, Requests, GlideInv, WindowInv, Wanted, Shown, Going, WillClose, Closes
  <2>3. TypeOK'
    BY <1>7, <2>1, <2>2 DEF grSstWinClose, GiveBack, mesaVars, IInv, TypeOK
  <2>4. GlideInv'
    BY <1>7, <2>1, <2>2 DEF grSstWinClose, GiveBack, mesaVars, IInv, TypeOK, GlideInv, Wanted, OnMesa
  <2>5. MesaInv'
    BY <1>7, <2>1, <2>2 DEF grSstWinClose, GiveBack, mesaVars, IInv, TypeOK, MesaInv
  <2>6. WindowInv'
    BY <1>7, <2>1, <2>2 DEF grSstWinClose, GiveBack, mesaVars, IInv, TypeOK, GlideInv, WindowInv, Wanted, OnMesa, Shown, WillOpen, WillClose, Opens, Closes
  <2> QED
    BY <2>3, <2>4, <2>5, <2>6 DEF IInv
<1>9. CASE wglChoosePixelFormat
  <2>1. Gone
    BY <1>9 DEF wglChoosePixelFormat, MayAsk, IInv, TypeOK, WindowInv, Going, Wanted, WillClose
  <2>2. /\ scon_cb' \in Requests
        /\ scon_cb'.render_pause = scon_cb.render_pause /\ ~scon_cb'.opaque
        /\ scon_cb'.glide_on_mesa = scon_cb.glide_on_mesa
        /\ scon_cb'.gui_saved_res = ConsoleSize
        /\ scon_cb'.res = KeepSize /\ scon_cb'.ts = "armed"
    BY <1>9, <2>1, MesaPrepareFields DEF wglChoosePixelFormat, Gone, PlainConsole, IInv, TypeOK
  <2>3. TypeOK'
    BY <1>9, <2>1, <2>2 DEF wglChoosePixelFormat, MayAsk, glideVars, IInv, TypeOK
  <2>4. GlideInv'
    BY <1>9, <2>1, <2>2 DEF wglChoosePixelFormat, MayAsk, glideVars, IInv, TypeOK, GlideInv, Wanted, OnMesa
  <2>5. MesaInv'
    BY <1>9, <2>1, <2>2 DEF wglChoosePixelFormat, MayAsk, glideVars, IInv, TypeOK, MesaInv
  <2>6. WindowInv'
    BY <1>9, <2>1, <2>2 DEF wglChoosePixelFormat, MayAsk, glideVars, IInv, TypeOK, GlideInv, MesaInv, WindowInv, Shown, Coming, Going, Gone, WillOpen, WillClose, Opens, Closes, Wanted, OnMesa, PlainConsole
  <2> QED
    BY <2>3, <2>4, <2>5, <2>6 DEF IInv
<1>10. CASE PollReady
  <2>1. TypeOK'
    BY <1>10 DEF PollReady, glideVars, IInv, TypeOK
  <2>2. GlideInv'
    BY <1>10 DEF PollReady, glideVars, IInv, TypeOK, GlideInv, Wanted, OnMesa
  <2>3. MesaInv'
    BY <1>10 DEF PollReady, glideVars, IInv, TypeOK, MesaInv
  <2>4. WindowInv'
    BY <1>10 DEF PollReady, glideVars, IInv, TypeOK, GlideInv, WindowInv, Wanted, OnMesa, Shown, WillOpen, WillClose, Opens, Closes
  <2> QED
    BY <2>1, <2>2, <2>3, <2>4 DEF IInv
<1>11. CASE wglMakeCurrent
  <2>1. /\ scon_cb' \in Requests
        /\ scon_cb'.gui_saved_res = scon_cb.gui_saved_res
        /\ scon_cb'.glide_on_mesa = scon_cb.glide_on_mesa
        /\ scon_cb'.opaque = scon_cb.opaque /\ scon_cb'.cwnd_fn = scon_cb.cwnd_fn
        /\ scon_cb' = scon_cb \/ (scon_cb'.res = Redraw /\ scon_cb'.ts = "armed")
    BY <1>11, MesaStatFields DEF wglMakeCurrent, glideVars, MGLActivateHandler, IInv, TypeOK
  <2>2. TypeOK'
    BY <1>11, <2>1 DEF wglMakeCurrent, glideVars, MGLActivateHandler, IInv, TypeOK
  <2>3. GlideInv'
    BY <1>11, <2>1 DEF wglMakeCurrent, glideVars, MGLActivateHandler, IInv, TypeOK, GlideInv, Wanted, OnMesa
  <2>4. MesaInv'
    BY <1>11, <2>1 DEF wglMakeCurrent, glideVars, MGLActivateHandler, IInv, TypeOK, MesaInv
  <2>5. WindowInv'
    BY <1>11, <2>1 DEF wglMakeCurrent, glideVars, MGLActivateHandler, IInv, TypeOK, GlideInv, WindowInv, Wanted, OnMesa, Shown, WillOpen, WillClose, Opens, Closes
  <2> QED
    BY <2>2, <2>3, <2>4, <2>5 DEF IInv
<1>12. ASSUME NEW on \in BOOLEAN, Activate(on) PROVE IInv'
  <2>1. /\ scon_cb' \in Requests
        /\ scon_cb'.gui_saved_res = scon_cb.gui_saved_res
        /\ scon_cb'.glide_on_mesa = scon_cb.glide_on_mesa
        /\ scon_cb'.opaque = scon_cb.opaque /\ scon_cb'.cwnd_fn = scon_cb.cwnd_fn
        /\ scon_cb' = scon_cb \/ (scon_cb'.res = Redraw /\ scon_cb'.ts = "armed")
    BY <1>12, MesaStatFields DEF Activate, glideVars, MGLActivateHandler, IInv, TypeOK
  <2>2. TypeOK'
    BY <1>12, <2>1 DEF Activate, glideVars, MGLActivateHandler, IInv, TypeOK
  <2>3. GlideInv'
    BY <1>12, <2>1 DEF Activate, glideVars, MGLActivateHandler, IInv, TypeOK, GlideInv, Wanted, OnMesa
  <2>4. MesaInv'
    BY <1>12, <2>1 DEF Activate, glideVars, MGLActivateHandler, IInv, TypeOK, MesaInv
  <2>5. WindowInv'
    BY <1>12, <2>1 DEF Activate, glideVars, MGLActivateHandler, IInv, TypeOK, GlideInv, WindowInv, Wanted, OnMesa, Shown, WillOpen, WillClose, Opens, Closes
  <2> QED
    BY <2>2, <2>3, <2>4, <2>5 DEF IInv
<1>13. CASE dispTimerProc
  <2>1. /\ scon_cb' \in Requests
        /\ scon_cb'.gui_saved_res = scon_cb.gui_saved_res
        /\ scon_cb'.glide_on_mesa = scon_cb.glide_on_mesa
        /\ scon_cb'.opaque = scon_cb.opaque /\ scon_cb'.cwnd_fn = scon_cb.cwnd_fn
        /\ scon_cb' = scon_cb \/ (scon_cb'.res = Redraw /\ scon_cb'.ts = "armed")
    BY <1>13, MesaStatFields DEF dispTimerProc, glideVars, MGLActivateHandler, IInv, TypeOK
  <2>2. TypeOK'
    BY <1>13, <2>1 DEF dispTimerProc, glideVars, MGLActivateHandler, IInv, TypeOK
  <2>3. GlideInv'
    BY <1>13, <2>1 DEF dispTimerProc, glideVars, MGLActivateHandler, IInv, TypeOK, GlideInv, Wanted, OnMesa
  <2>4. MesaInv'
    BY <1>13, <2>1 DEF dispTimerProc, glideVars, MGLActivateHandler, IInv, TypeOK, MesaInv
  <2>5. WindowInv'
    BY <1>13, <2>1 DEF dispTimerProc, glideVars, MGLActivateHandler, IInv, TypeOK, GlideInv, WindowInv, Wanted, OnMesa, Shown, WillOpen, WillClose, Opens, Closes
  <2> QED
    BY <2>2, <2>3, <2>4, <2>5 DEF IInv
<1>14. CASE wglDeleteContext
  <2>1. /\ scon_cb' \in Requests
        /\ scon_cb'.gui_saved_res = scon_cb.gui_saved_res
        /\ scon_cb'.glide_on_mesa = scon_cb.glide_on_mesa
        /\ scon_cb'.opaque = scon_cb.opaque /\ scon_cb'.cwnd_fn = scon_cb.cwnd_fn
        /\ scon_cb' = scon_cb \/ (scon_cb'.res = Redraw /\ scon_cb'.ts = "armed")
    BY <1>14, MesaStatFields DEF wglDeleteContext, glideVars, MGLActivateHandler, IInv, TypeOK
  <2>2. TypeOK'
    BY <1>14, <2>1 DEF wglDeleteContext, glideVars, MGLActivateHandler, IInv, TypeOK
  <2>3. GlideInv'
    BY <1>14, <2>1 DEF wglDeleteContext, glideVars, MGLActivateHandler, IInv, TypeOK, GlideInv, Wanted, OnMesa
  <2>4. MesaInv'
    BY <1>14, <2>1 DEF wglDeleteContext, glideVars, MGLActivateHandler, IInv, TypeOK, MesaInv
  <2>5. WindowInv'
    BY <1>14, <2>1 DEF wglDeleteContext, glideVars, MGLActivateHandler, IInv, TypeOK, GlideInv, WindowInv, Wanted, OnMesa, Shown, WillOpen, WillClose, Opens, Closes
  <2> QED
    BY <2>2, <2>3, <2>4, <2>5 DEF IInv
<1>15. CASE MGLWndRelease
  <2>1. /\ scon_cb' \in Requests
        /\ scon_cb'.render_pause = scon_cb.render_pause
        /\ scon_cb'.glide_on_mesa = scon_cb.glide_on_mesa
        /\ scon_cb'.gui_saved_res = KeepSize /\ scon_cb'.res = KeepSize
        /\ scon_cb.ts # "none" => scon_cb'.ts = "armed"
    BY <1>15, MesaReleaseFields DEF MGLWndRelease, IInv, TypeOK
  <2>2. TypeOK'
    BY <1>15, <2>1 DEF MGLWndRelease, glideVars, IInv, TypeOK
  <2>3. GlideInv'
    BY <1>15, <2>1 DEF MGLWndRelease, glideVars, IInv, TypeOK, GlideInv, Wanted, OnMesa
  <2>4. MesaInv'
    BY <1>15, <2>1 DEF MGLWndRelease, glideVars, IInv, TypeOK, MesaInv
  <2>5. WindowInv'
    BY <1>15, <2>1 DEF MGLWndRelease, glideVars, IInv, TypeOK, GlideInv, WindowInv, Wanted, OnMesa, Shown, WillOpen, WillClose, Opens, Closes, Coming, Going
  <2> QED
    BY <2>2, <2>3, <2>4, <2>5 DEF IInv
<1>16. CASE WindowTimer
  <2> USE <1>16 DEF WindowTimer, sched_wndproc
  <2>1. CASE Repaints
    <3>1. /\ scon_cb' = [scon_cb EXCEPT !.ts = "idle"]
          /\ console' = [console EXCEPT !.renderer = @ \/ ~scon_cb.render_pause,
                                        !.halt = Halted(scon_cb)]
          /\ wnd_ready' = wnd_ready /\ UNCHANGED <<glideVars, mesa, last, ts>>
      BY <2>1 DEF Repaints, Opens, Closes, IInv, TypeOK
    <3>2. /\ scon_cb' \in Requests /\ console' \in Screens
          /\ scon_cb'.ts = "idle" /\ console'.winctx = console.winctx
          /\ scon_cb'.render_pause = scon_cb.render_pause
          /\ scon_cb'.opaque = scon_cb.opaque
          /\ scon_cb'.gui_saved_res = scon_cb.gui_saved_res
          /\ scon_cb'.glide_on_mesa = scon_cb.glide_on_mesa
          /\ scon_cb'.cwnd_fn = scon_cb.cwnd_fn
      BY <3>1 DEF Halted, Requests, Screens, IInv, TypeOK
    <3>3. scon_cb.ts = "armed" /\ scon_cb.res = Redraw
      BY <2>1 DEF Repaints
    <3> QED
      BY <3>1, <3>2, <3>3 DEF glideVars, IInv, TypeOK, GlideInv, MesaInv, WindowInv, Shown, Coming, Going, Gone, WillOpen, WillClose, Opens, Closes, Wanted, OnMesa, PlainConsole
  <2>2. CASE Opens
    <3>1. /\ scon_cb' = [scon_cb EXCEPT !.ts = "idle", !.render_pause = TRUE]
          /\ console' = [winctx |-> TRUE, renderer |-> FALSE, size |-> NewSize,
                         halt |-> Halted(scon_cb')]
          /\ wnd_ready' = (wnd_ready \/ ~scon_cb.opaque)
          /\ UNCHANGED <<glideVars, mesa, last, ts>>
      BY <2>2 DEF Repaints, Opens, Closes
    <3>2. /\ scon_cb' \in Requests
          /\ scon_cb'.ts = "idle" /\ scon_cb'.render_pause
          /\ scon_cb'.opaque = scon_cb.opaque
          /\ scon_cb'.gui_saved_res = scon_cb.gui_saved_res
          /\ scon_cb'.glide_on_mesa = scon_cb.glide_on_mesa
          /\ scon_cb'.cwnd_fn = scon_cb.cwnd_fn
      BY <3>1 DEF Requests, IInv, TypeOK
    <3>3. console' \in Screens /\ console'.winctx
      BY <3>1, <3>2 DEF NewSize, Halted, Requests, Screens, IInv, TypeOK
    <3>4. WillOpen
      BY <2>2 DEF WillOpen
    <3>5. \/ mesa = "choosing" /\ Coming /\ ~scon_cb.opaque
          \/ mesa = "none" /\ glide = "opening"
      BY <3>4 DEF IInv, TypeOK, WindowInv, Wanted, Shown, Coming, Going, Gone, WillOpen, WillClose, Opens, Closes
    <3>6. Shown'
      BY <3>2, <3>3 DEF Shown, WillOpen, WillClose
    <3>7. TypeOK' /\ GlideInv' /\ MesaInv'
      BY <3>1, <3>2, <3>3, <3>5 DEF glideVars, IInv, TypeOK, GlideInv, MesaInv, Wanted, OnMesa
    <3>8. WindowInv'
      BY <3>1, <3>5, <3>6 DEF glideVars, IInv, TypeOK, WindowInv, Wanted
    <3> QED
      BY <3>7, <3>8 DEF IInv
  <2>3. CASE Closes
    <3>1. /\ scon_cb' = [scon_cb EXCEPT !.ts = "none", !.render_pause = FALSE]
          /\ console' = [winctx |-> FALSE, renderer |-> TRUE, size |-> NewSize,
                         halt |-> Halted(scon_cb')]
          /\ wnd_ready' = wnd_ready /\ UNCHANGED <<glideVars, mesa, last, ts>>
      BY <2>3 DEF Repaints, Opens, Closes, IInv, TypeOK
    <3>2. /\ scon_cb' \in Requests
          /\ scon_cb'.ts = "none" /\ ~scon_cb'.render_pause
          /\ scon_cb'.gui_saved_res = scon_cb.gui_saved_res
          /\ scon_cb'.glide_on_mesa = scon_cb.glide_on_mesa
          /\ scon_cb'.cwnd_fn = scon_cb.cwnd_fn
      BY <3>1 DEF Requests, IInv, TypeOK
    <3>3. WillClose
      BY <2>3 DEF WillClose
    <3>4. mesa = "none" /\ ~Wanted /\ Going
      BY <3>3 DEF IInv, TypeOK, WindowInv, Wanted, Shown, Coming, Going, Gone, WillOpen, WillClose, Opens, Closes
    <3>5. NewSize = ConsoleSize
      BY <3>4, <2>3 DEF NewSize, Going
    <3>6. Halted(scon_cb') = FALSE
      BY <3>2 DEF Halted
    <3>7. console' = PlainConsole
      BY <3>1, <3>5, <3>6 DEF PlainConsole
    <3>8. console' \in Screens
      BY <3>7 DEF PlainConsole, Screens
    <3>9. TypeOK' /\ GlideInv' /\ MesaInv'
      BY <3>1, <3>2, <3>4, <3>8 DEF glideVars, IInv, TypeOK, GlideInv, MesaInv, Wanted, OnMesa
    <3>10. WindowInv'
      BY <3>1, <3>2, <3>4, <3>7 DEF glideVars, IInv, TypeOK, WindowInv, Wanted, Gone, PlainConsole
    <3> QED
      BY <3>9, <3>10 DEF IInv
  <2> QED
    BY <2>1, <2>2, <2>3 DEF Repaints, Opens, Closes
<1>17. CASE MesaTimer
  <2>1. CASE ts = "halt"
    <3>1. /\ console' = [console EXCEPT !.halt = TRUE] /\ ts' = "none"
          /\ UNCHANGED <<glideVars, mesa, wnd_ready, last, scon_cb>>
      BY <1>17, <2>1 DEF MesaTimer
    <3>2. console' \in Screens /\ console'.winctx = console.winctx
      BY <3>1 DEF Screens, IInv, TypeOK
    <3>3. mesa = "current"
      BY <2>1 DEF IInv, MesaInv
    <3> QED
      BY <3>1, <3>2, <3>3 DEF glideVars, IInv, TypeOK, GlideInv, MesaInv, WindowInv, Shown, Coming, Going, Gone, WillOpen, WillClose, Opens, Closes, Wanted, OnMesa, PlainConsole
  <2>2. CASE ts = "deactivate"
    <3>1. /\ scon_cb' = mesa_renderer_stat(scon_cb, FALSE) /\ ts' = "none"
          /\ UNCHANGED <<glideVars, mesa, wnd_ready, last, console>>
          /\ scon_cb.ts # "armed"
      BY <1>17, <2>2 DEF MesaTimer
    <3>2. /\ scon_cb' \in Requests
          /\ scon_cb'.gui_saved_res = scon_cb.gui_saved_res
          /\ scon_cb'.glide_on_mesa = scon_cb.glide_on_mesa
          /\ scon_cb'.opaque = scon_cb.opaque /\ scon_cb'.cwnd_fn = scon_cb.cwnd_fn
          /\ scon_cb' = scon_cb \/ (scon_cb'.res = Redraw /\ scon_cb'.ts = "armed")
      BY <3>1, MesaStatFields DEF IInv, TypeOK
    <3>3. ~scon_cb.render_pause /\ ~scon_cb.glide_on_mesa => scon_cb' = scon_cb
      BY <3>1 DEF mesa_renderer_stat, sdl_renderer_stat
    <3> QED
      BY <3>1, <3>2, <3>3 DEF glideVars, IInv, TypeOK, GlideInv, MesaInv, WindowInv, Shown, Coming, Going, Gone, WillOpen, WillClose, Opens, Closes, Wanted, OnMesa, PlainConsole
  <2> QED
    BY <1>17, <2>1, <2>2 DEF MesaTimer
<1>18. CASE UNCHANGED vars
  <2>1. TypeOK'
    BY <1>18 DEF vars, glideVars, mesaVars, IInv, TypeOK
  <2>2. GlideInv'
    BY <1>18 DEF vars, glideVars, mesaVars, IInv, TypeOK, GlideInv, Wanted, OnMesa
  <2>3. MesaInv'
    BY <1>18 DEF vars, glideVars, mesaVars, IInv, TypeOK, MesaInv
  <2>4. WindowInv'
    BY <1>18 DEF vars, glideVars, mesaVars, IInv, TypeOK, GlideInv, MesaInv, WindowInv, Shown, Coming, Going, Gone, WillOpen, WillClose, Opens, Closes, Wanted, OnMesa, PlainConsole
  <2> QED
    BY <2>1, <2>2, <2>3, <2>4 DEF IInv
<1> QED
  BY <1>1, <1>2, <1>3, <1>4, <1>5, <1>6, <1>7, <1>9, <1>10, <1>11, <1>12,
     <1>13, <1>14, <1>15, <1>16, <1>17, <1>18 DEF Next

---------------------------------------------------------------------------
\* The theorems.

\* Requests, timers and guests stay in step: the invariant of every state, on
\* which the other theorems rest (sdl2.c and its callers in both devices).
THEOREM WindowsInStep == Settled => (Spec => []IInv)
<1> SUFFICES ASSUME Settled PROVE Spec => []IInv
  OBVIOUS
<1>1. IInv /\ [Next]_vars => IInv'
  BY Step
<1> QED
  BY InitInv, <1>1, PTL DEF Spec

\* Every variable of the window and of its guests keeps its type.
THEOREM WindowTypes == Settled => (Spec => []TypeOK)
<1> SUFFICES ASSUME Settled PROVE Spec => []TypeOK
  OBVIOUS
<1>1. IInv => TypeOK
  BY DEF IInv
<1> QED
  BY WindowsInStep, <1>1, PTL

\* grSstWinOpen returns with a context, in which the Glide library opened once.
THEOREM GlidePlaysInContext == Settled => (Spec => []GlideHasContext)
<1> SUFFICES ASSUME Settled PROVE Spec => []GlideHasContext
  OBVIOUS
<1>1. IInv => GlideHasContext
  BY DEF IInv, TypeOK, GlideInv, WindowInv, Shown, GlideHasContext
<1> QED
  BY WindowsInStep, <1>1, PTL

\* A current GL context has its window, also while and after Glide shared it.
THEOREM MesaDrawsInContext == Settled => (Spec => []MesaHasContext)
<1> SUFFICES ASSUME Settled PROVE Spec => []MesaHasContext
  OBVIOUS
<1>1. IInv => MesaHasContext
  BY DEF IInv, MesaInv, WindowInv, Shown, MesaHasContext
<1> QED
  BY WindowsInStep, <1>1, PTL

\* The guest's console comes back whenever no application has the window.
THEOREM ConsoleComesBack == Settled => (Spec => []ConsoleRestored)
<1> SUFFICES ASSUME Settled PROVE Spec => []ConsoleRestored
  OBVIOUS
<1>1. IInv => ConsoleRestored
  BY DEF IInv, WindowInv, Wanted, Going, Gone, WillClose, ConsoleRestored, Unused
<1> QED
  BY WindowsInStep, <1>1, PTL

\* Only a released window loses its context (the action of ContextKept).
LEMMA ContextStep ==
  ASSUME IInv, [Next]_vars
  PROVE  console.winctx /\ ~console'.winctx =>
           mesa = "none" /\ glide \in {"closing", "idle", "detached"}
<1> SUFFICES ASSUME console.winctx, ~console'.winctx
             PROVE  mesa = "none" /\ glide \in {"closing", "idle", "detached"}
  OBVIOUS
<1>1. WindowTimer \/ MesaTimer
  BY DEF Next, vars, Attach, Detach, grSstWinOpen, PollOpen, PollClose, grSstControl,
     grSstWinClose, wglChoosePixelFormat, PollReady,
     wglMakeCurrent, Activate, dispTimerProc, wglDeleteContext, MGLWndRelease
<1>2. ~MesaTimer
  BY DEF MesaTimer, IInv, TypeOK, Screens
<1>3. WillClose
  <2>1. sched_wndproc
    BY <1>1, <1>2 DEF WindowTimer
  <2>2. ~Repaints
    BY <2>1 DEF sched_wndproc, Repaints, Opens, Closes, IInv, TypeOK, Screens
  <2> QED
    BY <2>1, <2>2 DEF sched_wndproc, WillClose
<1> QED
  BY <1>3 DEF IInv, TypeOK, WindowInv, Wanted, Shown, Coming, WillOpen, WillClose, Opens, Closes

\* The context is deleted only when no guest has a window or waits for one.
THEOREM ContextIsKept == Settled => (Spec => ContextKept)
<1> SUFFICES ASSUME Settled PROVE Spec => ContextKept
  OBVIOUS
<1>1. IInv /\ [Next]_vars =>
        [console.winctx /\ ~console'.winctx =>
           mesa = "none" /\ glide \in {"closing", "idle", "detached"}]_vars
  BY ContextStep
<1> QED
  BY WindowsInStep, <1>1, PTL DEF Spec, ContextKept
---------------------------------------------------------------------------
\* Why no guest reads the register for ever.

LEMMA AwaitedInv == IInv => Awaited
<1> SUFFICES ASSUME IInv PROVE Awaited
  OBVIOUS
<1>1. glide = "opening" => activate /\ (OpenAnswered \/ WillOpen)
  BY DEF IInv, TypeOK, GlideInv, WindowInv, Wanted, Shown, Coming, OpenAnswered
<1>2. glide = "closing" => ~activate /\ (CloseAnswered \/ WillClose)
  <2> SUFFICES ASSUME glide = "closing" PROVE ~activate /\ (CloseAnswered \/ WillClose)
    OBVIOUS
  <2>1. ~activate /\ ~Wanted /\ mesa \in {"none", "current"}
    BY DEF IInv, GlideInv, Wanted
  <2>2. CASE mesa = "current"
    <3>1. console.winctx = TRUE
      BY <2>2 DEF IInv, TypeOK, Screens, WindowInv, Shown
    <3>2. scon_cb.glide_on_mesa = TRUE
      BY <2>2 DEF IInv, TypeOK, Requests, GlideInv, OnMesa
    <3> QED
      BY <2>1, <3>1, <3>2 DEF CloseAnswered
  <2>3. CASE mesa = "none"
    <3>1. scon_cb.glide_on_mesa = FALSE
      BY <2>3 DEF IInv, TypeOK, Requests, GlideInv, OnMesa
    <3>2. WillClose \/ console.winctx = FALSE
      BY <2>1, <2>3 DEF IInv, WindowInv, Going, Gone, PlainConsole
    <3> QED
      BY <2>1, <3>1, <3>2 DEF CloseAnswered
  <2> QED
    BY <2>1, <2>2, <2>3
<1>3. mesa = "choosing" => ChooseAnswered \/ (WillOpen /\ ~scon_cb.opaque)
  BY DEF IInv, WindowInv, Coming, ChooseAnswered
<1> QED
  BY <1>1, <1>2, <1>3 DEF Awaited

\* A step that is not a timer's leaves the guests that it is not of alone.
LEMMA OpeningStep ==
  ASSUME IInv, [Next]_vars, glide = "opening"
  PROVE  /\ glide' = "opening" \/ glide' = "playing"
         /\ OpenAnswered => OpenAnswered'
         /\ WindowTimer => OpenAnswered'
<1>1. glide' = "opening" \/ glide' = "playing"
  BY DEF Next, vars, glideVars, mesaVars, Attach, Detach, grSstWinOpen, PollOpen, PollClose,
     grSstControl, grSstWinClose, wglChoosePixelFormat, PollReady, wglMakeCurrent, Activate,
     dispTimerProc, wglDeleteContext, MGLWndRelease, WindowTimer, MesaTimer
<1>2. OpenAnswered => OpenAnswered'
  BY ContextStep DEF OpenAnswered
<1>3. ASSUME WindowTimer, ~OpenAnswered PROVE OpenAnswered'
  <2>1. WillOpen
    BY <1>3, AwaitedInv DEF Awaited
  <2>2. Opens /\ ~Repaints /\ ~Closes
    BY <2>1 DEF WillOpen, Opens, Repaints, Closes
  <2> QED
    BY <1>3, <2>2 DEF WindowTimer, sched_wndproc, OpenAnswered
<1> QED
  BY <1>1, <1>2, <1>3

LEMMA ClosingStep ==
  ASSUME Settled, IInv, [Next]_vars, glide = "closing"
  PROVE  /\ glide' = "closing" \/ glide' = "idle"
         /\ CloseAnswered /\ PollClose => glide' = "idle"
         /\ CloseAnswered /\ glide' = "closing" => CloseAnswered'
         /\ WindowTimer => CloseAnswered'
<1>1. glide' = "closing" \/ glide' = "idle"
  BY DEF Next, vars, glideVars, mesaVars, Attach, Detach, grSstWinOpen, PollOpen, PollClose,
     grSstControl, grSstWinClose, wglChoosePixelFormat, PollReady, wglMakeCurrent, Activate,
     dispTimerProc, wglDeleteContext, MGLWndRelease, WindowTimer, MesaTimer
<1>2. CloseAnswered /\ PollClose => glide' = "idle"
  BY DEF PollClose, CloseAnswered
<1>3. IInv'
  BY Step
<1>4. mesa \in {"none", "current"} /\ ~Wanted /\ ~activate
  BY DEF IInv, GlideInv, Wanted
<1>5. ASSUME CloseAnswered, glide' = "closing" PROVE CloseAnswered'
  <2>1. CASE mesa = "current"
    <3>1. mesa' = "current"
      BY <2>1 DEF Next, vars, glideVars, mesaVars, Attach, Detach, grSstWinOpen, PollOpen, PollClose,
         grSstControl, grSstWinClose, wglChoosePixelFormat, PollReady, wglMakeCurrent, Activate,
         dispTimerProc, wglDeleteContext, MGLWndRelease, WindowTimer, MesaTimer
    <3>2. console'.winctx = TRUE
      BY <1>3, <3>1 DEF IInv, TypeOK, Screens, WindowInv, Shown
    <3>3. scon_cb'.glide_on_mesa = TRUE
      BY <1>3, <1>5, <3>1 DEF IInv, TypeOK, Requests, GlideInv, OnMesa
    <3> QED
      BY <3>2, <3>3 DEF CloseAnswered
  <2>2. CASE mesa = "none"
    <3>1. mesa' = "none"
      BY <1>4, <2>2 DEF Next, vars, glideVars, mesaVars, Attach, Detach, grSstWinOpen, PollOpen, PollClose,
         grSstControl, grSstWinClose, wglChoosePixelFormat, PollReady, wglMakeCurrent, Activate,
         dispTimerProc, wglDeleteContext, MGLWndRelease, WindowTimer, MesaTimer
    <3>2. scon_cb'.glide_on_mesa = FALSE
      BY <1>3, <3>1 DEF IInv, TypeOK, Requests, GlideInv, OnMesa
    <3>3. scon_cb.glide_on_mesa = FALSE /\ console.winctx = FALSE
      <4>1. scon_cb.glide_on_mesa = FALSE
        BY <2>2 DEF IInv, TypeOK, Requests, GlideInv, OnMesa
      <4> QED
        BY <1>5, <4>1 DEF CloseAnswered
    <3>4. Gone
      BY <1>4, <2>2, <3>3 DEF IInv, WindowInv, Going
    <3>5. console'.winctx = FALSE
      <4>1. ~WindowTimer
        BY <3>4 DEF Gone, WindowTimer, sched_wndproc
      <4>2. ~MesaTimer \/ console'.winctx = FALSE
        BY <3>3 DEF MesaTimer, IInv, TypeOK, Screens
      <4> QED
        BY <3>3, <4>1, <4>2 DEF Next, vars, glideVars, mesaVars, Attach, Detach, grSstWinOpen, PollOpen,
           PollClose, grSstControl, grSstWinClose, wglChoosePixelFormat, PollReady, wglMakeCurrent,
           Activate, dispTimerProc, wglDeleteContext, MGLWndRelease
    <3> QED
      BY <3>2, <3>5 DEF CloseAnswered
  <2> QED
    BY <1>4, <2>1, <2>2
<1>6. ASSUME WindowTimer PROVE CloseAnswered'
  <2>1. glide' = "closing" /\ UNCHANGED mesa
    BY <1>6 DEF WindowTimer, glideVars
  <2>2. CASE CloseAnswered
    BY <1>5, <2>1, <2>2
  <2>3. CASE ~CloseAnswered
    <3>1. WillClose
      BY <2>3, AwaitedInv DEF Awaited
    <3>2. Closes /\ ~Repaints /\ ~Opens
      BY <3>1 DEF WillClose, Opens, Repaints, Closes
    <3>3. console'.winctx = FALSE
      BY <1>6, <3>2 DEF WindowTimer, sched_wndproc
    <3>4. mesa' # "current"
      BY <1>3, <3>3 DEF IInv, WindowInv, Shown
    <3>5. scon_cb'.glide_on_mesa = FALSE
      BY <1>3, <3>4 DEF IInv, TypeOK, Requests, GlideInv, OnMesa
    <3> QED
      BY <3>3, <3>5 DEF CloseAnswered
  <2> QED
    BY <2>2, <2>3
<1> QED
  BY <1>1, <1>2, <1>5, <1>6

LEMMA ChoosingStep ==
  ASSUME IInv, [Next]_vars, mesa = "choosing"
  PROVE  /\ mesa' = "choosing" \/ mesa' = "ready"
         /\ ChooseAnswered => ChooseAnswered'
         /\ WindowTimer => ChooseAnswered'
<1>1. mesa' = "choosing" \/ mesa' = "ready"
  BY DEF Next, vars, glideVars, mesaVars, Attach, Detach, grSstWinOpen, PollOpen, PollClose,
     grSstControl, grSstWinClose, wglChoosePixelFormat, PollReady, wglMakeCurrent, Activate,
     dispTimerProc, wglDeleteContext, MGLWndRelease, WindowTimer, MesaTimer
<1>2. ChooseAnswered => ChooseAnswered'
  BY DEF ChooseAnswered, Next, vars, glideVars, mesaVars, Attach, Detach, grSstWinOpen, PollOpen,
     PollClose, grSstControl, grSstWinClose, wglChoosePixelFormat, PollReady, wglMakeCurrent,
     Activate, dispTimerProc, wglDeleteContext, MGLWndRelease, WindowTimer, MesaTimer
<1>3. ASSUME WindowTimer, ~ChooseAnswered PROVE ChooseAnswered'
  <2>1. WillOpen /\ ~scon_cb.opaque
    BY <1>3, AwaitedInv DEF Awaited
  <2> QED
    BY <1>3, <2>1 DEF WindowTimer, WillOpen, ChooseAnswered
<1> QED
  BY <1>1, <1>2, <1>3

\* Nobody waits in vain: whoever reads the register has the answer already, or
\* the timer is armed with the very request, although all guests write their
\* requests into the same fields (scon_cb) and share the one timer.
THEOREM NoneWaitsInVain == Settled => (Spec => []Awaited)
<1> SUFFICES ASSUME Settled PROVE Spec => []Awaited
  OBVIOUS
<1> QED
  BY WindowsInStep, AwaitedInv, PTL

\* The loop of grSstWinOpen ends.
THEOREM OpeningDone == Settled => (Spec /\ []CanAct => OpeningEnds)
<1> SUFFICES ASSUME Settled PROVE Spec /\ []CanAct => OpeningEnds
  OBVIOUS
<1> DEFINE O == glide = "opening"
           P == glide = "playing"
<1>1. IInv /\ [Next]_vars /\ O => O' \/ P'
  BY OpeningStep
<1>2. IInv /\ [Next]_vars /\ O /\ OpenAnswered => OpenAnswered'
  BY OpeningStep
<1>3. IInv /\ [Next]_vars /\ O /\ <<WindowTimer>>_vars => OpenAnswered'
  BY OpeningStep
<1>4. <<PollOpen>>_vars => P'
  BY DEF PollOpen
<1>5. IInv /\ CanAct /\ O /\ ~OpenAnswered => ENABLED <<WindowTimer>>_vars
  BY AwaitedInv DEF Awaited, WillOpen, CanAct
<1>6. IInv /\ CanAct /\ O /\ OpenAnswered => ENABLED <<PollOpen>>_vars
  BY AwaitedInv DEF Awaited, CanAct
<1>7. Spec => []IInv
  BY WindowsInStep
<1>8. OpeningEnds <=> (O ~> P)
  BY PTL DEF OpeningEnds
<1> QED
  BY <1>1, <1>2, <1>3, <1>4, <1>5, <1>6, <1>7, <1>8, PTL DEF Spec, Fairness

\* The loop of grSstWinClose ends.
THEOREM ClosingDone == Settled => (Spec /\ []CanAct => ClosingEnds)
<1> SUFFICES ASSUME Settled PROVE Spec /\ []CanAct => ClosingEnds
  OBVIOUS
<1> DEFINE C == glide = "closing"
           I == glide = "idle"
<1>1. IInv /\ [Next]_vars /\ C => C' \/ I'
  BY ClosingStep
<1>2. IInv /\ [Next]_vars /\ C /\ CloseAnswered => I' \/ CloseAnswered'
  BY ClosingStep
<1>3. IInv /\ [Next]_vars /\ C /\ <<WindowTimer>>_vars => CloseAnswered'
  BY ClosingStep
<1>4. IInv /\ [Next]_vars /\ C /\ CloseAnswered /\ <<PollClose>>_vars => I'
  BY ClosingStep
<1>5. IInv /\ CanAct /\ C /\ ~CloseAnswered => ENABLED <<WindowTimer>>_vars
  BY AwaitedInv DEF Awaited, WillClose, CanAct
<1>6. IInv /\ CanAct /\ C /\ CloseAnswered => ENABLED <<PollClose>>_vars
  BY AwaitedInv DEF Awaited, CanAct
<1>7. Spec => []IInv
  BY WindowsInStep
<1>8. ClosingEnds <=> (C ~> I)
  BY PTL DEF ClosingEnds
<1> QED
  BY <1>1, <1>2, <1>3, <1>4, <1>5, <1>6, <1>7, <1>8, PTL DEF Spec, Fairness

\* The loop of wglChoosePixelFormat ends.
THEOREM ChoosingDone == Settled => (Spec /\ []CanAct => ChoosingEnds)
<1> SUFFICES ASSUME Settled PROVE Spec /\ []CanAct => ChoosingEnds
  OBVIOUS
<1> DEFINE C == mesa = "choosing"
           R == mesa = "ready"
<1>1. IInv /\ [Next]_vars /\ C => C' \/ R'
  BY ChoosingStep
<1>2. IInv /\ [Next]_vars /\ C /\ ChooseAnswered => ChooseAnswered'
  BY ChoosingStep
<1>3. IInv /\ [Next]_vars /\ C /\ <<WindowTimer>>_vars => ChooseAnswered'
  BY ChoosingStep
<1>4. <<PollReady>>_vars => R'
  BY DEF PollReady
<1>5. IInv /\ CanAct /\ C /\ ~ChooseAnswered => ENABLED <<WindowTimer>>_vars
  BY AwaitedInv DEF Awaited, WillOpen, CanAct
<1>6. CanAct /\ C /\ ChooseAnswered => ENABLED <<PollReady>>_vars
  BY DEF CanAct
<1>7. Spec => []IInv
  BY WindowsInStep
<1>8. ChoosingEnds <=> (C ~> R)
  BY PTL DEF ChoosingEnds
<1> QED
  BY <1>1, <1>2, <1>3, <1>4, <1>5, <1>6, <1>7, <1>8, PTL DEF Spec, Fairness
=============================================================================
