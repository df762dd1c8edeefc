--------------------------- MODULE DirectBuffers ---------------------------
(***************************************************************************)
(* What Glide promises of the linear frame buffer: a lock gives the        *)
(* application the buffer itself.  What it stores is in the buffer at      *)
(* once, what it does not touch stays as it is, and locking and unlocking  *)
(* change nothing.  There are no copies.                                   *)
(***************************************************************************)
CONSTANTS
  Pixel,   \* the places of a buffer
  Value    \* what a place can hold

Buffer == {"front", "back", "aux"}
LockType == {"read", "write"}
Contents == [Pixel -> Value]

VARIABLES
  buf,     \* buf[b]: the contents of buffer b
  held     \* held[t]: the buffer locked for t, or "none"

vars == <<buf, held>>

Nothing == [t \in LockType |-> "none"]

Init ==
  /\ buf \in [Buffer -> Contents]
  /\ held = Nothing

\* A window is opened: nobody knows what its buffers hold.
Open ==
  /\ held = Nothing
  /\ buf' \in [Buffer -> Contents]
  /\ UNCHANGED held

Lock(t, b) ==
  /\ held[t] = "none"
  /\ held' = [held EXCEPT ![t] = b]
  /\ UNCHANGED buf

Unlock(t) ==
  /\ held' = [held EXCEPT ![t] = "none"]
  /\ UNCHANGED buf

\* The application writes through its lock.
Store(p, v) ==
  /\ held["write"] # "none"
  /\ buf' = [buf EXCEPT ![held["write"]] = [@ EXCEPT ![p] = v]]
  /\ UNCHANGED held

\* A call of Glide draws, clears or writes a region.
Draw(b, p, v) ==
  /\ buf' = [buf EXCEPT ![b] = [@ EXCEPT ![p] = v]]
  /\ UNCHANGED held

\* The back buffer is shown; nobody knows what it holds then.
Swap ==
  /\ \E old \in Contents : buf' = [buf EXCEPT !["front"] = buf["back"], !["back"] = old]
  /\ UNCHANGED held

Next ==
  \/ Open
  \/ Swap
  \/ \E t \in LockType : Unlock(t) \/ \E b \in Buffer : Lock(t, b)
  \/ \E p \in Pixel, v \in Value : Store(p, v) \/ \E b \in Buffer : Draw(b, p, v)

Spec == Init /\ [][Next]_vars
=============================================================================
