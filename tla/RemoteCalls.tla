---------------------------- MODULE RemoteCalls ----------------------------
(***************************************************************************)
(* What the pass-through transport promises to the wrapper DLL in the      *)
(* guest: API calls are carried out on the host one at a time, in the      *)
(* order the guest made them, each with exactly the arguments and the bulk *)
(* data the guest gave it.  A call may be deferred, and then the guest     *)
(* goes on; a call that is not deferred returns only when it and every     *)
(* call before it have been carried out.                                   *)
(***************************************************************************)
EXTENDS Integers, Sequences

CONSTANTS
  Call,        \* the API functions
  NArgs,       \* NArgs[c]: argument words of a call of c
  NData,       \* NData[c]: words of bulk data of a call of c
  MaxCalls     \* bound on the calls of a behaviour

VARIABLES
  made,        \* the calls the guest made, oldest first
  carriedOut,  \* what the host carried out, oldest first
  blocked      \* the guest is inside a call that is not deferred

vars == <<made, carriedOut, blocked>>

\* A word of shared memory remembers which call it belongs to.
Word(n, part, k) == [call |-> n, part |-> part, word |-> k]

\* The n-th call exactly as the guest made it.
AsMade(n, c) ==
  [fenum |-> Word(n, "fenum", 0),
   args  |-> [k \in 1..NArgs[c] |-> Word(n, "arg", k)],
   data  |-> [k \in 1..NData[c] |-> Word(n, "data", k)]]

Init ==
  /\ made = <<>>
  /\ carriedOut = <<>>
  /\ blocked = FALSE

Defer(c) ==
  /\ ~blocked
  /\ Len(made) < MaxCalls
  /\ made' = Append(made, c)
  /\ UNCHANGED <<carriedOut, blocked>>

Block(c) ==
  /\ ~blocked
  /\ Len(made) < MaxCalls
  /\ made' = Append(made, c)
  /\ blocked' = TRUE
  /\ UNCHANGED carriedOut

CarryOut ==
  /\ blocked
  /\ Len(carriedOut) < Len(made)
  /\ LET n == Len(carriedOut) + 1
     IN  carriedOut' = Append(carriedOut, AsMade(n, made[n]))
  /\ UNCHANGED <<made, blocked>>

Return ==
  /\ blocked
  /\ Len(carriedOut) = Len(made)
  /\ blocked' = FALSE
  /\ UNCHANGED <<made, carriedOut>>

Next ==
  \/ \E c \in Call : Defer(c) \/ Block(c)
  \/ CarryOut
  \/ Return

Spec == Init /\ [][Next]_vars /\ WF_vars(CarryOut) /\ WF_vars(Return)
=============================================================================
