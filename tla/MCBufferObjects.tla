-------------------------- MODULE MCBufferObjects --------------------------
(***************************************************************************)
(* Small instances: two buffers of one unit, which ALIGNBO pads, for       *)
(* the order of mapping and unmapping; one buffer of three units for what  *)
(* happens to parts of it.  An ordinary target and the unpack target.      *)
(***************************************************************************)
EXTENDS BufferObjects

MCTarget == {"array", "unpack"}
MCOne == {1}
MCTwo == {1, 2}
MCSizeLong == [b \in MCOne |-> 3]
MCSizeTwo == [b \in MCTwo |-> 1]

MCRules == {"last-bound", "no-transfer", "unmap-first", "orphan"}
MCNotLastBound == MCRules \ {"last-bound"}
=============================================================================
