--------------------------- MODULE MCGlideVertex ---------------------------
(***************************************************************************)
(* Three parameters, two of which exclude each other (GR_PARAM_RGB and     *)
(* GR_PARAM_PARGB) and one that lies in the second half of the table.      *)
(***************************************************************************)
EXTENDS GlideVertex

MCParam == {GR_PARAM_RGB, GR_PARAM_PARGB, GR_PARAM_ST0}

\* Behind X and Y, and behind a packed colour or W.
MCOffset == {8, 20}

\* The twelve parameters have a row each.
ASSUME RowsAreDistinct ==
  LET all == 1..5 \cup {16, 32, 48, 64, 65, 80, 81} IN
  /\ {ParamIdx(p) : p \in all} = Rows
  /\ \A p, q \in all : ParamIdx(p) = ParamIdx(q) => p = q
=============================================================================
