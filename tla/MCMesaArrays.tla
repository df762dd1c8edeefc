---------------------------- MODULE MCMesaArrays ----------------------------
(***************************************************************************)
(* Instances of MesaArrays.                                                *)
(***************************************************************************)
EXTENDS MesaArrays

D(kind, start, end, base, idx) ==
  [kind |-> kind, start |-> start, end |-> end, base |-> base, idx |-> idx]

\* An element of a word, every three words.
MCFormat == {[size |-> 4, stride |-> 12]}

\* A draw of each kind; one of no elements and one of a single element.
MCDraw ==
  {D("arrays", 1, 2, 0, <<>>), D("arrays", 0, -1, 0, <<>>),
   D("elements", 0, 0, 1, <<2, 1>>), D("range", 0, 1, 0, <<0, 1, 0>>),
   D("element", 1, 1, 0, <<>>), D("lock", 0, 1, 0, <<>>)}

MCDrawTex == {D("arrays", 1, 2, 0, <<>>)}

MCVertex == {"Vertex"}
MCTexZero == {<<"TexCoord", 1>>}
=============================================================================
