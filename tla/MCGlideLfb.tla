----------------------------- MODULE MCGlideLfb -----------------------------
EXTENDS GlideLfb, TLC

Options(on) ==
  [LfbHandler |-> "LfbHandler" \in on, LfbMapBufo |-> "LfbMapBufo" \in on,
   LfbLockDirty |-> "LfbLockDirty" \in on, LfbWriteMerge |-> "LfbWriteMerge" \in on,
   LfbNoAux |-> "LfbNoAux" \in on]

\* Each way to the buffer, with and without the guest's own depth buffer.
MCConfig ==
  { Options(on) : on \in { {}, {"LfbNoAux"}, {"LfbLockDirty"},
      {"LfbWriteMerge"}, {"LfbWriteMerge", "LfbNoAux"},
      {"LfbMapBufo"}, {"LfbMapBufo", "LfbNoAux"}, {"LfbHandler"} } }

Same == Permutations(Value)
=============================================================================
