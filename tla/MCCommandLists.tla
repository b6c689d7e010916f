--------------------------- MODULE MCCommandLists ---------------------------
(* Layouts with one push constant range for both stages, and with a range  *)
(* for each, the second with bytes of its own and bytes they share.        *)
EXTENDS CommandLists, TLC

CONSTANTS l1, v1, v2

MCLists == {l1}
MCLayoutVars == {v1, v2}

Range(off, size, stages) == [off |-> off, size |-> size, stages |-> stages]

MCStages == {"vertex", "fragment"}

MCRangeSeqs ==
  {<<Range(0, 8, {"vertex"})>>,
   <<Range(0, 8, {"vertex"}), Range(4, 8, {"fragment"})>>}

MCPushes == {<<0, 4>>, <<4, 4>>, <<8, 4>>}

MCSymmetry == Permutations(MCLayoutVars)
=============================================================================
