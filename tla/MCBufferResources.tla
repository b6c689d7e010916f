------------------------- MODULE MCBufferResources -------------------------
(* Two variables of each kind: a handle and its copy, or a view and the    *)
(* view its holder shares it with.  In units of half an alignment, data of *)
(* sizes 1 and 3 is padded in between, and twice the larger size reaches   *)
(* the 32-bit limit.                                                       *)
EXTENDS BufferResources, TLC

CONSTANTS v1, v2, v3, o1, o2, w1, w2, r1

MCVars == {v1, v2, v3}
MCObjects == {o1, o2}
MCViewVars == {w1, w2}
MCRanges == {r1}
MCSizes == {1, 3}
MCPrograms == {{"copies"}, {"views"}, {"data"}}

MCSymmetry == Permutations(MCVars) \cup Permutations(MCObjects)
                \cup Permutations(MCViewVars)
=============================================================================
