----------------------------- MODULE MCTextures -----------------------------
(* A handle and its copy of textures and of samplers; or one texture next  *)
(* to a swapchain of one or two images with depth textures and views.      *)
EXTENDS Textures, TLC

CONSTANTS t1, t2, w1, s1, s2

MCTexVars == {t1, t2}
MCSwapVars == {t1}
MCViewVars == {w1}
MCSamVars == {s1, s2}
MCPrograms == {"copies", "swapchain", "data", "samplers"}
MCSizes == {1, 3}
MCOutcomeSeqs == {<<"made">>, <<"no depth", "made">>, <<"made", "no views">>}

MCSymmetry == Permutations(MCSamVars)
=============================================================================
