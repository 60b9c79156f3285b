--------------------------- MODULE MCJobLifecycle ---------------------------
(* Instances of JobLifecycle for TLC.                                      *)
EXTENDS JobLifecycle

CONSTANTS j1, j2, a1

TwoOutcomes == {<<"completed", FALSE>>, <<"nsfw", TRUE>>}
MixedOutcomes == {<<"completed", FALSE>>, <<"failed", TRUE>>, <<"nsfw", FALSE>>}
=============================================================================
