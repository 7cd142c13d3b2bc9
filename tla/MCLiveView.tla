----------------------------- MODULE MCLiveView -----------------------------
(* Instance of LiveView: two tests, one or two groups, a branch over both  *)
(* and one over the second alone.                                          *)
EXTENDS LiveView

CONSTANTS t1, t2

MCTests == {t1, t2}
MCGroups == <<{t1}, {t2}>>
MCBranches == {{t1, t2}, {t2}}
=============================================================================
