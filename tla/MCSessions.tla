----------------------------- MODULE MCSessions ------------------------------
(***************************************************************************)
(* Sessions, model-checked: two sessions, one after the other or at once.  *)
(***************************************************************************)
EXTENDS Sessions

CONSTANTS s1, s2
TwoSessions == {s1, s2}
TwoSessionsAndIO == {s1, s2, IO}
=============================================================================
