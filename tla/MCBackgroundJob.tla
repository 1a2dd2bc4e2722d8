--------------------------- MODULE MCBackgroundJob ---------------------------
(* Small instances of BackgroundJob: one or two jobs, one or two workers. *)
EXTENDS BackgroundJob, TLC

CONSTANTS j1, j2, w1, w2
=============================================================================
