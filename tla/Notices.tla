------------------------------- MODULE Notices -------------------------------
(***************************************************************************)
(* The notices the server owes to those who asked: the owner of a Codex    *)
(* review hears of it (CodexReview), and the parties of a reparent request *)
(* hear of its outcome (ReparentOutbox).  The two share the message queue  *)
(* and nothing else.                                                       *)
(***************************************************************************)
EXTENDS CodexReview, ReparentOutbox

\* Nobody relies on a watcher that is gone or on an ending that was taken back.
NoticesAreRight == ReviewIsWatched /\ OutcomeToldOnce
=============================================================================
