------------------------------ MODULE Desktop -------------------------------
(* What the modules of the desktop app share, so that one run can hold      *)
(* several of them.                                                          *)
CONSTANT None   \* undefined, null: no entry, no session, no process
=============================================================================
