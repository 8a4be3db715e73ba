------------------------- MODULE MCBrowserSessions -------------------------
(***************************************************************************)
(* A small instance of BrowserSessions for TLC: one run.                  *)
(***************************************************************************)
EXTENDS BrowserSessions

=============================================================================
