------------------------ MODULE MCConnectorApproval ------------------------
(***************************************************************************)
(* An instance of ConnectorApproval.                                      *)
(***************************************************************************)
EXTENDS ConnectorApproval

CONSTANTS a1, a2, wa1, web1

=============================================================================
