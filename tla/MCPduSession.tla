--------------------------- MODULE MCPduSession ---------------------------
(* PduSession for TLC: values that are not plain in a cfg.                  *)
EXTENDS PduSession

OneGrant == {2}
OneOctet == {1}
==========================================================================
