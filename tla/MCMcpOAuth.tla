----------------------------- MODULE MCMcpOAuth -----------------------------
(* One or two logins of a user, three requests at a time.                  *)
EXTENDS McpOAuth
=============================================================================
