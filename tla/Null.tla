-------------------------------- MODULE Null --------------------------------
(* TypeScript's null and undefined, and PostgreSQL's NULL.                  *)
CONSTANT None
=============================================================================
