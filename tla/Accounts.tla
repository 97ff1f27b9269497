-------------------------------- MODULE Accounts --------------------------------
(***************************************************************************)
(* The accounts of the FastAPI backend, and the owner of the one document  *)
(* the other modules follow.                                               *)
(***************************************************************************)

CONSTANTS
  Users,   \* the users with an account
  Owner,   \* documents.owner_user_id
  NoRow    \* "no such row", "no request", "no handler"
================================================================================
