-------------------------------- MODULE Sql --------------------------------
(***************************************************************************)
(* The NULL of the columns, shared by the components' modules.             *)
(***************************************************************************)
CONSTANT
  None    \* SQL NULL: no row, no reviewer, no holder of a lock
=============================================================================
