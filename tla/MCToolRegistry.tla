---------------------------- MODULE MCToolRegistry ----------------------------
(***************************************************************************)
(* Constants for model checking ToolRegistry.                              *)
(***************************************************************************)
EXTENDS ToolRegistry

CONSTANTS customer, admin

AllRoles == <<customer, admin>>

==============================================================================
