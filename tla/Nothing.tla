------------------------------ MODULE Nothing ------------------------------
(***************************************************************************)
(* The one value that every transport over pipes writes for Go's nil, an   *)
(* absent map entry or an empty field.  Modules that are composed share    *)
(* its declaration.                                                        *)
(***************************************************************************)
CONSTANT None
=============================================================================
