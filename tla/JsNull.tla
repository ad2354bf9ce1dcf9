------------------------------- MODULE JsNull -------------------------------
(* The one value of JavaScript's null, undefined and missing field, shared by
   every module so that they can be composed. *)
CONSTANT NULL
=============================================================================
