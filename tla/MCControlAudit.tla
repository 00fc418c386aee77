---------------------------- MODULE MCControlAudit ----------------------------
(* Three transactions of the control plane that each record one event.         *)
EXTENDS ControlAudit

CONSTANTS a1, a2, a3, genesis

ThreeAppenders == {a1, a2, a3}
===============================================================================
