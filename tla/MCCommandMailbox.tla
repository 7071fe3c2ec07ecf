-------------------------- MODULE MCCommandMailbox --------------------------
(* Instances of CommandMailbox: a camera angle is copied in two parts.      *)
EXTENDS CommandMailbox

TwoPartAngle == [focus |-> 1, angle |-> 2, move |-> 1]
=============================================================================
