--------------------------- MODULE MCHumanCounter ---------------------------
(* Instances of HumanCounter: positions inside the count area, beyond each  *)
(* of its sides, on a corner of it, and next to that corner.  One unit is   *)
(* the distance of neighbouring floats there, so NextToCorner is the float  *)
(* that follows the corner on its left.                                     *)
EXTENDS HumanCounter

mm(x, y) == [x |-> UNIT * x, y |-> UNIT * y]

Inside == mm(0, -3000)
Corner == mm(-3235, -3219)
NextToCorner == [Corner EXCEPT !.x = @ - 1]
Up == mm(0, -3300)
Down == mm(0, -2900)
Left == mm(-4000, -3000)
Right == mm(4000, -3000)

AllSides == {Inside, Corner, NextToCorner, Up, Down, Left, Right}
=============================================================================
