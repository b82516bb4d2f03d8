--------------------------- MODULE MCExpressions ---------------------------
(* Small instances of Expressions: two widgets over one or two variables.   *)
EXTENDS Expressions, TLC

CONSTANTS vx, vy, label, button

MCReadsXY == (label :> <<vx>>) @@ (button :> <<vx, vy>>)
MCReadsX == (label :> <<vx>>) @@ (button :> <<vx>>)
=============================================================================
