----------------------------- MODULE MCDrivers -----------------------------
(* Small instances of the drivers: two windows, up to four workspaces, three *)
(* names, two pagers.  Whatever the driver, the left pager has a pin and the *)
(* right one has none; Wayfire's cells have other names than any pin.        *)
EXTENDS Drivers

MCSlots == 1..5
MCIds == 1..4
MCWins == 11..12
MCNames == {"1", "2", "3", "other"}
MCNumber == [n \in MCNames \ {"other"} |-> CASE n = "1" -> 1 [] n = "2" -> 2 [] n = "3" -> 3]
MCOne == <<"1">>
MCTwo == <<"1", "2">>
MCAtNone == <<>>
MCAtOne == 12 :> 2
MCPagers == {"left", "right"}
MCWho == {"sway", "hyprland", "niri", "wayfire", "ext", "cosmic"}
MCSway == {"sway"}
MCPins == [k \in MCWho |-> [g \in MCPagers |->
  IF g # "left" THEN <<>> ELSE IF k = "wayfire" THEN <<"other">> ELSE <<"3">>]]
MCTwoPins == [k \in MCSway |-> [g \in MCPagers |-> <<"2", "3">>]]
=============================================================================
