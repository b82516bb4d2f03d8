--------------------------- MODULE MCStatusNotifier ---------------------------
(* Small instances of StatusNotifier: an application and its menu.           *)
EXTENDS StatusNotifier

MCInitProps == [Title |-> "t1", Status |-> "Active", Icon |-> "i1", Attention |-> "n1", Menu |-> "/menu"]
MCProps == DOMAIN MCInitProps
MCValues == {MCInitProps[p] : p \in MCProps} \cup {"t2", "NeedsAttention", "i2", "n2"}
MCFlip(p, v) == CASE p = "Title" -> IF v = "t1" THEN "t2" ELSE "t1"
                  [] p = "Status" -> IF v = "Active" THEN "NeedsAttention" ELSE "Active"
                  [] p = "Icon" -> IF v = "i1" THEN "i2" ELSE "i1"
                  [] p = "Attention" -> IF v = "n1" THEN "n2" ELSE "n1"
Item(id, label) == [id |-> id, label |-> label]
MCLayouts == << [root |-> <<Item(1, "x"), Item(2, "y")>>, sub |-> <<Item(5, "u")>>],
                [root |-> <<Item(3, "z"), Item(1, "w")>>, sub |-> <<Item(4, "v"), Item(5, "u")>>] >>
=============================================================================
