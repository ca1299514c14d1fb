-------------------------------- MODULE MCVideo --------------------------------
(* Mouse events before, inside and beyond the window. *)
EXTENDS Video
MCClicks == {-3, 2, 9}
=============================================================================
