------------------------------ MODULE MCReplay -------------------------------
(* One recording that gets its end and one that is cut by a bad line before *)
(* its end.                                                                 *)
EXTENDS Replay, TLC
MCLines == ("f" :> 3) @@ ("g" :> 3)
MCEnds == ("f" :> 2) @@ ("g" :> 3)
MCBad == ("f" :> 0) @@ ("g" :> 2)
=============================================================================
