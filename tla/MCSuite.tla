------------------------------ MODULE MCSuite -------------------------------
(* Two of the scenarios are required, one is not.  A caller asks for both,  *)
(* in either order, for one, or for all three.                              *)
EXTENDS Suite
MCSelections == {<<"a", "b">>, <<"b", "f", "a">>, <<"b">>}
=============================================================================
