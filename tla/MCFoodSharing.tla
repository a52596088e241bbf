--------------------------- MODULE MCFoodSharing ----------------------------
(* One loaf, asked for by two people, and one soup whose owner is one of    *)
(* them; an administrator who owns nothing.                                 *)
EXTENDS FoodSharing, TLC

CONSTANTS olga, rita, sam, adm, loaf, soup, d1, d2, d3

MCOwner == loaf :> olga @@ soup :> rita
MCItemOf == d1 :> loaf @@ d2 :> loaf @@ d3 :> soup
MCRecipientOf == d1 :> rita @@ d2 :> sam @@ d3 :> sam
=============================================================================
