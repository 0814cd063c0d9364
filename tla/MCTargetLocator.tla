-------------------------- MODULE MCTargetLocator --------------------------
(* A small instance of TargetLocator: the address the mission starts with, *)
(* others the scope allows, and possibly one outside it.                   *)
EXTENDS TargetLocator

CONSTANTS first, second, third, fourth, stranger

MCLocators == {first, second, stranger}
MCInScope == {first, second}
AllAllowed == {first, second, third, fourth}
=============================================================================
