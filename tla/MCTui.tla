-------------------------------- MODULE MCTui --------------------------------
(* Instances of Tui for TLC. *)
EXTENDS Tui

CONSTANTS ads, ADS   \* a name in two spellings

MCNormal == [t \in Tables |-> [k \in {ads, ADS} |-> IF t = "Tags" THEN ads ELSE k]]

(* A rule and a tag that the API stored with capitals. *)
MCStored ==
  [t \in Tables |->
     CASE t = "Rules" -> [k \in {1} |-> 1]
       [] t = "Tags" -> [k \in {ADS} |-> 1]
       [] t = "Limits" -> [k \in {} |-> 1]]
=============================================================================
