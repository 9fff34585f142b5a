--------------------------- MODULE MCRolloutControl ---------------------------
(* Calls of one tuple under an operator's rule for every platform and the   *)
(* Admin's deny; the staged rule is of another tuple (Elsewhere), or of the  *)
(* same one (Here), where it already grants.                                *)
EXTENDS RolloutControl

MCRules == {"wide", "staged", "safety"}
MCWorker == [k \in Calls |-> CHOOSE w \in Workers : TRUE]

SelectorElsewhere == [wide |-> "any", staged |-> "other", safety |-> "exact"]
CoversElsewhere == [q \in Requests |-> {"wide", "safety"}]
RulesElsewhere == {[wide |-> "grant", staged |-> "grant", safety |-> "absent"]}

SelectorHere == [wide |-> "any", staged |-> "exact", safety |-> "exact"]
CoversHere == [q \in Requests |-> MCRules]
RulesHere == {[wide |-> "absent", staged |-> "grant", safety |-> "absent"]}

=============================================================================
