--------------------------- MODULE CommitHistory ---------------------------
(***************************************************************************)
(* What the history of a branch promises: one commit adds one record, and  *)
(* the text of the views changes only with the record that says why.       *)
(***************************************************************************)
EXTENDS Naturals, Sequences

CONSTANTS Views, Texts

VARIABLES log,   \* the committed records
          text   \* which run's text each view holds in the newest commit

Init == log = << >> /\ text = [v \in Views |-> 0]

\* A run commits its record with the text it wrote.
Absorb == \E id \in Texts, W \in (SUBSET Views) \ {{}} :
            /\ \A n \in DOMAIN log : log[n].id # id
            /\ log' = Append(log, [kind |-> "compile", id |-> id, over |-> 0])
            /\ text' = [v \in Views |-> IF v \in W THEN id ELSE text[v]]

\* A verification or a failed revert adds its record and changes no text.
Note == \E kind \in {"verify", "revert-failed"}, id \in Texts, over \in DOMAIN log :
          /\ log' = Append(log, [kind |-> kind, id |-> id, over |-> over])
          /\ UNCHANGED text

\* A revert takes back the text of one run.
Revert == \E id \in Texts, over \in DOMAIN log :
            /\ log' = Append(log, [kind |-> "revert", id |-> id, over |-> over])
            /\ \A v \in Views : text[v] = log[over].id => text'[v] # log[over].id
            /\ \A v \in Views : text[v] # log[over].id => text'[v] = text[v]
            /\ text' \in [Views -> Texts \cup {0}]

Next == Absorb \/ Note \/ Revert

Spec == Init /\ [][Next]_<<log, text>>
=============================================================================
