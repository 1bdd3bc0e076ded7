----------------------------- MODULE AppendLog -----------------------------
(***************************************************************************)
(* What append_record promises its callers: every chain is a log to which  *)
(* entries are only ever added at the end.                                 *)
(***************************************************************************)
EXTENDS Sequences

CONSTANTS Chains, Entries

VARIABLE log

Init == log = [c \in Chains |-> << >>]

Next == \E c \in Chains, e \in Entries : log' = [log EXCEPT ![c] = Append(@, e)]

Spec == Init /\ [][Next]_log
=============================================================================
