---------------------------- MODULE Publication ----------------------------
(***************************************************************************)
(* What the publication of retirements promises: the text of a published   *)
(* view is a stack of layers. A publication or a compile run puts a new    *)
(* layer on one view, a rollback takes the top retirement off one view and *)
(* brings back exactly what was under it.                                  *)
(***************************************************************************)
EXTENDS Naturals, Sequences

CONSTANTS Views, Layers

VARIABLES text,     \* the layers of each view, the newest last
          retired   \* the layers that are retirements

Used == UNION {{text[v][i] : i \in DOMAIN text[v]} : v \in Views}

Init == text = [v \in Views |-> << >>] /\ retired = {}

Put(v, layer) == /\ layer \notin Used \cup retired
                 /\ text' = [text EXCEPT ![v] = Append(@, layer)]
                 /\ retired' \in {retired, retired \cup {layer}}

TakeBack(v) == /\ text[v] # << >> /\ text[v][Len(text[v])] \in retired
               /\ text' = [text EXCEPT ![v] = SubSeq(@, 1, Len(@) - 1)]
               /\ UNCHANGED retired

Next == \E v \in Views : TakeBack(v) \/ \E layer \in Layers : Put(v, layer)

Spec == Init /\ [][Next]_<<text, retired>>
=============================================================================
