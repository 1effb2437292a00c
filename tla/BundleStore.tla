---------------------------- MODULE BundleStore ----------------------------
(***************************************************************************)
(* What a board's model store promises (docs of deploy/board.py): a bundle *)
(* that has arrived whole stays whole, whatever is sent to the board after *)
(* it, and `current' only ever leads to such a bundle.                     *)
(***************************************************************************)
CONSTANTS Trees, None

VARIABLES whole,    \* the bundles all of whose ELFs are on the board
          current   \* the bundle the board serves by default

Init == whole \subseteq Trees /\ current \in whole \cup {None}

Arrive(bundle) ==
    /\ whole' = whole \cup {bundle}
    /\ UNCHANGED current

Switch(bundle) ==
    /\ bundle \in whole
    /\ current' = bundle
    /\ UNCHANGED whole

Next == \E bundle \in Trees : Arrive(bundle) \/ Switch(bundle)

Spec == Init /\ [][Next]_<<whole, current>>
=============================================================================
