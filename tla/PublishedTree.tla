---------------------------- MODULE PublishedTree ----------------------------
(***************************************************************************)
(* What replace_tree (src/src/ocjs_bindgen/build_state.py) promises to the *)
(* readers of a published directory, and nothing about how it does it: at  *)
(* any moment the directory either is absent or holds one of the trees     *)
(* that somebody published whole.  A tree is withdrawn before another one  *)
(* takes its place, so the promise has a gap in it: the directory may be   *)
(* absent for a while, or for good if the publisher dies in the gap.       *)
(***************************************************************************)
CONSTANTS Trees,    \* the trees that may be published
          Nothing   \* what a reader finds while no tree is there: not a tree

VARIABLE live       \* what a reader of the directory finds

Init == live \in Trees \cup {Nothing}

(* The live tree is taken away; the readers find nothing.                  *)
Withdraw == /\ live # Nothing
            /\ live' = Nothing

(* A whole tree appears in one step, and only where there was none.        *)
Install(t) == /\ live = Nothing
              /\ live' = t

Next == Withdraw \/ \E t \in Trees : Install(t)

Spec == Init /\ [][Next]_live
=============================================================================
