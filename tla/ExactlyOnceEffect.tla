------------------------- MODULE ExactlyOnceEffect -------------------------
(***************************************************************************)
(* The contract every consumer of the bus relies on: an event takes effect *)
(* only after it was published, only if it is valid, and at most once,     *)
(* whatever happens in between.                                            *)
(***************************************************************************)
EXTENDS Naturals

CONSTANTS Events, Valid

VARIABLES accepted, applied

Init == accepted = {} /\ applied = [e \in Events |-> 0]

Publish(e) == /\ accepted' = accepted \cup {e}
              /\ UNCHANGED applied

Apply(e) == /\ e \in accepted /\ applied[e] = 0
            /\ applied' = [applied EXCEPT ![e] = 1]
            /\ UNCHANGED accepted

Next == (\E e \in Events : Publish(e)) \/ (\E e \in Valid : Apply(e))

Spec == Init /\ [][Next]_<<accepted, applied>>
=============================================================================
