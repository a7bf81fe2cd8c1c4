------------------------------- MODULE Faults -------------------------------
(* What may go wrong around the services of the collection pipeline.       *)
EXTENDS StreamGroup

CONSTANTS
    Replies,    \* which outcomes of a Redis or database call may happen
    MayCrash    \* whether replicas may crash
=============================================================================
