----------------------------- MODULE MCGateway -----------------------------
(***************************************************************************)
(* Small instances of Gateway: one area, or two that are not near each     *)
(* other; one or two workers; two or three requests of any kind.           *)
(***************************************************************************)
EXTENDS Gateway, TLC

MCAreas == {"north", "south"}
MCNear == {<<a, a>> : a \in MCAreas}

MCOneArea == {"north"}
MCOneNear == {<<"north", "north">>}

\* With and without a status besides those the store itself uses.
MCStatuses == {Fresh, "Rejected"}
MCAllStatuses == {Fresh, "Rejected", "Resolved"}

CONSTANTS q1, q2, q3
MCRequests == {q1, q2, q3}
MCTwoRequests == {q1, q2}

\* Requests are interchangeable until they are sent.
MCSymmetry == Permutations(MCRequests)
=============================================================================
