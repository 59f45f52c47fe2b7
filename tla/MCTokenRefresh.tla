-------------------------- MODULE MCTokenRefresh --------------------------
(***************************************************************************)
(* Instances of TokenRefresh for TLC.  Requests are numbers, and what they *)
(* are is listed in a fixed order, since requests that swap their numbers  *)
(* give the same behaviours.                                               *)
(***************************************************************************)
EXTENDS TokenRefresh

MCCalls == Requests \X Leg

Rank == [register |-> 1, login |-> 2, me |-> 3]

WishesInOrder ==
    \A r, q \in Requests : r < q =>
        /\ Rank[wish[r].op] <= Rank[wish[q].op]
        /\ wish[r].op = wish[q].op => wish[r].op # "login"

RightPasswords == \A r \in Requests : wish[r].op = "login" => wish[r].right

MCInit ==
    /\ Init
    /\ WishesInOrder
    /\ RightPasswords
    /\ now = 1
    /\ access # None => access.iat = 0

MCSpec == MCInit /\ [][Next]_vars /\ WF_vars(AppStep) /\ WF_vars(ServerStep)
=============================================================================
