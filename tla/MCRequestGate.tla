--------------------------- MODULE MCRequestGate ---------------------------
(***************************************************************************)
(* Instances of RequestGate for TLC.  Requests are numbers; their kinds    *)
(* are listed in a fixed order, since requests that swap their numbers     *)
(* give the same behaviours.  There are at most two calls of a kind, one   *)
(* socket and one revocation, which comes with a token; streams and        *)
(* sockets come with the key, and so does the first of two blocking turns, *)
(* while a single or second one may also come with a token.                *)
(***************************************************************************)
EXTENDS RequestGate

Rank == [send |-> 1, stream |-> 2, socket |-> 3, revoke |-> 4]

CallsInOrder ==
    \A r, q \in Requests : r < q =>
        /\ Rank[call[r].kind] <= Rank[call[q].kind]
        /\ call[r].kind = call[q].kind =>
              call[r].kind \notin {"socket", "revoke"} /\ call[r].byKey

TwoOfAKind == \A k \in Kind : Cardinality({r \in Requests : call[r].kind = k}) <= 2

Credentials ==
    \A r \in Requests : /\ call[r].kind \in {"stream", "socket"} => call[r].byKey
                        /\ call[r].kind = "revoke" => ~call[r].byKey

MCInit == Init /\ CallsInOrder /\ TwoOfAKind /\ Credentials

MCSpec == MCInit /\ [][Next]_vars /\ \A r \in Requests : WF_vars(Serve(r))
=============================================================================
