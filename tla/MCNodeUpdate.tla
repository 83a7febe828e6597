---------------------------- MODULE MCNodeUpdate ----------------------------
(* NodeUpdate for TLC.                                                       *)
EXTENDS NodeUpdate

CONSTANTS n1, u1, u2, c1

OneNode == [u \in Updates |-> n1]

\* A node accepts its configuration, and applies it or fails to, perhaps before
\* it is asked; or it rejects it; or it is misread.
Lives == {<<"APPLICABLE", "APPLIED">>, <<"APPLICABLE", "ERROR">>, <<"ERROR">>, <<"malformed">>}

=============================================================================
