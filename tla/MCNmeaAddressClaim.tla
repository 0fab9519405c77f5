------------------------- MODULE MCNmeaAddressClaim -------------------------
(***************************************************************************)
(* Instances of NmeaAddressClaim for TLC.  Two nodes and two addresses are *)
(* enough for a node to win, to lose, to move on and to end up without an  *)
(* address; a third node is needed for one to lose to the second and win   *)
(* from the third before it has looked.                                    *)
(***************************************************************************)
EXTENDS NmeaAddressClaim

MCNode2 == {1, 2}
MCNode3 == {1, 2, 3}
MCname2 == <<1, 2>>
MCname3 == <<1, 2, 3>>
MCPreferred == {0, 1}

\* The contest of three alone: no requests, and nobody restarts.
MCContest == \E n \in Node : NsmPoll(n) \/ RecvClaim(n)
MCContestSpec == Init /\ [][MCContest]_vars /\ Fairness

=============================================================================
