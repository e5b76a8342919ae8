---------------------------- MODULE MCRoomSession ----------------------------
(* Finite instances of RoomSession for TLC. *)
EXTENDS RoomSession, TLC

CONSTANTS s1, s2, a, b, u, v

\* One client, or two of different users.
OneTab   == s1 :> a
Solo     == a :> u
TwoTabs  == s1 :> a @@ s2 :> b
TwoUsers == a :> u @@ b :> v

\* Bound of the runs with two clients: commands, resets and departures.
Few == sent + resets + Cardinality(gone) <= 3

\* RoomState objects are alike, and so are two clients with a tab and a user
\* each.
SameObjects == Permutations(Objects)
Swap == s1 :> s2 @@ s2 :> s1 @@ a :> b @@ b :> a @@ u :> v @@ v :> u
SameClients == SameObjects \cup {Swap}
=============================================================================
