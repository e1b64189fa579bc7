------------------------------ MODULE MCProjects ------------------------------
(* Projects with three requests of two users: two first creations race, or *)
(* a creation meets a team and an invitation, of the owner or of another   *)
(* user, with and without an email.                                        *)
EXTENDS Projects, TLC

CONSTANTS c1, c2, c3, u1, u2, e1

Creation(u, t) == [kind |-> "project", user |-> u, named |-> TRUE, team |-> t]
Invitation(u, e, t, r) ==
  [kind |-> "invite", user |-> u, email |-> e, team |-> t, role |-> r]

MCOffered ==
  {Creation(u1, None), Creation(u2, None), Creation(u1, Stray), Creation(u2, c1),
   [kind |-> "project", user |-> u1, named |-> FALSE, team |-> None],
   [kind |-> "team", user |-> u1, named |-> TRUE],
   Invitation(u1, None, c1, "member"), Invitation(u2, None, c1, ""),
   Invitation(u2, e1, c2, "admin"), Invitation(None, e1, c1, "other")}
===============================================================================
