--------------------------- MODULE ProjectsPromise ---------------------------
(***************************************************************************)
(* What the Hub promises to those who create projects and teams and invite *)
(* members, without statements, transactions, keys or crashes:             *)
(*                                                                         *)
(*   - what a request asks for happens at one moment and whole, at most    *)
(*     once, and not after its answer; if the answer is "ok" it has        *)
(*     happened, after an "error" it may have;                             *)
(*   - a user gets one home, the team of all the projects created without  *)
(*     a team, with the first of them and for good;                        *)
(*   - who belongs to a team belongs to it for good.                       *)
(*                                                                         *)
(* Projects implements this specification.                                 *)
(***************************************************************************)
CONSTANTS Calls, Users, Offered, None

VARIABLES
  asked,   \* asked[c]: what request c asks for, or None
  answer,  \* answer[c]: "ok", "error" or, till it is answered, None
  team,    \* team[c]: the team that c has made, "personal" or "shared", or None
  home,    \* home[u]: the personal team of the user, or None
  belongs, \* <<team, user>>: the user is a member of the team
  project  \* project[c]: the project that c has made, or None

vars == <<asked, answer, team, home, belongs, project>>

Init ==
  /\ asked = [c \in Calls |-> None]
  /\ answer = [c \in Calls |-> None]
  /\ team = [c \in Calls |-> None]
  /\ home = [u \in Users |-> None]
  /\ belongs = {}
  /\ project = [c \in Calls |-> None]

Pending(c, kind) == asked[c] # None /\ asked[c].kind = kind /\ answer[c] = None
Answer(c, answers) == \E a \in answers : answer' = [answer EXCEPT ![c] = a]

(* A request may be refused at once.                                       *)
Ask(c, o) ==
  /\ asked[c] = None
  /\ asked' = [asked EXCEPT ![c] = o]
  /\ Answer(c, {None, "error"})
  /\ UNCHANGED <<team, home, belongs, project>>

(* A team is there with its owner in it; a home is made once, for a        *)
(* project that has no team.                                               *)
MakeHome(c) ==
  /\ Pending(c, "project") /\ asked[c].team = None
  /\ home[asked[c].user] = None /\ team[c] = None
  /\ home' = [home EXCEPT ![asked[c].user] = c]
  /\ team' = [team EXCEPT ![c] = "personal"]
  /\ belongs' = belongs \union {<<c, asked[c].user>>}
  /\ Answer(c, {None, "error"})
  /\ UNCHANGED <<asked, project>>

MakeTeam(c) ==
  /\ Pending(c, "team") /\ team[c] = None
  /\ team' = [team EXCEPT ![c] = "shared"]
  /\ belongs' = belongs \union {<<c, asked[c].user>>}
  /\ Answer(c, {"ok", "error"})
  /\ UNCHANGED <<asked, home, project>>

MakeProject(c) ==
  /\ Pending(c, "project") /\ project[c] = None
  /\ \E t \in {asked[c].team, home[asked[c].user]} \ {None} :
       /\ asked[c].team \in {None, t}
       /\ project' = [project EXCEPT ![c] = [team |-> t, owner |-> asked[c].user]]
  /\ Answer(c, {"ok", "error"})
  /\ UNCHANGED <<asked, team, home, belongs>>

(* An invitation by email alone makes nobody a member yet.                 *)
Invite(c) ==
  /\ Pending(c, "invite")
  /\ belongs' = belongs \union ({<<asked[c].team, asked[c].user>>} \ {<<asked[c].team, None>>})
  /\ Answer(c, {"ok", "error"})
  /\ UNCHANGED <<asked, team, home, project>>

(* Requests end with nothing more done.                                    *)
Fail(failed) ==
  /\ \A c \in failed : asked[c] # None /\ answer[c] = None
  /\ answer' = [c \in Calls |-> IF c \in failed THEN "error" ELSE answer[c]]
  /\ UNCHANGED <<asked, team, home, belongs, project>>

Next ==
  \/ \E c \in Calls : \/ \E o \in Offered : Ask(c, o)
                      \/ MakeHome(c) \/ MakeTeam(c) \/ MakeProject(c) \/ Invite(c)
  \/ \E failed \in SUBSET Calls : Fail(failed)

Spec == Init /\ [][Next]_vars
=============================================================================
