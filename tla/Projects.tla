------------------------------- MODULE Projects -------------------------------
(***************************************************************************)
(* The projects and teams of the Hub, in its SQL tables: requests that     *)
(* create projects and teams and invite members, any number at once.       *)
(*                                                                         *)
(* A project that is created without a team goes to the personal team of   *)
(* its owner, which the first such request makes: it looks the team up,    *)
(* and when there is none inserts the team, its owner as a member and the  *)
(* owner's row of personal_teams in one transaction, and then inserts the  *)
(* project outside of it.  Two first requests of one user meet at the      *)
(* primary key of personal_teams.                                          *)
(*                                                                         *)
(* Rows of an open transaction are seen by nobody else, so a transaction   *)
(* has its effect at its commit; what the primary key does to another one  *)
(* before that is the place "commit" of the one that has the key.  The     *)
(* random ids are distinct: a request's team and project have its name.    *)
(***************************************************************************)
EXTENDS FiniteSets

CONSTANTS
  Calls,   \* requests, each made once; and the ids they draw
  Users,
  Emails,
  Offered, \* the operations that are asked for
  Stray,   \* an id that is no team's
  None     \* the empty string, no row

(* What the service is called with; a name may be blank, and a role is any *)
(* text.                                                                   *)
TeamIds == Calls \union {Stray, None}
Texts == {"owner", "admin", "member", "", "other"}
Operations ==
  [kind : {"project"}, user : Users, named : BOOLEAN, team : TeamIds]
    \union [kind : {"team"}, user : Users, named : BOOLEAN]
    \union [kind : {"invite"}, user : Users \union {None},
            email : Emails \union {None}, team : TeamIds, role : Texts]

ASSUME ProjectsAssumption ==
  /\ None \notin Calls \union Users \union Emails \union Operations
  /\ None \notin Texts \union {"personal", "shared", "ok", "error"}
  /\ Stray \notin Calls \union {None}
  /\ Offered \subseteq Operations

(* Rows of team_members and of projects.                                   *)
Member ==
  [team : TeamIds, user : Users \union {None}, email : Emails \union {None},
   role : {"owner", "admin", "member"}]
Project == [team : TeamIds \ {None}, owner : Users]

VARIABLES
  team,     \* team[c]: the team c has made, "personal" or "shared", or None
  members,  \* the rows of team_members
  personal, \* personal_teams: the team of each user, or None
  project,  \* project[c]: the project c has made, or None
  at,       \* at[c]: where request c is
  op,       \* op[c]: what it asks for
  to,       \* to[c]: teamID, the team its project goes to
  late,     \* history: the user of c had a personal team when c came
  faulty    \* history: the requests with a failed statement

tables == <<team, members, personal, project>>
vars == <<tables, at, op, to, late, faulty>>

Running == {"select", "insertPersonal", "commit", "insertProject"}
Place == {"idle", "done", "failed", "killed"} \union Running

TypeOK ==
  /\ team \in [Calls -> {"personal", "shared", None}]
  /\ members \in SUBSET Member
  /\ personal \in [Users -> Calls \union {None}]
  /\ project \in [Calls -> Project \union {None}]
  /\ at \in [Calls -> Place]
  /\ op \in [Calls -> Offered \union {None}]
  /\ to \in [Calls -> TeamIds]
  /\ late \in SUBSET Calls /\ faulty \in SUBSET Calls
  /\ \A c \in Calls :
       /\ at[c] # "idle" => op[c] \in Offered
       /\ at[c] \in {"select", "insertPersonal", "insertProject"}
            => op[c].kind = "project"
       /\ at[c] = "insertProject" => to[c] # None

Init ==
  /\ team = [c \in Calls |-> None]
  /\ members = {}
  /\ personal = [u \in Users |-> None]
  /\ project = [c \in Calls |-> None]
  /\ at = [c \in Calls |-> "idle"]
  /\ op = [c \in Calls |-> None]
  /\ to = [c \in Calls |-> None]
  /\ late = {} /\ faulty = {}

Goto(c, place) == at' = [at EXCEPT ![c] = place]
NeedsPersonal(o) == o.kind = "project" /\ o.team = None

-----------------------------------------------------------------------------
(* The readers *)

IsMember(t, u) == \E m \in members : m.team = t /\ m.user = u

(* A join of projects and team_members: a team need not have a row.        *)
listProjectsDB(u, t) ==
  {c \in Calls : /\ project[c] # None
                 /\ t # None => project[c].team = t
                 /\ u # None => IsMember(project[c].team, u)}

listTeamsDB(u) == {c \in Calls : team[c] # None /\ (u # None => IsMember(c, u))}

-----------------------------------------------------------------------------
(* Requests *)

(* Mutant: no role is not made one.                                        *)
normalizeRoleKept(role) ==
  IF role = "other" THEN None ELSE role

normalizeRole(role) ==
  CASE role = "" -> "member"
    [] role = "other" -> None
    [] OTHER -> role

(* What CreateProject, CreateTeam, InviteMember and normalizeRole refuse.  *)
Accepted(o) ==
  IF o.kind = "invite"
  THEN /\ o.team # None
       /\ o.user # None \/ o.email # None
       /\ normalizeRole(o.role) # None
  ELSE o.named

FirstPlace(o) ==
  IF ~Accepted(o) THEN "failed"
  ELSE IF o.kind # "project" THEN "commit"
  ELSE IF o.team = None THEN "select" ELSE "insertProject"

(* A client names a team that is there, none, or an id of no team: the     *)
(* tables have no foreign keys and the service does not look it up.        *)
Known(o) ==
  o.kind # "team" /\ o.team \in Calls => team[o.team] # None

Request(c, o) ==
  /\ at[c] = "idle"
  /\ Known(o)
  /\ op' = [op EXCEPT ![c] = o]
  /\ Goto(c, FirstPlace(o))
  /\ to' = [to EXCEPT ![c] = IF o.kind = "project" THEN o.team ELSE None]
  /\ late' = IF NeedsPersonal(o) /\ personal[o.user] # None
             THEN late \union {c} ELSE late
  /\ UNCHANGED <<tables, faulty>>

(* Mutant: the answer of the SELECT is not used.                           *)
SelectPersonalIgnored(c) ==
  /\ at[c] = "select"
  /\ Goto(c, "insertPersonal")
  /\ UNCHANGED <<tables, op, to, late, faulty>>

(* The personal team is looked up; an error counts as no row.              *)
SelectPersonal(c) ==
  /\ at[c] = "select"
  /\ \/ /\ personal[op[c].user] # None
        /\ to' = [to EXCEPT ![c] = personal[op[c].user]]
        /\ Goto(c, "insertProject")
        /\ UNCHANGED faulty
     \/ /\ personal[op[c].user] = None
        /\ Goto(c, "insertPersonal")
        /\ UNCHANGED <<to, faulty>>
     \/ /\ Goto(c, "insertPersonal")
        /\ faulty' = faulty \union {c}
        /\ UNCHANGED to
  /\ UNCHANGED <<tables, op, late>>

(* Mutant: no Rollback is deferred, so a transaction that has failed keeps *)
(* the key that it took.                                                   *)
HoldingUnrolled(u) ==
  {c \in Calls : /\ at[c] = "commit" \/ (at[c] = "failed" /\ c \in faulty)
                 /\ NeedsPersonal(op[c]) /\ op[c].user = u /\ personal[u] = None}

(* The open transactions that have inserted the user's personal_teams row. *)
Holding(u) == {c \in Calls : at[c] = "commit" /\ NeedsPersonal(op[c]) /\ op[c].user = u}

Owner(c) == [team |-> c, user |-> op[c].user, email |-> None, role |-> "owner"]

(* Mutant: the INSERTs of the team and its member are run on s.db, outside *)
(* of the transaction.                                                     *)
InsertPersonalOutside(c) ==
  /\ at[c] = "insertPersonal"
  /\ Holding(op[c].user) = {}
  /\ Goto(c, IF personal[op[c].user] = None THEN "commit" ELSE "failed")
  /\ team' = [team EXCEPT ![c] = "personal"]
  /\ members' = members \union {Owner(c)}
  /\ UNCHANGED <<personal, project, op, to, late, faulty>>

(* The last INSERT of ensurePersonalTeamDB waits for a transaction that    *)
(* has the key, and fails when there is a row.                             *)
InsertPersonal(c) ==
  /\ at[c] = "insertPersonal"
  /\ Holding(op[c].user) = {}
  /\ Goto(c, IF personal[op[c].user] = None THEN "commit" ELSE "failed")
  /\ UNCHANGED <<tables, op, to, late, faulty>>

(* A statement or a commit succeeds, or its answer is lost.                *)
Answered(c, place) ==
  \/ Goto(c, place) /\ UNCHANGED faulty
  \/ Goto(c, "failed") /\ faulty' = faulty \union {c}

CommitPersonal(c) ==
  /\ at[c] = "commit" /\ op[c].kind = "project"
  /\ team' = [team EXCEPT ![c] = "personal"]
  /\ members' = members \union {Owner(c)}
  /\ personal' = [personal EXCEPT ![op[c].user] = c]
  /\ to' = [to EXCEPT ![c] = c]
  /\ Answered(c, "insertProject")
  /\ UNCHANGED <<project, op, late>>

createTeamDB(c) ==
  /\ at[c] = "commit" /\ op[c].kind = "team"
  /\ team' = [team EXCEPT ![c] = "shared"]
  /\ members' = members \union {Owner(c)}
  /\ Answered(c, "done")
  /\ UNCHANGED <<personal, project, op, to, late>>

Invited(o) ==
  [team |-> o.team, user |-> o.user, email |-> o.email, role |-> normalizeRole(o.role)]
SameKey(m, n) == m.team = n.team /\ m.user = n.user /\ m.email = n.email

(* Mutant: the DELETE does not compare the user.                           *)
inviteMemberByEmail(c) ==
  /\ at[c] = "commit" /\ op[c].kind = "invite"
  /\ members' = {m \in members : ~(m.team = op[c].team /\ m.email = op[c].email)}
                  \union {Invited(op[c])}
  /\ Answered(c, "done")
  /\ UNCHANGED <<team, personal, project, op, to, late>>

(* The row of this team, user and email is deleted and inserted again; the *)
(* role it had is replaced.  Of two such transactions that overlap the     *)
(* second one fails, as in StatementFails.                                 *)
inviteMemberDB(c) ==
  /\ at[c] = "commit" /\ op[c].kind = "invite"
  /\ members' = {m \in members : ~SameKey(m, Invited(op[c]))} \union {Invited(op[c])}
  /\ Answered(c, "done")
  /\ UNCHANGED <<team, personal, project, op, to, late>>

InsertProject(c) ==
  /\ at[c] = "insertProject"
  /\ project' = [project EXCEPT ![c] = [team |-> to[c], owner |-> op[c].user]]
  /\ Answered(c, "done")
  /\ UNCHANGED <<team, members, personal, op, to, late>>

(* A statement fails, or the client goes away and its context ends: the    *)
(* deferred Rollback ends the transaction.                                 *)
StatementFails(c) ==
  /\ at[c] \in Running \ {"select"}
  /\ Goto(c, "failed")
  /\ faulty' = faulty \union {c}
  /\ UNCHANGED <<tables, op, to, late>>

(* The Hub's process ends; the database rolls its transactions back.       *)
HubCrash ==
  /\ \E c \in Calls : at[c] \in Running
  /\ at' = [c \in Calls |-> IF at[c] \in Running THEN "killed" ELSE at[c]]
  /\ UNCHANGED <<tables, op, to, late, faulty>>

-----------------------------------------------------------------------------
Moves(c) ==
  \/ SelectPersonal(c) \/ InsertPersonal(c) \/ CommitPersonal(c)
  \/ createTeamDB(c) \/ inviteMemberDB(c) \/ InsertProject(c)

CallStep(c) == Moves(c) \/ StatementFails(c)

Next ==
  \/ \E c \in Calls : CallStep(c) \/ \E o \in Offered : Request(c, o)
  \/ HubCrash

(* The Go scheduler runs every goroutine, and the database executes a      *)
(* statement that nothing keeps waiting.  No statement has a timeout, so   *)
(* none is made to fail: who waits for a key waits until its holder ends.  *)
Spec == Init /\ [][Next]_vars /\ \A c \in Calls : WF_vars(Moves(c))

-----------------------------------------------------------------------------
(* Properties *)

(* A team made on demand is the personal team of the user it was made for: *)
(* no race, failure or crash leaves a second one, or one that nobody's     *)
(* later projects go to.                                                   *)
OnePersonalTeam ==
  \A c \in Calls : team[c] = "personal" => personal[op[c].user] = c

(* A project created without a team is in its owner's list, and its team   *)
(* in the list of teams, for ever: also when the request that made it was  *)
(* told that it failed, and whoever is invited with whatever role.         *)
CreatedIsListed ==
  \A c \in Calls :
    project[c] # None /\ NeedsPersonal(op[c]) =>
      /\ c \in listProjectsDB(project[c].owner, None)
      /\ project[c].team \in listTeamsDB(project[c].owner)

(* Where the database has not failed a creation is refused only when it    *)
(* met the user's first one: then there is a personal team and a retry,    *)
(* like every creation that comes later, succeeds.                         *)
LosesOnlyTheFirstRace ==
  \A c \in Calls :
    /\ at[c] = "failed" /\ c \notin faulty
    /\ op[c].kind = "project" /\ Accepted(op[c])
    => /\ NeedsPersonal(op[c])
       /\ personal[op[c].user] \notin {None, c}
       /\ c \notin late

(* The promise of ProjectsPromise, kept by the tables: a user belongs to a *)
(* team by any row of team_members, and a request that the end of the Hub  *)
(* has killed has, for its client, failed.                                 *)
Belongs == {e \in TeamIds \X Users : IsMember(e[1], e[2])}
AnswerAt(place) ==
  CASE place = "done" -> "ok"
    [] place \in {"failed", "killed"} -> "error"
    [] OTHER -> None

Promise == INSTANCE ProjectsPromise WITH
  asked <- op,
  answer <- [c \in Calls |-> AnswerAt(at[c])],
  home <- personal,
  belongs <- Belongs

KeepsItsPromise == Promise!Spec

(* Every request ends, also one that waits for another one's key, as the   *)
(* holder waits for nobody and releases the key however it ends.           *)
CallsEnd == \A c \in Calls : at[c] \in Running ~> at[c] \notin Running
===============================================================================
