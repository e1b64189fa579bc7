---------------------------- MODULE ProjectsProofs ----------------------------
(***************************************************************************)
(* That every user has one personal team and sees what goes to it, for any *)
(* number of requests, users and emails.                                   *)
(*                                                                         *)
(* At most one open transaction has a user's key, and only while the user  *)
(* has no row (KeyInv); so a commit never replaces a row, and the row's    *)
(* team keeps the user as a member through every invitation (TeamInv).     *)
(* Projects without a team follow the row (ProjectInv), and a creation     *)
(* that found the row at its start or in its SELECT does not try to make   *)
(* another one (RaceInv).  With that each commit, and each INSERT outside  *)
(* of a transaction, is a step of ProjectsPromise, and no other statement  *)
(* changes anything there.                                                 *)
(***************************************************************************)
EXTENDS Projects, Naturals, TLAPS

(* Which requests can be where.                                            *)
PlaceInv ==
  \A c \in Calls :
    /\ at[c] \in {"select", "insertPersonal"} => NeedsPersonal(op[c])
    /\ at[c] = "commit" /\ op[c].kind = "project" => NeedsPersonal(op[c])
    /\ at[c] \in Running => Accepted(op[c])
    /\ at[c] \in {"idle", "select", "insertPersonal", "commit"} => team[c] = None
    /\ project[c] # None => at[c] \notin Running \union {"idle"}
    /\ at[c] = "idle" => op[c] = None

KeyInv ==
  \A c, d \in Calls :
    at[c] = "commit" /\ NeedsPersonal(op[c]) =>
      /\ personal[op[c].user] = None
      /\ at[d] = "commit" /\ NeedsPersonal(op[d]) /\ op[d].user = op[c].user => c = d

TeamInv ==
  \A u \in Users : personal[u] # None =>
    /\ team[personal[u]] = "personal"
    /\ IsMember(personal[u], u)

ProjectInv ==
  \A c \in Calls :
    /\ at[c] = "insertProject" =>
         to[c] = IF NeedsPersonal(op[c]) THEN personal[op[c].user] ELSE op[c].team
    /\ project[c] # None =>
         /\ project[c].owner = op[c].user
         /\ NeedsPersonal(op[c]) => /\ project[c].team = personal[op[c].user]
                                    /\ personal[op[c].user] # None

RaceInv ==
  \A c \in late :
    /\ NeedsPersonal(op[c])
    /\ personal[op[c].user] # None
    /\ at[c] # "idle"
    /\ at[c] = "insertPersonal" => c \in faulty

ProjectsInv ==
  /\ TypeOK
  /\ PlaceInv /\ KeyInv /\ TeamInv /\ OnePersonalTeam
  /\ ProjectInv /\ RaceInv /\ LosesOnlyTheFirstRace

-----------------------------------------------------------------------------
(* The operations *)

(* The fields of an operation have the types of its kind.                  *)
LEMMA OperationFields ==
  ASSUME NEW o \in Operations
  PROVE  /\ o.kind \in {"project", "team", "invite"}
         /\ o.kind \in {"project", "team"} => o.user \in Users
         /\ o.kind = "project" => o.team \in TeamIds
         /\ o.kind = "invite" =>
              /\ o.user \in Users \union {None} /\ o.email \in Emails \union {None}
              /\ o.team \in TeamIds /\ o.role \in Texts
BY DEF Operations

(* An invitation that is accepted makes a row of the table.                *)
LEMMA InvitedIsAMember ==
  ASSUME NEW o \in Operations, o.kind = "invite", Accepted(o)
  PROVE  Invited(o) \in Member
<1>1. normalizeRole(o.role) \in {"owner", "admin", "member"}
  BY OperationFields, ProjectsAssumption DEF Accepted, normalizeRole, Texts
<1> QED BY <1>1, OperationFields DEF Invited, Member

(* The request of a running call is one of those that are offered.         *)
LEMMA RunningOperation ==
  ASSUME TypeOK, NEW c \in Calls, at[c] # "idle"
  PROVE  /\ op[c] \in Operations
         /\ op[c].kind \in {"project", "team", "invite"}
         /\ op[c].kind \in {"project", "team"} => op[c].user \in Users
BY OperationFields, ProjectsAssumption DEF TypeOK

LEMMA OwnerIsAMember ==
  ASSUME NEW c \in Calls, op[c].user \in Users
  PROVE  Owner(c) \in Member
BY DEF Owner, Member, TeamIds

-----------------------------------------------------------------------------
(* The steps *)

LEMMA RequestKeeps ==
  ASSUME ProjectsInv, NEW c \in Calls, NEW o \in Offered, Request(c, o)
  PROVE  ProjectsInv'
<1> USE ProjectsAssumption DEF ProjectsInv, Request, tables
<1>1. /\ o \in Operations /\ o # None /\ at[c] = "idle" /\ team[c] = None
      /\ project[c] = None /\ c \notin late
      /\ at' = [at EXCEPT ![c] = FirstPlace(o)]
  BY DEF TypeOK, PlaceInv, RaceInv, Goto
<1>2. /\ FirstPlace(o) \in {"failed", "commit", "select", "insertProject"}
      /\ FirstPlace(o) # "failed" => Accepted(o)
      /\ FirstPlace(o) = "failed" => ~Accepted(o)
      /\ FirstPlace(o) = "commit" => o.kind # "project"
      /\ FirstPlace(o) = "select" => NeedsPersonal(o)
      /\ FirstPlace(o) = "insertProject" => o.kind = "project" /\ o.team # None
  BY OperationFields, <1>1 DEF FirstPlace, NeedsPersonal
<1>3. TypeOK'
  <2>1. to' \in [Calls -> TeamIds]
    BY <1>1, OperationFields DEF TypeOK, TeamIds
  <2> QED BY <1>1, <1>2, <2>1 DEF TypeOK, Place, Running, NeedsPersonal
<1>4. PlaceInv'
  BY <1>1, <1>2 DEF TypeOK, PlaceInv, Running
<1>5. KeyInv'
  BY <1>1, <1>2 DEF TypeOK, KeyInv, NeedsPersonal
<1>6. TeamInv'
  BY DEF TeamInv, IsMember
<1>7. OnePersonalTeam'
  BY <1>1 DEF TypeOK, OnePersonalTeam
<1>8. ProjectInv'
  BY <1>1, <1>2 DEF TypeOK, ProjectInv, NeedsPersonal
<1>9. RaceInv'
  BY <1>1, <1>2 DEF TypeOK, RaceInv
<1>10. LosesOnlyTheFirstRace'
  <2>1. /\ op'[c] = o /\ at'[c] = FirstPlace(o)
        /\ \A d \in Calls \ {c} :
             op'[d] = op[d] /\ at'[d] = at[d] /\ (d \in late' <=> d \in late)
    BY <1>1 DEF TypeOK
  <2>2. UNCHANGED <<personal, faulty>>
    OBVIOUS
  <2> QED BY <1>2, <2>1, <2>2 DEF LosesOnlyTheFirstRace
<1> QED BY <1>3, <1>4, <1>5, <1>6, <1>7, <1>8, <1>9, <1>10

(* The steps that leave the tables alone.                                  *)
LEMMA WaitingStepKeeps ==
  ASSUME ProjectsInv, NEW c \in Calls,
         SelectPersonal(c) \/ InsertPersonal(c) \/ StatementFails(c)
  PROVE  ProjectsInv'
<1> USE ProjectsAssumption
    DEF ProjectsInv, TypeOK, PlaceInv, KeyInv, TeamInv, OnePersonalTeam, ProjectInv,
        RaceInv, LosesOnlyTheFirstRace, Goto, Place, Running, IsMember, tables
<1>1. CASE SelectPersonal(c)
  <2>1. op[c].user \in Users /\ NeedsPersonal(op[c]) /\ op[c].kind = "project"
    BY <1>1, RunningOperation DEF SelectPersonal
  <2>2. TypeOK'
    BY <1>1, <2>1 DEF SelectPersonal, TeamIds
  <2>3. PlaceInv' /\ KeyInv' /\ TeamInv' /\ OnePersonalTeam'
    BY <1>1, <2>1 DEF SelectPersonal
  <2>4. ProjectInv'
    BY <1>1, <2>1 DEF SelectPersonal
  <2>5. RaceInv' /\ LosesOnlyTheFirstRace'
    BY <1>1, <2>1 DEF SelectPersonal
  <2> QED BY <2>2, <2>3, <2>4, <2>5
<1>2. CASE InsertPersonal(c)
  <2>1. op[c].user \in Users /\ NeedsPersonal(op[c]) /\ op[c].kind = "project"
    BY <1>2, RunningOperation DEF InsertPersonal
  <2>2. TypeOK' /\ PlaceInv' /\ TeamInv' /\ OnePersonalTeam' /\ ProjectInv'
    BY <1>2, <2>1 DEF InsertPersonal
  <2>3. KeyInv'
    BY <1>2, <2>1 DEF InsertPersonal, Holding
  <2>4. RaceInv' /\ LosesOnlyTheFirstRace'
    BY <1>2, <2>1 DEF InsertPersonal
  <2> QED BY <2>2, <2>3, <2>4
<1>3. CASE StatementFails(c)
  <2>1. TypeOK' /\ PlaceInv' /\ KeyInv' /\ TeamInv' /\ OnePersonalTeam'
    BY <1>3 DEF StatementFails
  <2>2. ProjectInv' /\ RaceInv' /\ LosesOnlyTheFirstRace'
    BY <1>3 DEF StatementFails
  <2> QED BY <2>1, <2>2
<1> QED BY <1>1, <1>2, <1>3

(* The personal team appears with its member and its row; the user had     *)
(* none.                                                                   *)
LEMMA CommitPersonalKeeps ==
  ASSUME ProjectsInv, NEW c \in Calls, CommitPersonal(c)
  PROVE  ProjectsInv'
<1> USE ProjectsAssumption DEF ProjectsInv, CommitPersonal
<1>1. PICK u \in Users : u = op[c].user /\ op[c].kind = "project" /\ NeedsPersonal(op[c])
  BY RunningOperation DEF TypeOK, PlaceInv
<1>2. personal[u] = None /\ team[c] = None
  BY <1>1 DEF KeyInv, PlaceInv
<1>3. Owner(c) \in Member
  BY <1>1, OwnerIsAMember
<1>4. /\ at' \in [Calls -> Place] /\ faulty' \in SUBSET Calls
      /\ at'[c] \in {"insertProject", "failed"}
      /\ at'[c] = "failed" => c \in faulty'
      /\ \A d \in Calls \ {c} : at'[d] = at[d]
      /\ \A d \in Calls \ {c} : d \in faulty' <=> d \in faulty
  BY DEF TypeOK, Answered, Goto, Place, Running
<1>5. TypeOK'
  BY <1>1, <1>3, <1>4 DEF TypeOK, TeamIds
<1>6. PlaceInv'
  BY <1>1, <1>4 DEF TypeOK, PlaceInv, Running
<1>7. KeyInv'
  BY <1>1, <1>2, <1>4 DEF TypeOK, KeyInv
<1>8. TeamInv'
  <2>1. IsMember(c, u)'
    <3>1. Owner(c) \in members' /\ Owner(c).team = c /\ Owner(c).user = u
      BY <1>1 DEF Owner
    <3> QED BY <3>1 DEF IsMember
  <2>2. \A t \in Calls, v \in Users : IsMember(t, v) => IsMember(t, v)'
    BY DEF IsMember
  <2> QED BY <1>1, <1>2, <2>1, <2>2 DEF TypeOK, TeamInv
<1>9. OnePersonalTeam'
  BY <1>1, <1>2 DEF TypeOK, OnePersonalTeam
<1>10. ProjectInv'
  BY <1>1, <1>2, <1>4 DEF TypeOK, ProjectInv
<1>11. RaceInv'
  BY <1>1, <1>2, <1>4 DEF TypeOK, RaceInv
<1>12. LosesOnlyTheFirstRace'
  BY <1>1, <1>2, <1>4 DEF TypeOK, LosesOnlyTheFirstRace
<1> QED BY <1>5, <1>6, <1>7, <1>8, <1>9, <1>10, <1>11, <1>12

(* The steps that change members or projects and no personal team.         *)
LEMMA OtherCommitKeeps ==
  ASSUME ProjectsInv, NEW c \in Calls,
         createTeamDB(c) \/ inviteMemberDB(c) \/ InsertProject(c)
  PROVE  ProjectsInv'
<1> USE ProjectsAssumption DEF ProjectsInv
<1>1. /\ at' \in [Calls -> Place] /\ faulty' \in SUBSET Calls
      /\ at'[c] \in {"done", "failed"}
      /\ at'[c] = "failed" => c \in faulty'
      /\ at[c] \in {"commit", "insertProject"}
      /\ \A d \in Calls \ {c} : at'[d] = at[d]
      /\ \A d \in Calls \ {c} : d \in faulty' <=> d \in faulty
      /\ UNCHANGED <<personal, op, to, late>>
  BY DEF TypeOK, Answered, Goto, Place, Running, createTeamDB, inviteMemberDB,
     InsertProject
<1>2. op[c] \in Operations /\ op[c].kind \in {"project", "team"} => op[c].user \in Users
  BY <1>1, RunningOperation
<1>3. KeyInv'
  BY <1>1 DEF TypeOK, KeyInv
<1>4. RaceInv'
  BY <1>1 DEF TypeOK, RaceInv
<1>5. LosesOnlyTheFirstRace'
  BY <1>1 DEF TypeOK, LosesOnlyTheFirstRace
<1>6. CASE createTeamDB(c)
  <2> USE <1>6 DEF createTeamDB
  <2>1. Owner(c) \in Member
    BY <1>1, RunningOperation, OwnerIsAMember
  <2>2. TypeOK'
    BY <1>1, <2>1 DEF TypeOK
  <2>3. PlaceInv' /\ OnePersonalTeam'
    BY <1>1 DEF TypeOK, PlaceInv, OnePersonalTeam, Running
  <2>4. TeamInv'
    BY <1>1 DEF TypeOK, TeamInv, PlaceInv, IsMember
  <2>5. ProjectInv'
    BY <1>1 DEF TypeOK, ProjectInv
  <2> QED BY <1>3, <1>4, <1>5, <2>2, <2>3, <2>4, <2>5
<1>7. CASE inviteMemberDB(c)
  <2> USE <1>7 DEF inviteMemberDB
  <2>1. Invited(op[c]) \in Member
    BY <1>1, RunningOperation, InvitedIsAMember DEF PlaceInv, Running
  <2>2. TypeOK'
    BY <1>1, <2>1 DEF TypeOK
  <2>3. PlaceInv' /\ OnePersonalTeam'
    BY <1>1 DEF TypeOK, PlaceInv, OnePersonalTeam, Running
  <2>4. \A t \in Calls, u \in Users : IsMember(t, u) => IsMember(t, u)'
    BY DEF IsMember, SameKey, Invited
  <2>5. TeamInv'
    BY <1>1, <2>4 DEF TypeOK, TeamInv
  <2>6. ProjectInv'
    BY <1>1 DEF TypeOK, ProjectInv
  <2> QED BY <1>3, <1>4, <1>5, <2>2, <2>3, <2>5, <2>6
<1>8. CASE InsertProject(c)
  <2> USE <1>8 DEF InsertProject
  <2>1. /\ [team |-> to[c], owner |-> op[c].user] \in Project
        /\ op[c].kind = "project" /\ op[c].user \in Users
    BY <1>1, RunningOperation DEF TypeOK, Project
  <2>2. TypeOK'
    BY <1>1, <2>1 DEF TypeOK
  <2>3. PlaceInv' /\ OnePersonalTeam'
    BY <1>1 DEF TypeOK, PlaceInv, OnePersonalTeam, Running
  <2>4. TeamInv'
    BY <1>1 DEF TypeOK, TeamInv, IsMember
  <2>5. ProjectInv'
    BY <1>1, <2>1 DEF TypeOK, ProjectInv
  <2> QED BY <1>3, <1>4, <1>5, <2>2, <2>3, <2>4, <2>5
<1> QED BY <1>6, <1>7, <1>8

LEMMA Inductive == ProjectsInv /\ [Next]_vars => ProjectsInv'
<1> SUFFICES ASSUME ProjectsInv, [Next]_vars PROVE ProjectsInv'
  OBVIOUS
<1>1. ASSUME NEW c \in Calls, CallStep(c) PROVE ProjectsInv'
  BY <1>1, WaitingStepKeeps, CommitPersonalKeeps, OtherCommitKeeps DEF CallStep, Moves
<1>2. CASE HubCrash
  <2> USE <1>2 DEF HubCrash, ProjectsInv, TypeOK, Running, Place, tables
  <2>1. TypeOK' /\ PlaceInv' /\ KeyInv'
    BY DEF PlaceInv, KeyInv
  <2>2. TeamInv' /\ OnePersonalTeam' /\ ProjectInv'
    BY DEF TeamInv, OnePersonalTeam, ProjectInv, IsMember
  <2>3. RaceInv' /\ LosesOnlyTheFirstRace'
    BY DEF RaceInv, LosesOnlyTheFirstRace
  <2> QED BY <2>1, <2>2, <2>3
<1>3. CASE UNCHANGED vars
  <2> USE <1>3 DEF vars, tables, ProjectsInv
  <2>1. TypeOK' /\ PlaceInv' /\ KeyInv'
    BY DEF TypeOK, PlaceInv, KeyInv
  <2>2. TeamInv' /\ OnePersonalTeam' /\ ProjectInv'
    BY DEF TeamInv, OnePersonalTeam, ProjectInv, IsMember
  <2>3. RaceInv' /\ LosesOnlyTheFirstRace'
    BY DEF RaceInv, LosesOnlyTheFirstRace
  <2> QED BY <2>1, <2>2, <2>3
<1> QED BY <1>1, <1>2, <1>3, RequestKeeps DEF Next

LEMMA Initial == Init => ProjectsInv
<1> SUFFICES ASSUME Init PROVE ProjectsInv
  OBVIOUS
<1> USE ProjectsAssumption DEF Init, tables
<1>1. TypeOK
  BY DEF TypeOK, Place, TeamIds
<1>2. PlaceInv /\ KeyInv /\ TeamInv /\ OnePersonalTeam
  BY DEF PlaceInv, KeyInv, TeamInv, OnePersonalTeam, Running
<1>3. ProjectInv /\ RaceInv /\ LosesOnlyTheFirstRace
  BY DEF ProjectInv, RaceInv, LosesOnlyTheFirstRace
<1> QED BY <1>1, <1>2, <1>3 DEF ProjectsInv

-----------------------------------------------------------------------------
(* The promise *)

AnswerBar == [c \in Calls |-> AnswerAt(at[c])]

(* A request has its answer when it is over.                               *)
LEMMA Answers ==
  ASSUME NEW p \in Place
  PROVE  /\ AnswerAt(p) = None <=> p \in Running \union {"idle"}
         /\ p = "done" => AnswerAt(p) = "ok"
         /\ p \in {"failed", "killed"} => AnswerAt(p) = "error"
BY ProjectsAssumption DEF AnswerAt, Place, Running

LEMMA AnswerOfAStep ==
  ASSUME TypeOK, NEW c \in Calls, NEW p, Goto(c, p)
  PROVE  AnswerBar' = [AnswerBar EXCEPT ![c] = AnswerAt(p)]
BY DEF TypeOK, Goto, AnswerBar

(* A commit or a statement that may lose its answer.                       *)
LEMMA AnsweredIsAnswer ==
  ASSUME TypeOK, NEW c \in Calls, at[c] \in Running, NEW p \in Place, Answered(c, p)
  PROVE  /\ AnswerBar[c] = None
         /\ \E a \in {AnswerAt(p), "error"} : AnswerBar' = [AnswerBar EXCEPT ![c] = a]
<1>1. AnswerBar[c] = None
  BY Answers DEF TypeOK, AnswerBar
<1>2. AnswerAt("failed") = "error"
  BY Answers DEF Place
<1>3. PICK q \in {p, "failed"} : Goto(c, q)
  BY DEF Answered
<1>4. AnswerBar' = [AnswerBar EXCEPT ![c] = AnswerAt(q)]
  BY <1>3, AnswerOfAStep
<1> QED
  BY <1>1, <1>2, <1>3, <1>4

LEMMA OwnerBelongs ==
  ASSUME NEW c \in Calls, op[c].user \in Users, members' = members \union {Owner(c)}
  PROVE  Belongs' = Belongs \union {<<c, op[c].user>>}
<1>1. \A t \in TeamIds, u \in Users :
        IsMember(t, u)' <=> IsMember(t, u) \/ (t = c /\ u = op[c].user)
  <2>1. Owner(c).team = c /\ Owner(c).user = op[c].user /\ Owner(c) \in members'
    BY DEF Owner
  <2>2. \A m \in members' : m \in members \/ m = Owner(c)
    OBVIOUS
  <2> QED
    BY <2>1, <2>2, Zenon DEF IsMember
<1>2. c \in TeamIds
  BY DEF TeamIds
<1> QED
  BY <1>1, <1>2 DEF Belongs

LEMMA InvitedBelongs ==
  ASSUME ProjectsInv, NEW c \in Calls, inviteMemberDB(c)
  PROVE  Belongs' = Belongs \union ({<<op[c].team, op[c].user>>} \ {<<op[c].team, None>>})
<1>1. /\ op[c].team \in TeamIds /\ op[c].user \in Users \union {None}
      /\ None \notin Users
  BY RunningOperation, OperationFields, ProjectsAssumption DEF ProjectsInv, inviteMemberDB
<1>2. \A t \in TeamIds, u \in Users :
        IsMember(t, u)' <=> IsMember(t, u) \/ (t = op[c].team /\ u = op[c].user)
  <2> DEFINE m0 == Invited(op[c])
  <2>1. m0.team = op[c].team /\ m0.user = op[c].user /\ m0 \in members'
    BY DEF inviteMemberDB, Invited
  <2>2. \A m \in members' : m \in members \/ m = m0
    BY DEF inviteMemberDB
  <2>3. \A m \in members : m \in members' \/ (m.team = m0.team /\ m.user = m0.user)
    BY DEF inviteMemberDB, SameKey
  <2> HIDE DEF m0
  <2> QED
    BY <2>1, <2>2, <2>3 DEF IsMember
<1> QED
  BY <1>1, <1>2 DEF Belongs

LEMMA PromiseInit == Init => Promise!Init
<1> SUFFICES ASSUME Init PROVE Promise!Init
  OBVIOUS
<1>1. \A c \in Calls : AnswerAt(at[c]) = None
  BY Answers DEF Init, Place
<1>2. Belongs = {}
  BY DEF Init, Belongs, IsMember
<1> QED
  BY <1>1, <1>2 DEF Init, Promise!Init

LEMMA RequestKeepsPromise ==
  ASSUME ProjectsInv, NEW c \in Calls, NEW o \in Offered, Request(c, o)
  PROVE  Promise!Next
<1>1. FirstPlace(o) \in Running \union {"failed"} /\ at[c] = "idle"
  BY DEF FirstPlace, Request, Running
<1>2. AnswerAt(FirstPlace(o)) \in {None, "error"}
  BY <1>1, Answers DEF Place
<1>3. AnswerBar' = [AnswerBar EXCEPT ![c] = AnswerAt(FirstPlace(o))]
  BY AnswerOfAStep DEF Request, ProjectsInv
<1>4. op[c] = None
  BY <1>1 DEF ProjectsInv, PlaceInv
<1>5. UNCHANGED <<team, personal, Belongs, project>>
  BY DEF Request, tables, Belongs, IsMember
<1>6. Promise!Ask(c, o)
  BY <1>2, <1>3, <1>4, <1>5 DEF Promise!Ask, Promise!Answer, AnswerBar, Request
<1> QED
  BY <1>6 DEF Promise!Next

LEMMA StepKeepsPromise ==
  ASSUME ProjectsInv, NEW c \in Calls, CallStep(c)
  PROVE  Promise!Next \/ UNCHANGED Promise!vars
<1>1. /\ at[c] \in Running /\ op[c] \in Operations /\ op[c] # None
      /\ op[c].kind \in {"project", "team"} => op[c].user \in Users
      /\ UNCHANGED op
  BY RunningOperation, ProjectsAssumption
     DEF CallStep, Moves, ProjectsInv, Running, SelectPersonal, InsertPersonal, CommitPersonal,
         createTeamDB, inviteMemberDB, InsertProject, StatementFails
<1>2. AnswerBar[c] = None
  BY <1>1, Answers DEF ProjectsInv, TypeOK, AnswerBar
<1>3. ASSUME NEW p \in {"insertPersonal", "insertProject", "commit"}, Goto(c, p),
             UNCHANGED tables
      PROVE  UNCHANGED Promise!vars
  <2>1. AnswerBar' = AnswerBar
    <3>1. AnswerAt(p) = None
      BY <1>3, Answers DEF Place, Running
    <3>2. AnswerBar' = [AnswerBar EXCEPT ![c] = AnswerAt(p)]
      BY <1>3, AnswerOfAStep DEF ProjectsInv
    <3> QED
      BY <1>2, <3>1, <3>2 DEF AnswerBar
  <2> QED
    BY <1>1, <1>3, <2>1 DEF Promise!vars, AnswerBar, tables, Belongs, IsMember
<1>4. ASSUME Goto(c, "failed"), UNCHANGED tables
      PROVE  Promise!Next
  <2>1. AnswerBar' = [d \in Calls |-> IF d \in {c} THEN "error" ELSE AnswerBar[d]]
    <3>1. AnswerAt("failed") = "error"
      BY Answers DEF Place
    <3>2. AnswerBar' = [AnswerBar EXCEPT ![c] = AnswerAt("failed")]
      BY <1>4, AnswerOfAStep DEF ProjectsInv
    <3> QED
      BY <3>1, <3>2 DEF AnswerBar
  <2>2. Promise!Fail({c})
    BY <1>1, <1>2, <1>4, <2>1 DEF Promise!Fail, AnswerBar, tables, Belongs, IsMember
  <2> QED
    BY <2>2 DEF Promise!Next
<1>5. CASE SelectPersonal(c)
  BY <1>3, <1>5 DEF SelectPersonal
<1>6. CASE InsertPersonal(c)
  BY <1>3, <1>4, <1>6 DEF InsertPersonal
<1>7. CASE StatementFails(c)
  BY <1>4, <1>7 DEF StatementFails
<1>8. CASE CommitPersonal(c)
  <2> USE <1>8 DEF CommitPersonal
  <2>1. /\ op[c].team = None /\ personal[op[c].user] = None /\ team[c] = None
    BY <1>1 DEF ProjectsInv, PlaceInv, KeyInv, NeedsPersonal
  <2>2. \E a \in {None, "error"} : AnswerBar' = [AnswerBar EXCEPT ![c] = a]
    BY <1>1, Answers, AnsweredIsAnswer DEF ProjectsInv, Place, Running
  <2>3. Belongs' = Belongs \union {<<c, op[c].user>>}
    BY <1>1, OwnerBelongs
  <2>4. Promise!MakeHome(c)
    BY <1>1, <1>2, <2>1, <2>2, <2>3
       DEF Promise!MakeHome, Promise!Pending, Promise!Answer, AnswerBar
  <2> QED
    BY <2>4 DEF Promise!Next
<1>9. CASE createTeamDB(c)
  <2> USE <1>9 DEF createTeamDB
  <2>1. team[c] = None
    BY DEF ProjectsInv, PlaceInv
  <2>2. \E a \in {"ok", "error"} : AnswerBar' = [AnswerBar EXCEPT ![c] = a]
    BY <1>1, Answers, AnsweredIsAnswer DEF ProjectsInv, Place, Running
  <2>3. Belongs' = Belongs \union {<<c, op[c].user>>}
    BY <1>1, OwnerBelongs
  <2>4. Promise!MakeTeam(c)
    BY <1>1, <1>2, <2>1, <2>2, <2>3
       DEF Promise!MakeTeam, Promise!Pending, Promise!Answer, AnswerBar
  <2> QED
    BY <2>4 DEF Promise!Next
<1>10. CASE inviteMemberDB(c)
  <2> USE <1>10 DEF inviteMemberDB
  <2>1. \E a \in {"ok", "error"} : AnswerBar' = [AnswerBar EXCEPT ![c] = a]
    BY <1>1, Answers, AnsweredIsAnswer DEF ProjectsInv, Place, Running
  <2>2. Promise!Invite(c)
    BY <1>1, <1>2, <2>1, InvitedBelongs
       DEF Promise!Invite, Promise!Pending, Promise!Answer, AnswerBar
  <2> QED
    BY <2>2 DEF Promise!Next
<1>11. CASE InsertProject(c)
  <2> USE <1>11 DEF InsertProject
  <2>1. op[c].kind = "project" /\ project[c] = None /\ to[c] # None
    BY <1>1 DEF ProjectsInv, TypeOK, PlaceInv
  <2>2. /\ to[c] \in {op[c].team, personal[op[c].user]}
        /\ op[c].team \in {None, to[c]}
    BY <1>1, <2>1 DEF ProjectsInv, ProjectInv, NeedsPersonal
  <2>3. \E a \in {"ok", "error"} : AnswerBar' = [AnswerBar EXCEPT ![c] = a]
    BY <1>1, Answers, AnsweredIsAnswer DEF ProjectsInv, Place, Running
  <2>4. Belongs' = Belongs
    BY DEF Belongs, IsMember
  <2>5. Promise!MakeProject(c)
    BY <1>1, <1>2, <2>1, <2>2, <2>3, <2>4
       DEF Promise!MakeProject, Promise!Pending, Promise!Answer, AnswerBar
  <2> QED
    BY <2>5 DEF Promise!Next
<1> QED
  BY <1>5, <1>6, <1>7, <1>8, <1>9, <1>10, <1>11 DEF CallStep, Moves

LEMMA PromiseStep == ProjectsInv /\ [Next]_vars => [Promise!Next]_Promise!vars
<1> SUFFICES ASSUME ProjectsInv, [Next]_vars
             PROVE  Promise!Next \/ UNCHANGED Promise!vars
  OBVIOUS
<1>1. CASE HubCrash
  <2> DEFINE killed == {c \in Calls : at[c] \in Running}
  <2>1. \A c \in killed : op[c] # None /\ AnswerBar[c] = None
    BY RunningOperation, Answers, ProjectsAssumption
       DEF ProjectsInv, TypeOK, AnswerBar, Running
  <2>2. AnswerBar' = [c \in Calls |-> IF c \in killed THEN "error" ELSE AnswerBar[c]]
    BY <1>1, Answers DEF HubCrash, AnswerBar, Place
  <2>3. Promise!Fail(killed)
    BY <1>1, <2>1, <2>2 DEF HubCrash, Promise!Fail, AnswerBar, tables, Belongs, IsMember
  <2> QED
    BY <2>3 DEF Promise!Next
<1>2. CASE UNCHANGED vars
  BY <1>2 DEF vars, tables, Promise!vars, Belongs, IsMember
<1> QED
  BY <1>1, <1>2, RequestKeepsPromise, StepKeepsPromise DEF Next

-----------------------------------------------------------------------------
(* The theorems *)

(* The tables and the requests keep their types.                           *)
THEOREM TypeCorrect == Spec => []TypeOK
<1>1. ProjectsInv => TypeOK
  BY DEF ProjectsInv
<1> QED BY <1>1, Initial, Inductive, PTL DEF Spec

(* No race, failure or crash leaves a second personal team of a user.      *)
THEOREM PersonalTeamIsOne == Spec => []OnePersonalTeam
<1>1. ProjectsInv => OnePersonalTeam
  BY DEF ProjectsInv
<1> QED BY <1>1, Initial, Inductive, PTL DEF Spec

(* A project created without a team stays in its owner's list.             *)
THEOREM CreatedStaysListed == Spec => []CreatedIsListed
<1>1. ProjectsInv => CreatedIsListed
  <2> SUFFICES ASSUME ProjectsInv, NEW c \in Calls,
                      project[c] # None, NeedsPersonal(op[c])
               PROVE  /\ c \in listProjectsDB(project[c].owner, None)
                      /\ project[c].team \in listTeamsDB(project[c].owner)
    BY DEF CreatedIsListed
  <2>1. PICK u \in Users : u = op[c].user
    BY RunningOperation DEF ProjectsInv, PlaceInv, NeedsPersonal
  <2>2. /\ project[c].owner = u /\ project[c].team = personal[u] /\ personal[u] # None
    BY <2>1 DEF ProjectsInv, ProjectInv
  <2>3. personal[u] \in Calls /\ team[personal[u]] = "personal" /\ IsMember(personal[u], u)
    BY <2>1, <2>2 DEF ProjectsInv, TypeOK, TeamInv
  <2> QED BY <2>2, <2>3, ProjectsAssumption DEF listProjectsDB, listTeamsDB
<1> QED BY <1>1, Initial, Inductive, PTL DEF Spec

(* Without a fault of the database only the race of first creations fails. *)
THEOREM OnlyFirstRaceLoses == Spec => []LosesOnlyTheFirstRace
<1>1. ProjectsInv => LosesOnlyTheFirstRace
  BY DEF ProjectsInv
<1> QED BY <1>1, Initial, Inductive, PTL DEF Spec

(* The tables keep the promise of ProjectsPromise: each request takes      *)
(* effect at one moment, and what was made or given stays.                 *)
THEOREM PromiseKept == Spec => KeepsItsPromise
BY PromiseInit, PromiseStep, Initial, Inductive, PTL
   DEF Spec, KeepsItsPromise, Promise!Spec

(* Every step of a request takes it nearer to its end, by one of at most   *)
(* four, also of one that has lost the race for the key; no step of        *)
(* anybody else takes it back.                                             *)
StepsLeft(place) ==
  CASE place = "select" -> 4
    [] place = "insertPersonal" -> 3
    [] place = "commit" -> 2
    [] place = "insertProject" -> 1
    [] OTHER -> 0
CallsMoveOn ==
  \A c \in Calls : at[c] \in Running =>
    /\ CallStep(c) => StepsLeft(at'[c]) < StepsLeft(at[c])
    /\ at'[c] # at[c] => StepsLeft(at'[c]) < StepsLeft(at[c])

(* No request of the service goes round in circles.                        *)
THEOREM RequestsMoveOn == Spec => [][CallsMoveOn]_vars
<1>1. TypeOK /\ [Next]_vars => [CallsMoveOn]_vars
  <2> SUFFICES ASSUME TypeOK, Next, NEW c \in Calls, at[c] \in Running
               PROVE  /\ CallStep(c) => StepsLeft(at'[c]) < StepsLeft(at[c])
                      /\ at'[c] # at[c] => StepsLeft(at'[c]) < StepsLeft(at[c])
    BY DEF CallsMoveOn
  <2> USE DEF TypeOK, Running, Goto, StepsLeft
  <2>1. CallStep(c) => StepsLeft(at'[c]) < StepsLeft(at[c])
    BY DEF CallStep, Moves, SelectPersonal, InsertPersonal, CommitPersonal, createTeamDB,
       inviteMemberDB, InsertProject, StatementFails, Answered
  <2>2. ASSUME at'[c] # at[c] PROVE CallStep(c) \/ at'[c] = "killed"
    <3>1. HubCrash => at'[c] = "killed"
      BY <2>2 DEF HubCrash
    <3>2. \A d \in Calls, o \in Offered : ~Request(d, o)
      BY <2>2 DEF Request
    <3>3. \A d \in Calls \ {c} : ~CallStep(d)
      BY <2>2 DEF CallStep, Moves, SelectPersonal, InsertPersonal, CommitPersonal, createTeamDB,
         inviteMemberDB, InsertProject, StatementFails, Answered
    <3> QED
      BY <3>1, <3>2, <3>3 DEF Next
  <2> QED
    BY <2>1, <2>2
<1>2. ProjectsInv => TypeOK
  BY DEF ProjectsInv
<1> QED BY <1>1, <1>2, Initial, Inductive, PTL DEF Spec
===============================================================================
