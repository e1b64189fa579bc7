--------------------------- MODULE AutoCrudProofs ---------------------------
(***************************************************************************)
(* Proofs about AutoCrud, for every table, set of users and configuration. *)
(*                                                                         *)
(* Everything rests on one lemma: a caller who has an operation only as an *)
(* owner reaches, through any where clause of conditions on columns,       *)
(* nothing but its own rows.  A select carries the filter from the listing *)
(* of the columns to its statement, so SentInv says what each waiting      *)
(* statement holds; it is inductive because only a restart changes the     *)
(* configuration, and drops them.                                          *)
(***************************************************************************)
EXTENDS AutoCrud, TLAPS

(* The filter wins over the caller's clause, so a row that an owner's      *)
(* statement finds is the owner's, in whatever spelling the clause names   *)
(* columns.                                                                *)
LEMMA FilterWins ==
  ASSUME NEW u, NEW op, NEW where, ByOwnership(u, op),
         NEW found \in buildWhereClause(applyRLSFilter(where, rlsFilter(u, op))),
         ~HasText(DOMAIN where)
  PROVE  \A i \in found : rows[i][OwnerColumn] = u.id
<1> DEFINE w == applyRLSFilter(where, rlsFilter(u, op))
<1>1. /\ DOMAIN w = DOMAIN where \union {OwnerColumn}
      /\ w[OwnerColumn] = u.id
  BY DEF applyRLSFilter, rlsFilter
<1>2. ~HasText(DOMAIN w)
  BY <1>1, CrudAssumption DEF HasText, Spellings
<1>3. found = {i \in Present : \A n \in DOMAIN w : rows[i][Column(n)] = w[n]}
  BY <1>2 DEF buildWhereClause
<1>4. Column(OwnerColumn) = OwnerColumn
  BY CrudAssumption DEF Column
<1> QED BY <1>1, <1>3, <1>4

(* The final where clause is a clause.                                     *)
LEMMA FilterType ==
  ASSUME NEW u \in Callers, NEW op, NEW where \in Wheres
  PROVE  applyRLSFilter(where, rlsFilter(u, op)) \in Clause(Names)
<1>1. PICK S \in SUBSET Names : where \in [S -> Values]
  BY CrudAssumption DEF Clause
<1>2. ByOwnership(u, op) => u.id \in Values
  BY CrudAssumption DEF ByOwnership, Callers
<1>3. DOMAIN rlsFilter(u, op) \subseteq Names
  BY CrudAssumption DEF rlsFilter, Names, Spellings
<1>4. \A c \in DOMAIN rlsFilter(u, op) : rlsFilter(u, op)[c] \in Values
  BY <1>2 DEF rlsFilter
<1>5. applyRLSFilter(where, rlsFilter(u, op))
        \in [S \union DOMAIN rlsFilter(u, op) -> Values]
  BY <1>1, <1>4 DEF applyRLSFilter
<1>6. S \union DOMAIN rlsFilter(u, op) \in SUBSET Names
  BY <1>1, <1>3
<1> QED BY <1>5, <1>6 DEF Clause

(* What a where clause finds is there.                                     *)
LEMMA FoundArePresent ==
  ASSUME NEW where, NEW found \in buildWhereClause(where)
  PROVE  found \subseteq Present
BY DEF buildWhereClause

(* An assignment gives columns values, and data that names columns like    *)
(* the catalog assigns no others.                                          *)
LEMMA AssignmentType ==
  ASSUME NEW data \in Data, NEW a \in Assignments(data)
  PROVE  /\ \A c \in DOMAIN a : a[c] \in Values
         /\ DOMAIN data \subseteq Columns => DOMAIN a = DOMAIN data
<1>1. PICK N \in SUBSET Names : data \in [N -> Values]
  BY CrudAssumption DEF Clause
<1>2. DOMAIN data = N /\ \A n \in N : data[n] \in Values
  BY <1>1
<1>3. CASE HasText(DOMAIN data)
  <2>1. PICK S \in SUBSET Columns : a \in [S -> {data[n] : n \in N}]
    BY <1>2, <1>3 DEF Assignments
  <2>2. ~(DOMAIN data \subseteq Columns)
    BY <1>3, CrudAssumption DEF HasText, Spellings
  <2> QED BY <1>2, <2>1, <2>2
<1>4. CASE ~HasText(DOMAIN data)
  <2>1. a \in [{Column(n) : n \in N \ {Star}} -> Values] /\ Star \notin N
    BY <1>2, <1>4 DEF Assignments
  <2>2. \A n \in Columns : Column(n) = n
    BY DEF Column
  <2> QED BY <1>2, <2>1, <2>2
<1> QED BY <1>3, <1>4

(* A row with an assignment is a row.                                      *)
LEMMA AssignedType ==
  ASSUME NEW data \in Data, NEW a \in Assignments(data), NEW row \in Rows \union {Absent}
  PROVE  Assigned(row, a) \in Rows
<1>1. \A c \in DOMAIN a : a[c] \in Cells
  BY AssignmentType DEF Cells
<1>2. Initially \in [Columns -> Cells] /\ (row # Absent => row \in [Columns -> Cells])
  BY CrudAssumption DEF Rows
<1> QED BY <1>1, <1>2 DEF Assigned, Rows

-----------------------------------------------------------------------------
(* Types *)

LEMMA AnswerType ==
  ASSUME NEW u \in Callers, NEW op \in Operations, NEW found \in SUBSET Ids,
         NEW where, NEW data, Answer(u, op, found, where, data)
  PROVE  wrote' \in Writes /\ config' = config /\ sent' = sent
BY DEF Answer, Writes, HasText

LEMMA TypeInductive == TypeOK /\ [Next]_vars => TypeOK'
<1> SUFFICES ASSUME TypeOK, [Next]_vars PROVE TypeOK'
  OBVIOUS
<1> USE DEF TypeOK
<1>1. CASE UNCHANGED vars
  BY <1>1 DEF vars
<1>2. ASSUME NEW u \in Callers, NEW where \in Wheres, NEW q \in Requests,
             NEW requested \in Lists, ListColumns(q, u, where, requested)
      PROVE  TypeOK'
  <2>1. applyRLSFilter(where, rlsFilter(u, "select")) \in Clause(Names)
    BY FilterType
  <2>2. filterColumns(u, requested) \in SUBSET Names
    BY CrudAssumption DEF filterColumns, Names, Spellings
  <2>3. sent' \in [Requests -> Statements \union {Idle}]
    BY <1>2, <2>1, <2>2 DEF ListColumns, Statements
  <2> QED BY <1>2, <2>3 DEF ListColumns
<1>3. ASSUME NEW u \in Callers, NEW where, NEW data \in Data,
             handleCRUDUpdate(u, where, data)
      PROVE  TypeOK'
  <2>1. PICK found \in SUBSET Present, a \in Assignments(data) :
          /\ rows' = [i \in Ids |-> IF i \in found THEN Assigned(rows[i], a) ELSE rows[i]]
          /\ Answer(u, "update", found, where, data)
    BY <1>3, Zenon DEF handleCRUDUpdate
  <2>2. wrote' \in Writes /\ config' = config /\ sent' = sent
    BY <2>1, AnswerType DEF Operations, Present
  <2>3. rows' \in [Ids -> Rows \union {Absent}]
    BY <2>1, AssignedType
  <2> QED BY <2>2, <2>3
<1>4. ASSUME NEW u \in Callers, NEW where \in Wheres, handleCRUDDelete(u, where)
      PROVE  TypeOK'
  <2>1. PICK found \in buildWhereClause(applyRLSFilter(where, rlsFilter(u, "delete"))) :
          /\ rows' = [i \in Ids |-> IF i \in found THEN Absent ELSE rows[i]]
          /\ Answer(u, "delete", found, where, NoClause)
    BY <1>4, Zenon DEF handleCRUDDelete
  <2>2. found \in SUBSET Ids
    BY FoundArePresent DEF Present
  <2>3. wrote' \in Writes /\ config' = config /\ sent' = sent
    BY <2>1, <2>2, AnswerType DEF Operations
  <2> QED BY <2>1, <2>3
<1>5. ASSUME NEW u \in Callers, NEW data \in Data, handleCRUDInsert(u, data)
      PROVE  TypeOK'
  <2>1. PICK found \in SUBSET Ids, a \in Assignments(data) :
          /\ rows' = [i \in Ids |-> IF i \in found THEN Assigned(rows[i], a) ELSE rows[i]]
          /\ Answer(u, "insert", found, NoClause, data)
    BY <1>5, Zenon DEF handleCRUDInsert
  <2>2. wrote' \in Writes /\ config' = config /\ sent' = sent
    BY <2>1, AnswerType DEF Operations
  <2>3. rows' \in [Ids -> Rows \union {Absent}]
    BY <2>1, AssignedType
  <2> QED BY <2>2, <2>3
<1>6. ASSUME NEW q \in Requests, handleCRUDSelect(q) PROVE TypeOK'
  BY <1>6 DEF handleCRUDSelect
<1>7. CASE Restart
  BY <1>7 DEF Restart
<1> QED BY <1>1, <1>2, <1>3, <1>4, <1>5, <1>6, <1>7 DEF Next, Updates

(* The variables keep their types.                                         *)
THEOREM TypeCorrect == Spec => []TypeOK
<1>1. Init => TypeOK
  BY DEF Init, TypeOK
<1> QED BY <1>1, TypeInductive, PTL DEF Spec

-----------------------------------------------------------------------------
(* Writes *)

(* A step that leaves a write behind is an update, a delete or an insert.  *)
LEMMA WhoWrites ==
  ASSUME Next, wrote' # Idle
  PROVE  \E u \in Callers :
           \/ \E where \in Wheres, data \in Data : handleCRUDUpdate(u, where, data)
           \/ \E where \in Wheres : handleCRUDDelete(u, where)
           \/ \E data \in Data : handleCRUDInsert(u, data)
BY DEF Next, Updates, ListColumns, handleCRUDSelect, Restart

LEMMA OwnersStep ==
  ASSUME TypeOK, Next, wrote' # Idle, ~wrote'.texts,
         ByOwnership(wrote'.by, wrote'.op), NEW i \in Present,
         rows'[i] # rows[i] \/ i \in wrote'.found
  PROVE  rows[i][OwnerColumn] = wrote'.by.id
<1>1. PICK u \in Callers :
        \/ \E where \in Wheres, data \in Data : handleCRUDUpdate(u, where, data)
        \/ \E where \in Wheres : handleCRUDDelete(u, where)
        \/ \E data \in Data : handleCRUDInsert(u, data)
  BY WhoWrites
<1>2. ASSUME NEW op, NEW found, NEW where, NEW data, Answer(u, op, found, where, data)
      PROVE  /\ wrote'.by = u /\ wrote'.op = op /\ wrote'.found = found
             /\ ~HasText(DOMAIN where) /\ ~HasText(DOMAIN data)
  BY <1>2 DEF Answer, HasText
<1>3. ASSUME NEW where \in Wheres, NEW data \in Data, handleCRUDUpdate(u, where, data)
      PROVE  rows[i][OwnerColumn] = wrote'.by.id
  <2>1. PICK found \in SUBSET Present, a \in Assignments(data) :
          /\ \/ HasText(DOMAIN data)
             \/ found \in buildWhereClause(applyRLSFilter(where, rlsFilter(u, "update")))
          /\ rows' = [j \in Ids |-> IF j \in found THEN Assigned(rows[j], a) ELSE rows[j]]
          /\ Answer(u, "update", found, where, data)
    BY <1>3, Zenon DEF handleCRUDUpdate
  <2>2. /\ i \in found
        /\ found \in buildWhereClause(applyRLSFilter(where, rlsFilter(u, "update")))
    BY <1>2, <2>1 DEF Present
  <2> QED BY <1>2, <2>1, <2>2, FilterWins
<1>4. ASSUME NEW where \in Wheres, handleCRUDDelete(u, where)
      PROVE  rows[i][OwnerColumn] = wrote'.by.id
  <2>1. PICK found \in buildWhereClause(applyRLSFilter(where, rlsFilter(u, "delete"))) :
          /\ rows' = [j \in Ids |-> IF j \in found THEN Absent ELSE rows[j]]
          /\ Answer(u, "delete", found, where, NoClause)
    BY <1>4, Zenon DEF handleCRUDDelete
  <2>2. i \in found
    BY <1>2, <2>1 DEF Present
  <2> QED BY <1>2, <2>1, <2>2, FilterWins
<1>5. ASSUME NEW data \in Data, handleCRUDInsert(u, data) PROVE FALSE
  <2>1. PICK found \in SUBSET Ids, a \in Assignments(data) :
          /\ ~HasText(DOMAIN data) => \E j \in Ids \ Present : found = {j}
          /\ rows' = [j \in Ids |-> IF j \in found THEN Assigned(rows[j], a) ELSE rows[j]]
          /\ Answer(u, "insert", found, NoClause, data)
    BY <1>5, Zenon DEF handleCRUDInsert
  <2>2. i \in found
    BY <1>2, <2>1 DEF Present
  <2> QED BY <1>2, <2>1, <2>2
<1> QED BY <1>1, <1>3, <1>4, <1>5

(* A caller who has an operation only as an owner changes and is answered  *)
(* its own rows alone, for every configuration and every where clause of   *)
(* conditions on columns.                                                  *)
THEOREM OwnersOnly == Spec => OwnersWriteOwnRows
<1>1. TypeOK /\ [Next]_vars =>
        [wrote' # Idle /\ ~wrote'.texts /\ ByOwnership(wrote'.by, wrote'.op) =>
           \A i \in Present :
             rows'[i] # rows[i] \/ i \in wrote'.found
               => rows[i][OwnerColumn] = wrote'.by.id]_vars
  BY OwnersStep
<1> QED BY <1>1, TypeCorrect, PTL DEF Spec, OwnersWriteOwnRows

(* Nobody passes the check of a closed column.                             *)
LEMMA ClosedIsDenied ==
  ASSUME NEW u, NEW c, NEW op, getColumnPermissions(c)[op] = {}
  PROVE  ~checkColumnPermission(u, c, op)
BY CrudAssumption DEF checkColumnPermission

LEMMA ClosedStep ==
  ASSUME TypeOK, Next, wrote' # Idle, wrote'.plain,
         NEW i \in Ids, NEW c \in Columns, rows'[i] # Absent
  PROVE  /\ rows[i] # Absent /\ getColumnPermissions(c).update = {}
              => rows'[i][c] = rows[i][c]
         /\ rows[i] = Absent /\ getColumnPermissions(c).insert = {}
              => rows'[i][c] = Initially[c]
<1>1. PICK u \in Callers :
        \/ \E where \in Wheres, data \in Data : handleCRUDUpdate(u, where, data)
        \/ \E where \in Wheres : handleCRUDDelete(u, where)
        \/ \E data \in Data : handleCRUDInsert(u, data)
  BY WhoWrites
<1>2. ASSUME NEW where \in Wheres, NEW data \in Data, handleCRUDUpdate(u, where, data)
      PROVE  /\ rows[i] # Absent
             /\ getColumnPermissions(c).update = {} => rows'[i][c] = rows[i][c]
  <2>1. PICK found \in SUBSET Present, a \in Assignments(data) :
          /\ rows' = [j \in Ids |-> IF j \in found THEN Assigned(rows[j], a) ELSE rows[j]]
          /\ Answer(u, "update", found, where, data)
    BY <1>2, Zenon DEF handleCRUDUpdate
  <2>2. DOMAIN a = DOMAIN data
    BY <2>1, AssignmentType DEF Answer
  <2>3. getColumnPermissions(c)["update"] = {} => c \notin DOMAIN data
    BY <1>2, ClosedIsDenied DEF handleCRUDUpdate
  <2>4. rows[i] # Absent
    BY <2>1 DEF Present
  <2> QED BY <2>1, <2>2, <2>3, <2>4 DEF Assigned
<1>3. ASSUME NEW where \in Wheres, handleCRUDDelete(u, where)
      PROVE  rows'[i] = rows[i]
  <2>1. PICK found :
          rows' = [j \in Ids |-> IF j \in found THEN Absent ELSE rows[j]]
    BY <1>3, Zenon DEF handleCRUDDelete
  <2> QED BY <2>1
<1>4. ASSUME NEW data \in Data, handleCRUDInsert(u, data)
      PROVE  /\ rows[i] # Absent => rows'[i] = rows[i]
             /\ getColumnPermissions(c).insert = {} /\ rows[i] = Absent
                  => rows'[i][c] = Initially[c]
  <2>1. PICK found \in SUBSET Ids, a \in Assignments(data) :
          /\ ~HasText(DOMAIN data) => \E j \in Ids \ Present : found = {j}
          /\ rows' = [j \in Ids |-> IF j \in found THEN Assigned(rows[j], a) ELSE rows[j]]
          /\ Answer(u, "insert", found, NoClause, data)
    BY <1>4, Zenon DEF handleCRUDInsert
  <2>2. DOMAIN a = DOMAIN data /\ ~HasText(DOMAIN data)
    BY <2>1, AssignmentType, CrudAssumption DEF Answer, HasText, Spellings
  <2>3. getColumnPermissions(c)["insert"] = {} => c \notin DOMAIN data
    BY <1>4, ClosedIsDenied DEF handleCRUDInsert
  <2>4. \A j \in found : rows[j] = Absent
    BY <2>1, <2>2 DEF Present
  <2> QED BY <2>1, <2>2, <2>3, <2>4 DEF Assigned
<1> QED BY <1>1, <1>2, <1>3, <1>4

(* A column closed by an empty list keeps its value, for every table,      *)
(* every configuration and every request that names columns like the       *)
(* catalog.                                                                *)
THEOREM ClosedColumns == Spec => ClosedColumnsKeep
<1>1. TypeOK /\ [Next]_vars =>
        [\A i \in Ids, c \in Columns :
           wrote' # Idle /\ wrote'.plain /\ rows'[i] # Absent =>
             /\ rows[i] # Absent /\ getColumnPermissions(c).update = {}
                  => rows'[i][c] = rows[i][c]
             /\ rows[i] = Absent /\ getColumnPermissions(c).insert = {}
                  => rows'[i][c] = Initially[c]]_vars
  BY ClosedStep
<1> QED BY <1>1, TypeCorrect, PTL DEF Spec, ClosedColumnsKeep

-----------------------------------------------------------------------------
(* Selects *)

(* What a waiting statement holds.                                         *)
Holds(s) ==
  /\ ByOwnership(s.by, "select") =>
       /\ OwnerColumn \in DOMAIN s.where
       /\ s.where[OwnerColumn] = s.by.id
  /\ \A n \in s.names : checkColumnPermission(s.by, n, "select")
SentInv == \A q \in Requests : sent[q] # Idle => Holds(sent[q])

LEMMA SentInductive == TypeOK /\ SentInv /\ [Next]_vars => SentInv'
<1> SUFFICES ASSUME TypeOK, SentInv, [Next]_vars, NEW p \in Requests, sent'[p] # Idle
             PROVE  Holds(sent[p])'
  BY DEF SentInv
<1>1. CASE config' = config /\ sent'[p] = sent[p]
  BY <1>1 DEF SentInv, Holds, ByOwnership, ByRole, getTablePermissions,
     checkColumnPermission, getColumnPermissions
<1>2. ASSUME NEW u \in Callers, NEW where \in Wheres, NEW requested \in Lists,
             ListColumns(p, u, where, requested)
      PROVE  Holds(sent[p])'
  <2>1. /\ config' = config
        /\ sent'[p] = [by |-> u, where |-> applyRLSFilter(where, rlsFilter(u, "select")),
                       names |-> filterColumns(u, requested)]
    BY <1>2 DEF ListColumns, TypeOK
  <2>2. ByOwnership(sent[p].by, "select")' = ByOwnership(u, "select")
    BY <2>1 DEF ByOwnership, ByRole, getTablePermissions
  <2>3. \A n \in filterColumns(u, requested) : checkColumnPermission(u, n, "select")
    BY DEF filterColumns
  <2>4. \A n : checkColumnPermission(sent[p].by, n, "select")'
                 = checkColumnPermission(u, n, "select")
    BY <2>1 DEF checkColumnPermission, getColumnPermissions
  <2>5. ByOwnership(u, "select") =>
          LET w == applyRLSFilter(where, rlsFilter(u, "select"))
          IN  OwnerColumn \in DOMAIN w /\ w[OwnerColumn] = u.id
    BY DEF applyRLSFilter, rlsFilter
  <2> QED BY <2>1, <2>2, <2>3, <2>4, <2>5 DEF Holds
<1>3. CASE UNCHANGED vars
  BY <1>1, <1>3 DEF vars
<1>4. ASSUME NEW u \in Callers, NEW where \in Wheres, NEW q \in Requests \ {p},
             NEW requested \in Lists, ListColumns(q, u, where, requested)
      PROVE  config' = config /\ sent'[p] = sent[p]
  BY <1>4 DEF ListColumns, TypeOK
<1>5. ASSUME NEW u, NEW where, NEW data,
             handleCRUDUpdate(u, where, data) \/ handleCRUDDelete(u, where)
               \/ handleCRUDInsert(u, data)
      PROVE  config' = config /\ sent'[p] = sent[p]
  BY <1>5 DEF handleCRUDUpdate, handleCRUDDelete, handleCRUDInsert, Answer
<1>6. ASSUME NEW q \in Requests, handleCRUDSelect(q)
      PROVE  config' = config /\ sent'[p] = sent[p]
  BY <1>6 DEF handleCRUDSelect, TypeOK
<1>7. CASE Restart
  BY <1>7 DEF Restart
<1> QED BY <1>1, <1>2, <1>3, <1>4, <1>5, <1>6, <1>7 DEF Next

(* What a waiting select can reach at any moment between its two           *)
(* statements: rows of its caller, where it reads as an owner by           *)
(* conditions on columns, and, named like the catalog, permitted columns.  *)
THEOREM SelectsPermitted == Spec => []SelectsReadWhatIsPermitted
<1>1. Init => SentInv
  BY DEF Init, SentInv
<1>2. TypeOK /\ SentInv => SelectsReadWhatIsPermitted
  <2> SUFFICES ASSUME TypeOK, SentInv, NEW q \in Requests, sent[q] # Idle
               PROVE  LET u == sent[q].by IN
                      /\ /\ ByOwnership(u, "select")
                         /\ ~HasText(DOMAIN sent[q].where \union sent[q].names)
                         => \A found \in buildWhereClause(sent[q].where), i \in Ids :
                              i \in found => rows[i][OwnerColumn] = u.id
                      /\ sent[q].names \subseteq Columns =>
                           \A c \in sent[q].names :
                             /\ checkColumnPermission(u, c, "select")
                             /\ Prefix[c] \in {"c_", "p_"} /\ c \notin DOMAIN config.columns
                                  => isAdmin(u)
    BY DEF SelectsReadWhatIsPermitted
  <2> DEFINE u == sent[q].by
             w == sent[q].where
  <2>1. ASSUME ByOwnership(u, "select"), ~HasText(DOMAIN w \union sent[q].names),
               NEW found \in buildWhereClause(w), NEW i \in found
        PROVE  rows[i][OwnerColumn] = u.id
    <3>1. OwnerColumn \in DOMAIN w /\ w[OwnerColumn] = u.id
      BY <2>1 DEF SentInv, Holds
    <3>2. found = {j \in Present : \A n \in DOMAIN w : rows[j][Column(n)] = w[n]}
      BY <2>1 DEF buildWhereClause, HasText
    <3>3. Column(OwnerColumn) = OwnerColumn
      BY CrudAssumption DEF Column
    <3> QED BY <3>1, <3>2, <3>3
  <2>2. ASSUME NEW c \in sent[q].names, Prefix[c] \in {"c_", "p_"},
               c \notin DOMAIN config.columns
        PROVE  isAdmin(u)
    <3>1. getColumnPermissions(c)["select"] = {"admin"}
      BY <2>2 DEF getColumnPermissions, PrefixDefaults
    <3>2. checkColumnPermission(u, c, "select")
      BY DEF SentInv, Holds
    <3>3. {"admin"} # Unset
      BY CrudAssumption
    <3>4. hasRole(u, "admin")
      BY <3>1, <3>2, <3>3 DEF checkColumnPermission
    <3> QED BY <3>4 DEF hasRole, isAdmin
  <2>3. \A c \in sent[q].names : checkColumnPermission(u, c, "select")
    BY DEF SentInv, Holds
  <2> QED BY <2>1, <2>2, <2>3
<1> QED BY <1>1, <1>2, SentInductive, TypeCorrect, PTL DEF Spec
=============================================================================
