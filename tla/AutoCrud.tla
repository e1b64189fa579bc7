------------------------------ MODULE AutoCrud ------------------------------
(***************************************************************************)
(* The automatic CRUD API of the Bridge over one table: POST /call with a  *)
(* path crud/{database}/{table}/{operation}, the table and column          *)
(* permissions, and the row filter of the role "owner".                    *)
(*                                                                         *)
(* The permission configuration is read when the server starts.  Insert,   *)
(* update and delete check synchronously and send one statement; select    *)
(* first asks the database for the table's columns, and other requests may *)
(* be executed before its own statement is.                                *)
(*                                                                         *)
(* A request names columns by texts, which are judged by the way they are  *)
(* written and put into the statement unquoted.  One may be a column as    *)
(* the catalog has it, another spelling of one, the list of all columns,   *)
(* or any other text: what the database makes of a statement with such a   *)
(* text is open, within the operation and the table.                       *)
(*                                                                         *)
(* Role lists are sets (only membership is asked), a where clause and the  *)
(* data of a request are functions on a set of names.  Left out are        *)
(* orderBy, limit and offset, which choose among the rows found (as texts  *)
(* that are neither a column nor a number they would be further texts of   *)
(* the kind above), and writers other than this API.                       *)
(***************************************************************************)
CONSTANTS
  Ids,         \* the rows the table may have
  Columns,     \* the table's columns, as information_schema names them
  Spelling,    \* Spelling[n]: the column that n is another spelling of
  Star,        \* the list of all columns
  Texts,       \* texts that name no column
  Prefix,      \* Prefix[n]: what parseColumnPrefix says, "none" for null
  OwnerColumn, \* getOwnerColumn of the table
  Users,       \* what a token's sub may be
  RoleSets,    \* what a token's roles may be
  Values,      \* what a request may write; includes user ids
  Null,        \* SQL NULL, equal to nothing in a where clause
  Initially,   \* Initially[c]: the value of c in a row inserted without it
  Configs,     \* the permission configurations
  Unset,       \* an undefined role list
  Anonymous,   \* a request without a valid token
  Absent,      \* no such row
  Idle,        \* no select under way, no write
  Requests,    \* the selects under way at most
  Wheres,      \* bound: the where clauses of requests
  Data,        \* bound: the data of requests
  Lists        \* bound: the lists of names to select, Unset for none

Spellings == Columns \union DOMAIN Spelling
Names == Spellings \union {Star} \union Texts
Prefixes == {"s_", "c_", "p_", "_", "none"}
Operations == {"select", "insert", "update", "delete"}
Cells == Values \union {Null}
Rows == [Columns -> Cells]
Callers == [id : Users, roles : RoleSets] \union {Anonymous}

(* A function on some of the names, as a where clause or as data.          *)
Clause(N) == UNION {[S -> Values] : S \in SUBSET N}

ASSUME CrudAssumption ==
  /\ Spelling \in [DOMAIN Spelling -> Columns]
  /\ Columns \intersect DOMAIN Spelling = {}
  /\ Star \notin Spellings \union Texts
  /\ Spellings \intersect Texts = {}
  /\ Prefix \in [Names -> Prefixes]
  /\ OwnerColumn \in Columns
  /\ Users \subseteq Values
  /\ Null \notin Values
  /\ Initially \in Rows
  /\ Absent \notin Rows
  /\ Unset # {} /\ Unset # {"admin"}
  /\ Anonymous \notin [id : Users, roles : RoleSets]
  /\ Wheres \union Data \subseteq Clause(Names)
  /\ Lists \subseteq {Unset} \union SUBSET Names

VARIABLES
  config, \* SantokitServer.permissionsConfig
  rows,   \* the table
  sent,   \* sent[q]: the statement of a select that listed the columns
  wrote   \* history: the write that the last step was, or Idle

vars == <<config, rows, sent, wrote>>

Statements == [by : Callers, where : Clause(Names), names : SUBSET Names]

(* The rows that a write has answered, and how its request named columns:  *)
(* texts, if one of its names was no column's; plain, if the data had the  *)
(* catalog's names.                                                        *)
Writes == [by : Callers, op : Operations, found : SUBSET Ids,
           texts : BOOLEAN, plain : BOOLEAN]

TypeOK ==
  /\ config \in Configs
  /\ rows \in [Ids -> Rows \union {Absent}]
  /\ sent \in [Requests -> Statements \union {Idle}]
  /\ wrote \in Writes \union {Idle}

Init ==
  /\ config \in Configs
  /\ rows = [i \in Ids |-> Absent]
  /\ sent = [q \in Requests |-> Idle]
  /\ wrote = Idle

-----------------------------------------------------------------------------
(* Permissions *)

BuiltIn ==
  [select |-> {"authenticated"}, insert |-> {"authenticated"},
   update |-> {"owner", "admin"}, delete |-> {"admin"}]

(* The roles of an operation: the table's, the defaults', the built-in.    *)
getTablePermissions(op) ==
  IF config.table[op] # Unset THEN config.table[op]
  ELSE IF config.default[op] # Unset THEN config.default[op]
  ELSE BuiltIn[op]

PrefixDefaults(prefix) ==
  CASE prefix = "s_"        -> [select |-> {"owner", "admin"},
                                update |-> {"owner", "admin"}, insert |-> Unset]
    [] prefix \in {"c_", "p_"} -> [select |-> {"admin"}, update |-> {"admin"},
                                insert |-> Unset]
    [] prefix = "_"         -> [select |-> {"authenticated"}, update |-> {},
                                insert |-> {}]
    [] prefix = "none"      -> [select |-> {"authenticated"},
                                update |-> {"owner", "admin"}, insert |-> Unset]

(* A name that the configuration has, written like this, has no defaults   *)
(* at all.                                                                 *)
getColumnPermissions(n) ==
  IF n \in DOMAIN config.columns THEN config.columns[n]
                                 ELSE PrefixDefaults(Prefix[n])

hasRole(u, role) ==
  \/ role = "public"
  \/ (role = "authenticated" /\ u # Anonymous)
  \/ (u # Anonymous /\ role \in u.roles)

isAdmin(u) == u # Anonymous /\ "admin" \in u.roles

(* A role other than "owner" opens the whole table...                      *)
ByRole(u, op) == \E r \in getTablePermissions(op) \ {"owner"} : hasRole(u, r)

(* ...and "owner" the caller's own rows.                                   *)
ByOwnership(u, op) ==
  ~ByRole(u, op) /\ "owner" \in getTablePermissions(op) /\ u # Anonymous

checkTablePermission(u, op) == ByRole(u, op) \/ ByOwnership(u, op)

(* Mutant: a list without roles is taken for no list.                      *)
checkColumnPermissionEmptyAllows(u, n, op) ==
  LET roles == getColumnPermissions(n)[op]
  IN  roles \notin {Unset, {}} => \E r \in roles : hasRole(u, r)

(* No list allows, an empty one denies; "owner" is a role of the token     *)
(* here, not a relation to the row.                                        *)
checkColumnPermission(u, n, op) ==
  LET roles == getColumnPermissions(n)[op]
  IN  roles # Unset => \E r \in roles : hasRole(u, r)

rlsFilter(u, op) ==
  [c \in {d \in {OwnerColumn} : ByOwnership(u, op)} |-> u.id]

(* Mutant: the caller's where clause comes last and wins.                  *)
applyRLSFilterFirst(where, filter) ==
  [c \in DOMAIN where \union DOMAIN filter |->
     IF c \in DOMAIN where THEN where[c] ELSE filter[c]]

(* The filter comes last and wins over a condition that is written like    *)
(* it; any other one stays beside it.                                      *)
applyRLSFilter(where, filter) ==
  [c \in DOMAIN where \union DOMAIN filter |->
     IF c \in DOMAIN filter THEN filter[c] ELSE where[c]]

(* Mutant: only the columns nobody asked for are left out.                 *)
filterColumnsUnchecked(u, requested) ==
  {n \in IF requested = Unset THEN Columns ELSE requested :
     requested = Unset => Prefix[n] \notin {"c_", "p_"} \/ isAdmin(u)}

(* The names a select has in its list.  Without a list c_ and p_ columns   *)
(* are left out for all but admins, and what the caller may not read is    *)
(* left out silently.                                                      *)
filterColumns(u, requested) ==
  {n \in IF requested = Unset THEN Columns ELSE requested :
     /\ requested = Unset =>
          Prefix[n] \notin {"c_", "p_"} \/ isAdmin(u)
     /\ checkColumnPermission(u, n, "select")}

-----------------------------------------------------------------------------
(* What the database reads *)

Column(n) == IF n \in Columns THEN n ELSE Spelling[n]
HasText(names) == names \intersect Texts # {}
Present == {i \in Ids : rows[i] # Absent}

(* The sets of rows a where clause may find: any for another text, none,   *)
(* as it is an error, for the list of all columns, else the rows that its  *)
(* conditions say.                                                         *)
buildWhereClause(where) ==
  IF HasText(DOMAIN where) THEN SUBSET Present
  ELSE IF Star \in DOMAIN where THEN {}
  ELSE {{i \in Present : \A n \in DOMAIN where : rows[i][Column(n)] = where[n]}}

(* What a column list or SET clause may assign: any columns for another    *)
(* text, else each column the value of its one name.                       *)
Assignments(data) ==
  IF HasText(DOMAIN data)
  THEN UNION {[S -> {data[n] : n \in DOMAIN data}] : S \in SUBSET Columns}
  ELSE {a \in [{Column(n) : n \in DOMAIN data \ {Star}} -> Values] :
          /\ DOMAIN data # {} /\ Star \notin DOMAIN data
          /\ \A n \in DOMAIN data : a[Column(n)] = data[n]
          /\ \A m, n \in DOMAIN data : Column(m) = Column(n) => m = n}

(* A row with an assignment, also one that is inserted with it.            *)
Assigned(row, a) ==
  [c \in Columns |-> IF c \in DOMAIN a THEN a[c]
                     ELSE IF row = Absent THEN Initially[c] ELSE row[c]]

-----------------------------------------------------------------------------
(* Requests *)

(* The columns of the table have been listed; a requested name that is     *)
(* denied refuses the request, else the statement is on its way.           *)
ListColumns(q, u, where, requested) ==
  /\ sent[q] = Idle
  /\ requested # Unset => filterColumns(u, requested) = requested
  /\ checkTablePermission(u, "select")
  /\ sent' = [sent EXCEPT ![q] =
       [by |-> u, where |-> applyRLSFilter(where, rlsFilter(u, "select")),
        names |-> filterColumns(u, requested)]]
  /\ wrote' = Idle
  /\ UNCHANGED <<config, rows>>

(* The statement is executed, or fails, and answers the rows found then.   *)
handleCRUDSelect(q) ==
  /\ sent[q] # Idle
  /\ sent' = [sent EXCEPT ![q] = Idle]
  /\ wrote' = Idle
  /\ UNCHANGED <<config, rows>>

(* Each write has RETURNING *: it answers the rows found, and all columns  *)
(* of them.                                                                *)
Answer(u, op, found, where, data) ==
  /\ wrote' = [by |-> u, op |-> op, found |-> found,
               texts |-> HasText(DOMAIN where \union DOMAIN data),
               plain |-> DOMAIN data \subseteq Columns]
  /\ UNCHANGED <<config, sent>>

NoClause == [n \in {} |-> Null]

(* Mutant: the columns that are not given are not filled in.               *)
handleCRUDInsertBare(u, data) ==
  /\ checkTablePermission(u, "insert")
  /\ \A n \in DOMAIN data : checkColumnPermission(u, n, "insert")
  /\ \E i \in Ids \ Present, a \in Assignments(data) :
       /\ rows' = [rows EXCEPT ![i] = a]
       /\ Answer(u, "insert", {i}, NoClause, data)

(* An insert without data is an error of the database.  The row filter is  *)
(* not consulted: a row may be inserted for another owner.  With another   *)
(* text it may insert or change any rows.                                  *)
handleCRUDInsert(u, data) ==
  /\ checkTablePermission(u, "insert")
  /\ \A n \in DOMAIN data : checkColumnPermission(u, n, "insert")
  /\ \E found \in SUBSET Ids, a \in Assignments(data) :
       /\ ~HasText(DOMAIN data) => \E i \in Ids \ Present : found = {i}
       /\ rows' = [i \in Ids |-> IF i \in found THEN Assigned(rows[i], a) ELSE rows[i]]
       /\ Answer(u, "insert", found, NoClause, data)

(* The SET clause stands before the where clause, so a text in it may end  *)
(* the statement early.                                                    *)
handleCRUDUpdate(u, where, data) ==
  /\ checkTablePermission(u, "update")
  /\ \A n \in DOMAIN data : checkColumnPermission(u, n, "update")
  /\ \E found \in SUBSET Present, a \in Assignments(data) :
       /\ \/ HasText(DOMAIN data)
          \/ found \in buildWhereClause(applyRLSFilter(where, rlsFilter(u, "update")))
       /\ rows' = [i \in Ids |-> IF i \in found THEN Assigned(rows[i], a) ELSE rows[i]]
       /\ Answer(u, "update", found, where, data)

handleCRUDDelete(u, where) ==
  /\ checkTablePermission(u, "delete")
  /\ \E found \in buildWhereClause(applyRLSFilter(where, rlsFilter(u, "delete"))) :
       /\ rows' = [i \in Ids |-> IF i \in found THEN Absent ELSE rows[i]]
       /\ Answer(u, "delete", found, where, NoClause)

(* The server is started again, maybe with another configuration; what it  *)
(* had under way is lost.                                                  *)
Restart ==
  /\ config' \in Configs
  /\ sent' = [q \in Requests |-> Idle]
  /\ wrote' = Idle
  /\ UNCHANGED rows

(* Bound: the where clauses and data of updates.  What a text in the data  *)
(* does is open, whatever where clause follows.                            *)
Updates == {p \in Wheres \X Data : HasText(DOMAIN p[2]) => p[1] = NoClause}

Next ==
  \/ \E u \in Callers, where \in Wheres :
       \/ \E q \in Requests, requested \in Lists : ListColumns(q, u, where, requested)
       \/ handleCRUDDelete(u, where)
  \/ \E u \in Callers, update \in Updates : handleCRUDUpdate(u, update[1], update[2])
  \/ \E u \in Callers, data \in Data : handleCRUDInsert(u, data)
  \/ \E q \in Requests : handleCRUDSelect(q)
  \/ Restart

Spec == Init /\ [][Next]_vars

-----------------------------------------------------------------------------
(* Safety *)

(* Who may write a table only as an owner changes, deletes and gets as an  *)
(* answer no row that belongs to somebody else at that moment, whatever    *)
(* conditions on columns, in whatever spelling, the request has and        *)
(* whoever inserted the row or gave it away.  A request with a text that   *)
(* is no column's name is not judged: crud.ts checks no name.              *)
OwnersWriteOwnRows ==
  [][wrote' # Idle /\ ~wrote'.texts /\ ByOwnership(wrote'.by, wrote'.op) =>
       \A i \in Present :
         rows'[i] # rows[i] \/ i \in wrote'.found
           => rows[i][OwnerColumn] = wrote'.by.id]_vars

(* A select whose statement waits while other requests insert, change and  *)
(* give away rows returns, whenever it is executed, rows its caller owns   *)
(* by then if it may read only as an owner.  If it names columns like the  *)
(* catalog or has no list, it returns columns that its caller may read, c_ *)
(* and p_ columns without a list of their own only to admins.              *)
SelectsReadWhatIsPermitted ==
  \A q \in Requests : sent[q] # Idle =>
    LET u == sent[q].by IN
    /\ /\ ByOwnership(u, "select")
       /\ ~HasText(DOMAIN sent[q].where \union sent[q].names)
       => \A found \in buildWhereClause(sent[q].where), i \in Ids :
            i \in found => rows[i][OwnerColumn] = u.id
    /\ sent[q].names \subseteq Columns =>
         \A c \in sent[q].names :
           /\ checkColumnPermission(u, c, "select")
           /\ Prefix[c] \in {"c_", "p_"} /\ c \notin DOMAIN config.columns =>
                isAdmin(u)

(* A column whose list is empty is closed to everybody, admins included,   *)
(* as long as requests name it like the catalog: a row never changes in a  *)
(* column with update [], and starts with the database's value in a column *)
(* with insert [], as the system columns do.                               *)
ClosedColumnsKeep ==
  [][\A i \in Ids, c \in Columns :
       wrote' # Idle /\ wrote'.plain /\ rows'[i] # Absent =>
         /\ rows[i] # Absent /\ getColumnPermissions(c).update = {}
              => rows'[i][c] = rows[i][c]
         /\ rows[i] = Absent /\ getColumnPermissions(c).insert = {}
              => rows'[i][c] = Initially[c]]_vars
=============================================================================
