---------------------------- MODULE ImportSchema ----------------------------
(***************************************************************************)
(* IMPORT FOREIGN SCHEMA: jdbcImportForeignSchema of jdbc_fdw.c with what  *)
(* it calls in jq.c and JDBCUtils.java, over the connections of            *)
(* ServerOptions, and the part of PostgreSQL that runs the commands.       *)
(*                                                                         *)
(* The names of the tables, and for each table the names of its columns,   *)
(* their types and the primary key are read by calls of their own, between *)
(* which the remote schema may change.  All that happens locally is one    *)
(* transaction: one action here.                                           *)
(*                                                                         *)
(* Local schemas hold anything at first: foreign tables, with views on them*)
(* or of other roles, and other relations.  Local DDL besides the imports  *)
(* is left out.                                                            *)
(*                                                                         *)
(* A name is written without quotes into the commands, so PostgreSQL folds *)
(* its case.  Column names are taken to be in lower case.                  *)
(***************************************************************************)
EXTENDS ServerOptions

CONSTANTS
  RelationsIn,        \* RelationsIn[u]: the relations the database at URL u may
                      \* have, in the order getTables returns them
  NameOf,             \* NameOf[r]: the name of relation r; several may share one
  Definitions,        \* Definitions[r]: what r may be defined as
  Folded,             \* Folded[n]: n with its case folded
  LikePattern,        \* pairs <<p, n>>: name n matches name p as a pattern
  LocalType,          \* the types PostgreSQL knows
  Schema,             \* local schemas
  SearchPath,         \* those on the search path, in order
  LocalInit,          \* what the local schemas may hold at first
  MaxChanges,         \* bound: remote DDL during an import
  MaxImports          \* bound: IMPORT statements

Url == DOMAIN RelationsIn
Relation == DOMAIN NameOf
LocalName == Range(Folded)

\* What getColumnTypes makes of the types of the remote database.
TypeName ==
  [BYTE |-> "SMALLINT", SHORT |-> "SMALLINT", LONG |-> "BIGINT",
   CHAR |-> "CHAR (1)", STRING |-> "TEXT", FLOAT |-> "FLOAT4",
   DOUBLE |-> "FLOAT8", BLOB |-> "BYTEA", BOOL_ARRAY |-> "BOOL[]",
   STRING_ARRAY |-> "TEXT[]", BYTE_ARRAY |-> "SMALLINT[]",
   SHORT_ARRAY |-> "SMALLINT[]", INTEGER_ARRAY |-> "INTEGER[]",
   LONG_ARRAY |-> "BIGINT[]", FLOAT_ARRAY |-> "FLOAT4[]",
   DOUBLE_ARRAY |-> "FLOAT8[]", TIMESTAMP_ARRAY |-> "TIMESTAMP[]"]

\* Of a local column: its type is one of these or what the driver calls it.
ColumnType == Range(TypeName) \cup STRING
Column == [name : STRING, type : ColumnType, primary_key : BOOLEAN]

\* A relation of a local schema.  droppable: a foreign table of the user's own
\* on which nothing depends.  server: NULL if it is no foreign table.
LocalTable ==
  [columns : Seq(Column), server : Server \cup {NULL}, droppable : BOOLEAN]
Tables == [Schema -> [LocalName -> LocalTable \cup {NULL}]]

ASSUME BoundAssumption == MaxChanges \in Nat /\ MaxImports \in Nat

ASSUME SchemaAssumption == SearchPath \in Seq(Schema) /\ LocalInit \subseteq Tables

\* getTables returns a table once.
ASSUME RelationAssumption ==
  /\ \A c \in DOMAIN UrlsOf : UrlsOf[c] \subseteq Url
  /\ \A u \in Url : /\ RelationsIn[u] \in Seq(Relation)
                     /\ IsInjective(RelationsIn[u])
  /\ \A r \in Relation : NameOf[r] \in DOMAIN Folded

ASSUME DefinitionAssumption ==
  \A r \in Relation :
    /\ NULL \notin Definitions[r]
    /\ \A d \in Definitions[r] : d.columns \in Seq([name : STRING, type : STRING])

Statement ==
  [mapping : Mapping, recreate : BOOLEAN, into : Schema,
   wanted : SUBSET LocalName, quiet : BOOLEAN]

ASSUME NoTableAssumption == NULL \notin LocalTable \cup Tables \cup Statement

VARIABLES
  remote,               \* remote[r]: the definition of r, NULL if it does not exist
  changes,              \* remote DDL so far
  local,                \* local[s][n]: the relation n of schema s, or NULL
  imports,              \* IMPORT statements so far
  pc,
  stmt,                 \* the statement, a record; NULL when there was none
  tableName,            \* names of tables still to be read
  columnNames,          \* of the first of these, once read
  columnTypes,
  schema_list           \* tables read

importVars == <<local, imports, pc, stmt, tableName, columnNames, columnTypes,
                schema_list>>
vars == <<optionVars, remote, changes, importVars>>

Init ==
  /\ OptionInit
  /\ remote \in [Relation -> UNION Range(Definitions) \cup {NULL}]
  /\ \A r \in Relation : remote[r] \in Definitions[r] \cup {NULL}
  /\ changes = 0
  /\ local \in LocalInit
  /\ imports = 0
  /\ pc = "idle"
  /\ stmt = NULL
  /\ tableName = <<>>
  /\ columnNames = <<>>
  /\ columnTypes = <<>>
  /\ schema_list = <<>>
-----------------------------------------------------------------------------
(* The remote database and its JDBC driver                                 *)

\* During an import: what came before it is in the initial definitions.
RemoteDDL(r, definition) ==
  /\ stmt # NULL
  /\ changes < MaxChanges
  /\ remote[r] # definition
  /\ remote' = [remote EXCEPT ![r] = definition]
  /\ changes' = changes + 1
  /\ stmt' = [stmt EXCEPT !.quiet = FALSE]
  /\ UNCHANGED <<optionVars, local, imports, pc, tableName, columnNames,
                 columnTypes, schema_list>>

\* The database the connection of the statement goes to.
Database == ConnectionHash[stmt.mapping].url

\* The elements of s at the positions in I, in order.
Select(s, I) == FlattenSeq([i \in DOMAIN s |-> IF i \in I THEN <<s[i]>> ELSE <<>>])

Existing(u) ==
  Select(RelationsIn[u],
         {i \in DOMAIN RelationsIn[u] : remote[RelationsIn[u][i]] # NULL})

\* getColumns takes a pattern for the name of the table: the columns of all
\* tables that match.  getPrimaryKeys takes the name itself.
Matches(name, r) == NameOf[r] = name \/ <<name, NameOf[r]>> \in LikePattern

getColumns(name) ==
  FlattenSeq([i \in DOMAIN Existing(Database) |->
                LET r == Existing(Database)[i]
                IN  IF Matches(name, r) THEN remote[r].columns ELSE <<>>])

getPrimaryKeys(name) ==
  UNION {remote[r].key : r \in {r \in Range(Existing(Database)) : NameOf[r] = name}}

Translated(type) == IF type \in DOMAIN TypeName THEN TypeName[type] ELSE type
-----------------------------------------------------------------------------
(* Reading the remote schema (jq_get_schema_info)                          *)

\* jdbcImportForeignSchema up to the connection.  wanted: the names LIMIT TO
\* or EXCEPT leave, known to PostgreSQL only.
BeginImport(m, superuser, recreate, into, wanted) ==
  /\ pc = "idle"
  /\ imports < MaxImports
  /\ connected = {}
  /\ connect_jdbc_server(m, superuser)
  /\ imports' = imports + 1
  /\ IF outcome'.result = "connected"
     THEN /\ pc' = "tables"
          /\ stmt' = [mapping |-> m, recreate |-> recreate, into |-> into,
                      wanted |-> wanted, quiet |-> TRUE]
     ELSE UNCHANGED <<pc, stmt>>
  /\ UNCHANGED <<remote, changes, local, tableName, columnNames, columnTypes,
                 schema_list>>

ReadSchema == UNCHANGED <<optionVars, remote, changes, local, imports, stmt>>

\* Faulty (see ResultSetTable on these): a database without tables is read.
AlwaysRead(names) == "names"

\* What comes when the tables of names are still to be read.
Continue(names) == IF names = <<>> THEN "commands" ELSE "names"

jq_get_table_names ==
  /\ pc = "tables"
  /\ tableName' = [i \in DOMAIN Existing(Database) |-> NameOf[Existing(Database)[i]]]
  /\ pc' = Continue(tableName')
  /\ UNCHANGED <<columnNames, columnTypes, schema_list>>
  /\ ReadSchema

getColumnNames ==
  /\ pc = "names"
  /\ LET columns == getColumns(Head(tableName))
     IN  columnNames' = [i \in DOMAIN columns |-> columns[i].name]
  /\ pc' = "types"
  /\ UNCHANGED <<tableName, columnTypes, schema_list>>
  /\ ReadSchema

getColumnTypes ==
  /\ pc = "types"
  /\ LET columns == getColumns(Head(tableName))
     IN  columnTypes' = [i \in DOMAIN columns |-> Translated(columns[i].type)]
  /\ pc' = "key"
  /\ UNCHANGED <<tableName, columnNames, schema_list>>
  /\ ReadSchema

\* Faulty: the key is left out, as in jq_get_column_infos_without_key.
KeyLeftOut(key) ==
  [i \in DOMAIN columnNames |->
     [name |-> columnNames[i], type |-> columnTypes[i], primary_key |-> FALSE]]

\* Names and types are put together by position, the key by name.
ColumnInfo(key) ==
  [i \in DOMAIN columnNames |->
     [name |-> columnNames[i], type |-> columnTypes[i],
      primary_key |-> columnNames[i] \in key]]

\* getPrimaryKey, and the rest of jq_get_column_infos when the numbers of
\* names and of types agree.
getPrimaryKey ==
  /\ pc = "key"
  /\ Len(columnNames) = Len(columnTypes)
  /\ schema_list' =
       Append(schema_list,
              [table_name |-> Head(tableName),
               column_info |-> ColumnInfo(getPrimaryKeys(Head(tableName)))])
  /\ tableName' = Tail(tableName)
  /\ columnNames' = <<>>
  /\ columnTypes' = <<>>
  /\ pc' = Continue(tableName')
  /\ ReadSchema

\* "Cannot get the dependable columnInfo." or an exception of the driver: the
\* statement is rolled back.
ImportError ==
  /\ pc \in {"tables", "names", "types", "key"}
  /\ pc' = "done"
  /\ stmt' = NULL
  /\ tableName' = <<>>
  /\ columnNames' = <<>>
  /\ columnTypes' = <<>>
  /\ schema_list' = <<>>
  /\ UNCHANGED <<optionVars, remote, changes, local, imports>>
-----------------------------------------------------------------------------
(* The commands                                                            *)

\* Left out, with a warning: a table with a column of type UNKNOWN.
Unrecognizable(t) ==
  \E i \in DOMAIN t.column_info : t.column_info[i].type = "UNKNOWN"

commands ==
  Select(schema_list, {i \in DOMAIN schema_list : ~Unrecognizable(schema_list[i])})

\* The first schema of the search path with a relation n, or none.
Lookup(tables, n) ==
  {i \in DOMAIN SearchPath :
     /\ tables[SearchPath[i]][n] # NULL
     /\ \A j \in 1..(i - 1) : tables[SearchPath[j]][n] = NULL}

\* The relation n that is found is an ordinary table, say, or has a view, or
\* belongs to another role.
Undroppable(tables, n) ==
  \E i \in Lookup(tables, n) : ~tables[SearchPath[i]][n].droppable

\* Faulty: the name is quoted, so that its case is not folded.
DropQuoted(tables, name) ==
  IF tables = NULL \/ (name \in LocalName /\ Undroppable(tables, name)) THEN NULL
  ELSE [s \in Schema |-> [n \in LocalName |->
          IF n = name /\ \E i \in Lookup(tables, n) : SearchPath[i] = s
          THEN NULL ELSE tables[s][n]]]

\* DROP FOREIGN TABLE IF EXISTS for every table that was read.  Its name is
\* looked up on the search path.  NULL: a command has failed.
DropTable(tables, name) ==
  IF tables = NULL \/ Undroppable(tables, Folded[name]) THEN NULL
  ELSE [s \in Schema |-> [n \in LocalName |->
          IF n = Folded[name] /\ \E i \in Lookup(tables, n) : SearchPath[i] = s
          THEN NULL ELSE tables[s][n]]]

jdbc_execute_commands(tables) ==
  LET after[i \in 0..Len(schema_list)] ==
        IF i = 0 THEN tables
        ELSE DropTable(after[i - 1], schema_list[i].table_name)
  IN  after[Len(schema_list)]

\* Faulty: recreate is not looked at.
AlwaysDropped == jdbc_execute_commands(local)

CommandsDropped ==
  IF stmt.recreate THEN jdbc_execute_commands(local) ELSE local

ForeignTable(t) ==
  [columns |-> t.column_info, server |-> ServerOf[stmt.mapping], droppable |-> TRUE]

CanCreate(t) ==
  /\ \A i, j \in DOMAIN t.column_info :
       t.column_info[i].name = t.column_info[j].name => i = j
  /\ \A i \in DOMAIN t.column_info : t.column_info[i].type \in LocalType

\* PostgreSQL runs the CREATE of a wanted table in the schema that is
\* imported into.  NULL: a command has failed.
CreateTable(tables, t) ==
  LET n == Folded[t.table_name]
      exists == tables[stmt.into][n] # NULL
  IN  IF tables = NULL THEN NULL
      ELSE IF n \notin stmt.wanted \/ (exists /\ ~stmt.recreate) THEN tables
      ELSE IF exists \/ ~CanCreate(t) THEN NULL
      ELSE [tables EXCEPT ![stmt.into][n] = ForeignTable(t)]

Created ==
  LET after[i \in 0..Len(commands)] ==
        IF i = 0 THEN CommandsDropped ELSE CreateTable(after[i - 1], commands[i])
  IN  after[Len(commands)]

\* The rest of jdbcImportForeignSchema, the commands it returns, and the end
\* of the statement: commit, or rollback if a command fails.
RunCommands ==
  /\ pc = "commands"
  /\ local' = IF Created = NULL THEN local ELSE Created
  /\ stmt' = IF Created = NULL THEN NULL ELSE stmt
  /\ pc' = "done"
  /\ UNCHANGED <<optionVars, remote, changes, imports, tableName, columnNames,
                 columnTypes, schema_list>>

EndImport ==
  /\ pc = "done"
  /\ EndStatement
  /\ pc' = "idle"
  /\ stmt' = NULL
  /\ schema_list' = <<>>
  /\ UNCHANGED <<remote, changes, local, imports, tableName, columnNames,
                 columnTypes>>
-----------------------------------------------------------------------------
(* Other statements and messages                                           *)

Elsewhere == UNCHANGED <<remote, changes, importVars>>

CreateStatement(x, list) ==
  pc = "idle" /\ outcome = NoOutcome /\ CreateObject(x, list) /\ Elsewhere

\* A statement that is not an IMPORT connects to one server or to several.
OtherConnect(m, superuser) ==
  pc = "idle" /\ connect_jdbc_server(m, superuser) /\ Elsewhere

EndOther == pc = "idle" /\ EndStatement /\ Elsewhere

\* Messages are processed where PostgreSQL takes locks: not between the calls
\* that read the remote schema.
Invalidation(m) == pc \in {"idle", "done"} /\ InvalidateConnection(m) /\ Elsewhere

Next ==
  \/ \E x \in Server \cup Mapping :
       \E list \in OfferedTo[x] : CreateStatement(x, list)
  \/ \E m \in Mapping, superuser \in BOOLEAN : OtherConnect(m, superuser)
  \/ EndOther
  \/ \E m \in Mapping : Invalidation(m)
  \/ \E r \in Relation :
       \E definition \in Definitions[r] \cup {NULL} : RemoteDDL(r, definition)
  \/ \E m \in Mapping, superuser \in BOOLEAN, recreate \in BOOLEAN,
        into \in Schema, wanted \in SUBSET LocalName :
       BeginImport(m, superuser, recreate, into, wanted)
  \/ jq_get_table_names
  \/ getColumnNames
  \/ getColumnTypes
  \/ getPrimaryKey
  \/ ImportError
  \/ RunCommands
  \/ EndImport

Spec == Init /\ [][Next]_vars
-----------------------------------------------------------------------------
(* Properties                                                              *)

TypeOK ==
  /\ freed \subseteq StringField
  /\ \A f \in freed : opts[f] # NULL
  /\ DOMAIN loaded # {} => path # <<>>
  /\ Range(loaded) \subseteq Range(path)
  /\ \A m \in connected : ConnectionHash[m] # NULL
  /\ pc \in {"idle", "tables", "names", "types", "key", "commands", "done"}
  /\ pc \notin {"idle", "done"} => stmt # NULL /\ connected = {stmt.mapping}
  /\ pc \in {"names", "types", "key"} <=> tableName # <<>>
  /\ changes <= MaxChanges /\ imports <= MaxImports

\* No other table of the database has a name that r's could be taken for: as
\* a pattern, or once its case is folded.
Unmistakable(r, u) ==
  \A q \in Range(Existing(u)) \ {r} :
    /\ ~Matches(NameOf[r], q)
    /\ Folded[NameOf[q]] # Folded[NameOf[r]]

Recognizable(r) ==
  \A i \in DOMAIN remote[r].columns : Translated(remote[r].columns[i].type) # "UNKNOWN"

Definition(r, server) ==
  [columns |-> [i \in DOMAIN remote[r].columns |->
                  LET c == remote[r].columns[i]
                  IN  [name |-> c.name, type |-> Translated(c.type),
                       primary_key |-> c.name \in remote[r].key]],
   server |-> server, droppable |-> TRUE]

\* After an import with recreate that no remote DDL ran into, a table that
\* was asked for is locally what it is in the database its own server names,
\* with types translated and the key marked, whatever was there before and
\* whatever servers the session has used - unless its name stands for several
\* tables or a column has a type the driver does not know
\* (jdbcImportForeignSchema, jq_get_column_infos).
ImportedAsDefined ==
  pc = "done" /\ stmt # NULL /\ stmt.recreate /\ stmt.quiet
    /\ Complete(stmt.mapping) =>
    LET u == Named(stmt.mapping)["url"] IN
    \A r \in Range(Existing(u)) :
      /\ Unmistakable(r, u)
      /\ Recognizable(r)
      /\ Folded[NameOf[r]] \in stmt.wanted
      => local[stmt.into][Folded[NameOf[r]]] = Definition(r, ServerOf[stmt.mapping])

\* An import with recreate fails over what is there locally exactly if one of
\* its DROPs does: no CREATE finds a table of its name, if tables are imported
\* into the first schema that names are looked up in.  (It also fails over
\* tables of one name, and over types PostgreSQL does not know.)
RecreateReplaces ==
  pc = "commands" /\ stmt.recreate
    /\ SearchPath # <<>> /\ SearchPath[1] = stmt.into
    /\ (\A i, j \in DOMAIN schema_list :
          Folded[schema_list[i].table_name] = Folded[schema_list[j].table_name] => i = j)
    /\ (\A i \in DOMAIN commands : CanCreate(commands[i])) =>
  (Created # NULL <=>
     \A i \in DOMAIN schema_list :
       ~Undroppable(local, Folded[schema_list[i].table_name]))

\* What is made of table n of schema s once it is dropped: none or one.
Remade(s, n) ==
  {ForeignTable(t) : t \in {c \in Range(commands) : /\ Folded[c.table_name] = n
                                                     /\ n \in stmt.wanted
                                                     /\ s = stmt.into}}

\* A local relation is changed only by an import with recreate that has read a
\* table of its name, and only if it is a foreign table that may be dropped and
\* the first of its name on the search path (a later one when two tables of
\* that name were read).  It becomes the table that was read; but it is lost
\* if LIMIT TO or EXCEPT leave that table out, if it is in another schema, or
\* if a column has no known type (jdbcImportForeignSchema).
KeepsLocalTables ==
  [][\A s \in Schema, n \in LocalName :
       local[s][n] # NULL /\ local'[s][n] # local[s][n] =>
         /\ stmt.recreate
         /\ local[s][n].droppable
         /\ \E i \in DOMAIN schema_list :
              /\ Folded[schema_list[i].table_name] = n
              /\ \/ \E l \in Lookup(local, n) : SearchPath[l] = s
                 \/ \E j \in DOMAIN schema_list \ {i} :
                      Folded[schema_list[j].table_name] = n
         /\ \/ local'[s][n] \in Remade(s, n)
            \/ local'[s][n] = NULL /\ Remade(s, n) = {}]_vars
=============================================================================
