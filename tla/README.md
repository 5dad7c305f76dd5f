# A specification of jdbc_fdw

jdbc_fdw is a PostgreSQL foreign-data wrapper: C code in the backend that
starts a JVM inside the process and drives four Java classes, which talk JDBC
to the remote server. These TLA+ modules model the part of it that is hard to
test: who may use what when connections, cached objects, statements and
result-set identifiers are shared between callbacks, portals, transactions,
invalidation messages and threads; what is sent to the remote server and what
is left to be done locally; and with whose options a server is connected and
its schema imported.

All paths below are relative to the repository; modules and configurations
are in this directory. Run a configuration with
`tlc -config MCForeignScan_single.cfg MCForeignScan.tla` and the proofs with
`tlapm ForeignScan_proofs.tla`.

## Inventory of the system

| Component | State | Operations | Hard behaviour | Correct when |
|---|---|---|---|---|
| JDBCUtils cache, `connection.c` | `JdbcUtilsHash` (per thread): (server, user) to `JDBCUtilsInfo *`, hash values of the rows; `xact_got_connection`; callbacks registered once per process | `jdbc_get_jdbc_utils_obj`, `jdbc_release_jdbc_utils_obj`, `jdbc_fdw_inval_callback`, `jdbcfdw_xact_callback` | entries are released for everybody at once; messages arrive in mid-transaction; failures half way | no freed struct is handed out, none is lost or freed twice, nothing survives a transaction |
| JVM and JNI bridge, `jq.c` | `jvm`, `Jenv` (per thread), `opts`, local references | attach, detach, `jq_connect_db_params`, `jq_exec`, `jq_exec_id`, `jq_iterate`, `jq_cancel`, `jq_inval_callback`, `jq_release_all_result_sets` | detaching ends every local reference, whoever holds it | a reference is used only while its thread has stayed attached |
| JDBC connection hash, `JDBCConnection.java` | static `ConnectionHash`: user-mapping OID to connection, `invalidate` mark | `getConnection`, `createConnection`, `finalizeAllConns`, `finalizeAllServerConns`, `finalizeAllUserMapingConns` | `close()` may throw in a loop; matches rows on its own | a connection never outlives a change of the options it was made with; no live one is lost |
| Result-set table, `JDBCUtils.java`, `resultSetInfo.java` | static `resultSetKey`, `resultSetInfoMap` | `createStatementID`, `createPreparedStatement`, `getResultSet`, `clearResultSetID`, `finalizeAllResultSet`, `initResultSetKey` | monitor per object, state per process; wrap-around; double clearing | an identifier names one open result set until its holder gives it back |
| Driver loader, `JDBCDriverLoader.java` | one class loader: its path, the classes loaded | `addPath`, `CheckIfClassIsLoaded`, `loadClass` | made once with the first jar ever named; keeps what failed attempts added | a class is found whenever the jar named now has it |
| Scan callbacks and `jdbc_exec`, `jdbc_fdw.c` | `jdbcFdwScanState`, the error context stack | Begin, Iterate, ReScan, End, `jdbc_exec`, `jdbc_error_callback` | open portals overlap; errors skip End; early returns leave callbacks behind | a running scan's object, statement and identifier stay its own |
| Modify callbacks, `jdbc_fdw.c` | `jdbcFdwModifyState` | Plan, Begin, Insert, Update, Delete, End | positional binding, key columns after target columns | each row reaches the remote table with its own values and key |
| Planner callbacks, `jdbc_fdw.c` | `jdbcFdwRelationInfo` of each relation | rel size, paths, plan, upper paths, cost estimate | what may be pushed down over what | the remote query with the local steps equals the local query |
| Deparser, `deparse.c` | none | shippability walker, text of SELECT, INSERT, UPDATE, DELETE | collation and operator rules | only expressions the remote side evaluates alike are sent |
| Options, `option.c`, `jdbc_get_server_options` | option table, static `opts`, the one JVM | validator, extraction, `jdbc_check_conn_params` | `opts` carries over, its strings dangle after the statement | a server that names all options is connected with its own |
| Import, `jdbc_fdw.c`, `jq.c`, `JDBCUtils.java` | the lists of one statement | `jdbcImportForeignSchema`, `jq_get_schema_info`, DROP through SPI | names, types and key are read by calls of their own; recreate drops first, by unquoted names on the search path | a table imported is the remote one; a local one is changed only by a recreate that has read its name and may drop it |
| Binding and conversion | none | `jq_bind_sql_var`, `bind*`, conversions | | |
| EXPLAIN output, GridDB test initializer, JNI headers | | | | |

How they interact. The planner and the executor call the callbacks of
`jdbc_fdw.c`; these get a `JDBCUtilsInfo` from the cache of `connection.c`,
which connects through `jq.c` and JNI to a `JDBCUtils` object, which takes its
connection from the static hash of `JDBCConnection`. Queries run through
`jq_exec_id`, which returns an identifier of the static result-set table.
Three callbacks come from outside: the syscache callback for messages about
`pg_foreign_server` and `pg_user_mapping`, the transaction callback, and the
error context callback, which `ereport` calls for every message, not only for
errors.

## The modules

| Module | Models | State and actions |
|---|---|---|
| `ResultSetIds` | what C expects of identifiers (abstract) | `owner`; Acquire, Release |
| `ResultSetTable` | `initResultSetKey` and its callers in several threads | the two static variables, the monitor; for each thread a program counter, `datum`, the key and the result set it works on, and the keys C holds with the result set each was returned for; one action per access to the static state |
| `JdbcConnections` | `JDBCConnection.java` with the catalog rows and messages | versions of rows, catalog cache, pending messages, options read, `ConnectionHash`, `Jconn`; one action per method |
| `UtilsCache` | `connection.c` and the functions of `jq.c` it calls; extends `JdbcConnections` | the entries, the structs ever allocated with `freed` and `ref`, `Jenv`, the transaction flag |
| `ForeignScan` | the scan callbacks and `jdbc_exec` under an executor with portals; extends `UtilsCache`, instantiates `ResultSetIds` | portals, scan states, statements, the table, forgotten error callbacks |
| `RowModify` | what the executor expects of the Exec callbacks (abstract) | the remote table and the change asked for; Request, Respond, Fail |
| `ForeignModify` | INSERT, UPDATE and DELETE from AddForeignUpdateTargets to EndForeignModify on one table | the shape of the table, the remote rows, the statement, the columns of the placeholders of its remote text, the rows fetched, and for the call the loop variable, `bindnum` and the parameters set; one action per iteration of each loop, one for each call of the remote server |
| `Pushdown` | a query on one foreign table, from GetForeignRelSize to its answer | `fdw_private` of each relation, the paths, the plan, the remote result, the answer; one action per callback, the planner's choices between them |
| `Collations` | how the walker follows collations up an expression | none: operators |
| `ShippedExpr` | the walker and the deparser on expressions; what a text means by the priorities of SQL; extends `Collations` | none: recursive operators |
| `ServerOptions` | `option.c`, `jdbc_get_server_options`, `jdbc_jvm_init`, `createConnection`, the driver loader | options of servers and mappings, the static structure with the fields that dangle, the JVM's heap, the loader's path and classes, `ConnectionHash`; one action per statement, connection attempt and message |
| `ImportSchema` | IMPORT FOREIGN SCHEMA in a session with other statements; extends `ServerOptions` | the remote definitions, the local tables, and for the statement a program counter and the lists read; one action per metadata call |
| `*_proofs`, `ForeignModify_refinement` | theorems about the module of that name | |
| `MC*` | constants of the instances | |

`ForeignScan` uses the abstract `ResultSetIds` and not `ResultSetTable`: the
latter is shown to implement it (run `rst_one`, theorem `Implementation`), so
that the search loop need not be interleaved with the scans.

Where the C code keeps a pointer, the model keeps an index into a sequence of
everything ever allocated (`info`, `Jconn`, `stmts`). Freed structs and closed
statements stay there, marked, which lets a property see a dangling pointer.
Using one is undefined behaviour; no action models it, and `ScansUsable` says
that it is never about to happen.

`ForeignModify` stands by itself: it has no connections, since those are used
and released as by scans, and its remote table is what the callbacks change.
A remote text is the list of the columns of its placeholders, in the order of
the text. The plan and the executor collect and walk the columns in loops of
their own, over different data (column options, the updated columns, the list
kept in the plan, `junk_idx`); the order in which they agree is what is checked.

`Pushdown` knows an expression by its name only: what the walker and the
deparser make of it are constants. `MCPushdown` computes these constants with
`ShippedExpr` from expression trees over a small table, together with the rows
for which a condition holds locally (`Eval`) and for which its text holds
remotely (`TextValue`). So the run checks callbacks, walker and deparser
together, while the theorems speak about the callbacks for any walker.

`ServerOptions` and `JdbcConnections` both have the connection hash, and look
at it from two sides: the former has the values of options that never change,
the latter changes of options without values.

Operators whose comment starts with "Faulty" are not used by the
specifications. Each is a plausible mistake in the definition below it, and
putting it in its place breaks the property named in `PROJECT.json`.

### Regimes

Some properties hold only in part of what the code may meet. The modules have
Boolean constants for these parts, so that a run or a theorem can say for
which it speaks:

- `LookupsAge`: a message may be processed while a caller holds the
  `ForeignServer` and `UserMapping` structs it will connect with. The planner
  keeps them from `GetForeignRelSize` to `GetForeignPlan`.
- `CloseFails`: `Connection.close()` may throw.
- `InvalWhileCached`: a message may be processed while the cache has entries.
- `Overlap`: portals, plans and calls of `jdbc_exec` may overlap.
- `Messages`: a NOTICE or WARNING may go out while a scan has forgotten its
  error context callback on the stack.
- `BeforeRowTriggers`: a BEFORE ROW trigger may change columns that the UPDATE
  does not assign.

All are possible in the code. A property checked with one of them FALSE may
fail with it TRUE; the hazards in `PROJECT.json` say which, and the violation
runs show it for some of them.

## Runs

| Run | Expect | Question |
|---|---|---|
| `rst_one` | pass | Does one thread always get a free key, is "full" reported exactly when there is none, is no key looked at twice, and does every search end? |
| `rst_race` | violation | Is a key still free when the caller enters its result set, with two threads? |
| `conn_server` | violation | Are all connections of an altered server remade? |
| `cache_full` | pass | Do memory, connections and the transaction flag stay consistent, with messages at any moment and failing connects and closes, and what ends a cached reference? |
| `scan_single` | pass | One portal at a time, messages only between portals, a server for each mapping: is everything a scan touches alive and its own, down to the connection of its mapping, and are connections fresh? |
| `scan_overlap` | pass | Two portals, `jdbc_exec`, messages, invalidations: do identifiers keep rows apart, and is a transaction's end clean? |
| `scan_nested` | violation | Does the end of a scan free only that scan's objects? |
| `scan_inval` | violation | Does an invalidation leave connections in use alone? |
| `modify_rows` | pass | Does every value reach its own placeholder, and every call exactly its own row? |
| `pushdown` | pass | Whatever is pushed down and whichever path is taken, is the answer one the query could have on a local table? |
| `shipped_priority` | violation | Does the text of a comparison with ANY or ALL keep its meaning inside a larger condition? |
| `import_session` | pass | Is a server connected with its own options, does the class loader recover from wrong jars, does an import yield the remote tables, when does a recreate fail over local relations, and which of them does it change? |

What the five violations show is written under "findings" in `PROJECT.json`,
each with the comment of the source it contradicts.

### Bounds

Only four things grow without end in the code: connections made (`MaxConns`),
structs allocated (`MaxInfos`), statements made (`MaxStmts`) and changes of a
row (`MaxVersion`). `MaxKey` is `Integer.MAX_VALUE`.

- `rst_one`: four keys and five result sets (`ResultSet`): the table can be full
  with one more query under way. The wrap-around, the full table, and a key
  given out, back and out again need three keys.
- `cache_full`: two users with a mapping each, one ALTER of the server and one
  of a mapping, three connections, two structs: one entry can be dropped and
  remade while the other is in use, with a reset in between.
- `scan_single`: three scans of one portal, two of them through one server and
  so through one cached object, the third through another server; three
  statements (three scans, or two and a rescan), two connections, an ALTER of
  one server. The two scans of one server are symmetric.
- `scan_overlap`: two portals with a scan each on one server, and two
  identifiers, so that one is given out again.
- `modify_rows`: three columns, so that a column can be dropped between a key
  and an assigned one, or keys be on both sides of it; two rows and two values
  with NULL, so that a new key can be the other row's old one.
- `pushdown`: four rows, so that a condition can be true, false or unknown on
  different rows and LIMIT can cut some; two columns with different
  collations; every kind of node the walker knows and one it does not; every
  condition by itself, every legal pair of clauses with and without LIMIT and
  OFFSET over one condition that is shipped and one that is not. Each callback
  looks at clauses one by one, so that pairs show what their order can do.
- `import_session`: `MaxImports` = `MaxChanges` = 1. One import with remote DDL
  between any two of its calls, after any number of other statements,
  connections and messages; a server names all options, or lacks four, or names
  a jar that does not exist; a table's name matches another's as a pattern, two
  names differ in case only, a column has a type the driver does not know; in a
  schema on the search path and in one off it there is no table of that name, a
  foreign one in both, or an ordinary one in the first, over which the DROP fails.
  Options are chosen so that a value of one server is wrong for the other.
- The violation runs have the smallest bounds that show the counterexample.

The proofs hold for every value of these bounds.

### Fairness

Only `FairSpec` of `ResultSetTable` states fairness: weak fairness on `Step`
of each thread, the steps inside a call that has begun. The Java code of a call
runs to its end and waits for nothing once it is inside the monitor. Beginning
a call, and everything in the other modules, is up to users, the executor and
other sessions; nothing there must happen, so those modules have no fairness
and no liveness property.

## Proofs

TLAPS checks eight modules.

- `ResultSetTable_proofs`. The types hold for any set of threads. For one
  thread, `IInv` adds to the types what the program counter knows: the monitor
  is held exactly inside the search, the key about to be entered is not in the
  table, the keys in hand are there with their own result sets, and in "advance" every key passed so far,
  from `datum` on and round the wrap, is in use. From it follow `HeldKeysCorrect`,
  `ReturnedKeyCorrect`, `FullCorrect`, and `Implementation`: every step is a
  step of `ResultSetIds` or a stutter. `SearchCorrect` is the safety half of
  `SearchEnds`: each step of a search passes a key it had not passed, of which
  there are `MaxKey`. It needs `StartInv`: while the position is still 1, no key
  but 1 is in use, so that a search that begins at 1, where the wrap-around does
  not lead back to, never comes to the wrap-around.
- `JdbcConnections_proofs`. `HashInv` (a hashed connection is under its own
  mapping, a valid one is open, a valid one is hashed) is inductive in every
  regime. `Fresh` proves `NoStaleConnection` under the assumptions that each
  server has one mapping and that `LookupsAge` and `CloseFails` are FALSE; run
  `conn_server` shows that the first is needed.
- `UtilsCache_proofs`. `CacheUsesHash` shows that a step of the cache is a step
  of the hash or leaves it alone, so that `HashInv` holds here too. `CacheInv`
  adds that entries point to structs that are not freed, are pairwise
  different, carry their own key, that structs handed out and not freed are in
  an entry, that an entry's connection is valid, and that the flag is set
  whenever there is an entry. No regime is assumed. The lemma `CachedRefs`, for `ForeignScan` only, does
  assume that `InvalWhileCached` is FALSE: then only steps that empty the cache
  detach the thread. What holds in every regime is `ReferencesCorrect`: a
  reference of an entry that is kept is ended by a message only.
- `ForeignScan_proofs`. `ScanUsesCache` does the same one level up. `ScanInv`
  has the types, `IdleIsClean`, and `RowsOfOwnQuery` extended to portals that
  are ending, which is what makes it inductive. No regime is assumed: rows are
  never mixed up even in the behaviours where pointers dangle. `UsableCorrect`
  proves `ScansUsable` where `Overlap`, `Messages` and `InvalWhileCached` are
  FALSE. Its invariant `RunInv` says that at most one portal has scans
  (`OnePortal`), that each running scan uses the struct the cache has for its
  key (`UsesCached`), so that it is live and attached by the theorems about the
  cache, and that the statement of its result set is open and is that of no
  other entry of the table (`FetchesOpen`, `OwnStatements`): the end of one
  scan's data closes no other's statement. The runs `scan_nested` and
  `scan_inval` show that the first and the last assumption are needed.
  `ConnectedCorrect` puts the layers together: where besides `LookupsAge` and
  `CloseFails` are FALSE and each server has one mapping, the connection below
  a running scan's struct is the hashed one of its own mapping, valid and open,
  and up to date unless a message is on its way (`ScansConnected`). It follows
  from `RunInv`, `CacheInv`, `HashInv` and `Fresh`.
- `ForeignModify_proofs`. `PlanInv` says that the two lists of the remote text
  are increasing and have just the columns wanted, up to the one the plan has
  come to; `BindInv` that the parameters bound are the first `bindnum` ones with
  the values they are meant for, and that the WHERE columns bound are the keys
  the second loop has passed. Both are needed: that the next key met is the
  column of the next placeholder (lemma `NextColumn`) follows from the order of
  the list and from all smaller keys being bound. `TypeCorrect` and
  `BoundCorrect` hold for every number of columns and in both regimes.
- `ForeignModify_refinement`. `ChangeInv` says that the table has a key that
  identifies its rows (`TableRight`), that the rows the subplan has yet to give
  are still as they were fetched (`ScanCurrent`), and that a call is about a
  row as it was fetched and differs from it in the assigned columns only
  (`CallRight`). With `PlanInv` and `BindInv` the WHERE clause selects that row
  and no other (lemma `MatchesOneRow`), and SET gives it the new row (lemma
  `ChangesTheRow`), which in turn keeps the other rows as they were fetched.
  `Implementation`: entering a call is `Request`, executing the statement
  `Respond`, an error `Fail`, everything else a stutter. It assumes that
  `BeforeRowTriggers` is FALSE.
- `Pushdown_proofs`. `Safe` is what is known after each callback: conditions of
  the base relation are split by the walker and the columns of local ones are
  fetched (`BaseRight`); only stages the callbacks know have `fdw_private`, and
  they are asked about in order (`NoPrivate`, `StagesRight`); an aggregate that is
  pushed down stands directly over a base relation without local conditions
  (`AggregateRight`); a path with LIMIT stands over one, with no local step above
  it (`PathsRight`); the plan has just the conditions of the query (`PlanRight`);
  and what was fetched is a remote result of that plan (`ScanRight`). It is
  inductive because PostgreSQL asks about LIMIT last and because FINAL looks at the
  conditions of its input. `TypeCorrect` and `LimitsAndAggregatesAboveConds`
  follow without an assumption. `RightAnswers` assumes `ShipsFaithfully`: an
  accepted condition that can be deparsed means remotely what it means here. Run
  `pushdown` checks that for the conditions of its instance; run
  `shipped_priority` shows conditions for which it is false. One part of that
  assumption is proved for all expressions: `InputCollationDerived` says that
  the walker, which merges the collations of subexpressions one by one, accepts
  an input collation exactly if SQL derives it from the collations of the
  columns below, whatever their number and order. The invariant of the loop is
  `Says`, what the context knows after the first n subexpressions, and `MergeOne`
  its step; that a conflict, once found, is never forgotten is what makes the
  order irrelevant.

- `ImportSchema_proofs`. `IInv` adds to `OwnOptions` and `LoaderRecovers` that
  the options of an object are one of the lists offered to it (`ListsRight`),
  that only strings dangle and the fields have their types (`StructureRight`),
  that a loaded class came from a jar on the path that has it (`LoadedRight`),
  and that a mapping with a connection has both its lists, which are never set
  anew, and a URL its driver accepts (`ConnectionsRight`). A server that names
  everything leaves no field of the static structure to what was there before
  (lemma `SeenIsNamed`), and the jar named is on the path whenever a class is
  looked for (lemma `JarIsSearched`).
  `SessionInv` adds the types of what an import reads and that an import under
  way is connected for its own mapping and no other (`ControlRight`), which
  `TypeCorrect`, `RecreateCorrect` and `LocalTablesKept` follow from: the
  database that is read is then the one the statement's own server names (lemma
  `StatementDatabase`). For `ImportCorrect`, `ReadInOrder` says what the three
  calls have put together so far: the tables that were read and those still to
  be read are, in order, those of the database; what was read of one that
  cannot be mistaken is its definition; names and types of the table under way
  are both its own. It holds while no remote DDL has run into the import. What
  the loops over tables do is stated by `DropAll` (if no DROP fails, a relation
  is changed only when one of its name was read and it could be dropped and was
  found first, and in the first schema of the search path nothing of that name
  is left) and `CreateAll` (if no command fails, each table asked for is there
  as it was read and no other is touched); what the driver's search by pattern
  gives, by `ColumnsOfOne`. `RecreateCorrect` says that the DROPs fail exactly
  over a relation that may not be dropped, and that after them no CREATE finds
  one in its way; `LocalTablesKept` that what is dropped is remade, or is lost
  because the one read is not asked for, goes to another schema, or has a
  column of unknown type.

Induction over lists. The loops over tables and the lists that are joined have
any length. The induction theorems of the library take an operator as a parameter,
which the provers cannot instantiate; `Induction` in `ImportSchema_proofs`, and
again in `Pushdown_proofs`, is stated for a set instead, and follows from the theorem that a set of numbers
that is not empty has a smallest element. So what a recursive function over
`0..n` or `FlattenSeq` computes can be proved (`DropDef`, `CreateDef`,
`FlattenDef`, `MergedDef`), and the operators of `ImportSchema` and `Collations`
are written with these.

Assumptions on the constants. Besides types: options that are offered for
numbers are numbers and those offered for strings are strings
(`OfferedAssumption`; the option list is text, and what is not a number is
read as 0 by `atoi`); a driver class is known by the URLs it accepts
(`DriverAssumption`, `RelationAssumption`); getTables returns no table twice
(`RelationAssumption`); columns have a name and a type (`DefinitionAssumption`);
`NULL` is none of the records (`NoConnectionAssumption`, `NoTableAssumption`).
TLC evaluates them for the instance of each run.

Only model-checked: `SearchEnds`, since liveness under fairness is out of the
prover's reach (`SearchCorrect` is its safety half), and `ShippedExpr`, whose
operators over trees of expressions are declared RECURSIVE: its
expressions are evaluated by TLC in run `pushdown`, and `RightAnswers` takes
from it the assumption `ShipsFaithfully`.

## Not modelled, and why

- Failures of JNI (class or method not found, out of memory, attach failing):
  they mean a broken installation.
- `ereport` at DEBUG levels as a message that calls the error context
  callback: it needs `client_min_messages` or `log_min_messages` lowered;
  `Messages` covers the effect.
- A scan called again after its end of data: `ExecutorRun` does not do so for
  the plans considered here.
- In the modules of connections and scans, values, names and texts: a query is
  the scan that runs it, the options of a row are a version number.
- In `ForeignModify`: other sessions that write to the table, a plan that
  gives a row twice, conversion of values, RETURNING (refused), tables that are
  not updatable, ON CONFLICT, COPY and tuple routing. A column's `key` option
  is 'true' or absent; with 'false' the planner raises an error.
- In `Pushdown`: costs, since any path may be taken, and with them sampling by
  ANALYZE; `use_remote_estimate` is modelled, and ends every query with an
  error. Joins, grouping, sorting, windows and DISTINCT are local, so only that
  they stand above the scan counts. In `ShippedExpr`: how single constants are
  printed by type, quoting, VARIADIC calls, ARRAY outside of ANY and ALL.
- In `ServerOptions`: ALTER of options (`JdbcConnections` has it), other options
  of the JVM, classes found on the JVM's own class path before the loader is
  asked. Memory that was freed is read as its old content or as `Garbage`.
- In `ImportSchema`: names of columns that change when their case is folded,
  several remote schemas, IMPORT as part of a longer transaction. Local
  relations are as at first or as the imports have left them: other local DDL,
  which could add a view to a table that was imported, is left out.
- JVM shutdown, EXPLAIN output, the GridDB initializer, the
  JNI headers.
- Threads that share more than the result-set table: `JdbcConnections` and
  above have one thread. The registration of callbacks once per process
  (`connection.c:93`) over a hash per thread is listed as a hazard.

Disagreements seen while modelling, without a run of their own: the struct of
a failed connect is leaked (`connection.c:290`, the pointer is still NULL);
entries that survive an invalidation keep dead references (`jq.c:1889`); a
connection is made with options looked up before a change whose message has
come (`jdbc_fdw.c:999`); ReScan before the first row leaves its error context
callback behind (`jdbc_fdw.c:1343`); the walker accepts ANY of an array column,
which the deparser refuses (`deparse.c:2258`); of the column names and types of
a table, read by two calls, only the numbers are compared (`jq.c:1589`);
`recreate` loses tables that it does not make again (`jdbc_fdw.c:3138`; the
README has "table schema will be updated"); a `close()` that throws leaves later connections valid (`JDBCConnection.java:47`);
`createPreparedStatement` hides the field that `cancel` would close
(`JDBCUtils.java:129`); the test of UPDATE with a BEFORE ROW trigger says "all
columns should be transmitted" (`sql/17.0/ported_postgres_fdw.sql:2765`), but
the plan transmits only the columns the UPDATE assigns (`jdbc_fdw.c:1576`);
`use_remote_estimate` always ends in an error (`jdbc_fdw.c:2952`); options a
server does not name are those of another server, read through dangling
pointers (`jq.c:78`); the printed form of a constant array is split at every
comma, quoted or not (`deparse.c:2177`).

## Plan

Done: the modules above, in the order result-set table, connections, cache,
scans; modify callbacks; pushdown and shipped expressions; options and import.

Left, most important first:

1. Other sessions in `ForeignModify`, as a regime: the scan takes no row locks,
   and the number of rows a statement changed is not read.
2. Threads that share the connection hash in `JdbcConnections`.
3. Generated columns in `ForeignModify`.
4. `ShippedExpr` with recursive functions in place of its RECURSIVE operators,
   so that `ShipsFaithfully` could be proved for the trees the walker accepts,
   other than those of run `shipped_priority`.
