--------------------------- MODULE ServerOptions ---------------------------
(***************************************************************************)
(* From the options of a server and of a user mapping to a JDBC            *)
(* connection: option.c (what may be set where), jq.c (the options go into *)
(* one static structure, the JVM is created once), JDBCConnection.java and *)
(* JDBCDriverLoader.java (one class loader for all drivers).               *)
(*                                                                         *)
(* The static structure is not cleared between two servers.  A field that  *)
(* the next server does not name keeps its value, and a string field then  *)
(* points into the options of an earlier statement, which are freed.       *)
(*                                                                         *)
(* One backend with one thread, one statement per transaction.  Options do *)
(* not change once set, and a user mapping serves one server: how messages *)
(* about changes reach the connections is in JdbcConnections.              *)
(***************************************************************************)
EXTENDS Integers, FiniteSets, Sequences, SequencesExt, Functions

CONSTANTS
  Mapping,            \* user mappings
  Server,             \* foreign servers
  ServerOf,           \* ServerOf[m]: the server of mapping m
  LibpqOption,        \* records [keyword, dispchar] of PQconndefaults()
  OfferedTo,          \* OfferedTo[x]: the option lists a user may try for the
                      \* server or mapping x: functions from keywords to values
  JarClasses,         \* JarClasses[j]: the driver classes in the jar file j
  UrlsOf,             \* UrlsOf[c]: the URLs the driver class c accepts
  Heaps,              \* the values of maxheapsize the JVM can be created with
  Garbage,            \* what is read from memory that was freed
  NULL

\* The fields of JserverOptions.
StringField == {"url", "drivername", "username", "password", "jarfile"}
NumberField == {"querytimeout", "maxheapsize"}
Field == StringField \cup NumberField

ASSUME ServerOfAssumption == ServerOf \in [Mapping -> Server]
ASSUME NoValueAssumption ==
  /\ NULL # Garbage
  /\ \A x \in DOMAIN OfferedTo : NULL \notin OfferedTo[x]
  /\ 0 \in Heaps

\* Strings are offered where a string is expected, and numbers where a number is.
ASSUME OfferedAssumption ==
  \A x \in Server \cup Mapping : \A list \in OfferedTo[x] :
    /\ \A f \in DOMAIN list \cap StringField : list[f] \in STRING
    /\ \A f \in DOMAIN list \cap NumberField : list[f] \in Int

\* A driver is known by the URLs it accepts.
ASSUME DriverAssumption ==
  \A j \in DOMAIN JarClasses : JarClasses[j] \subseteq DOMAIN UrlsOf

JDBCConnection ==
  LET String == STRING \cup {NULL, Garbage}
  IN  [invalidate : BOOLEAN, url : String, driver : String,
       username : String, password : String, queryTimeoutValue : Int]

ASSUME NoConnectionAssumption == NULL \notin JDBCConnection

VARIABLES
  options,              \* options[x]: of server or mapping x, NULL before CREATE
  opts,                 \* the static structure
  freed,                \* its string fields that point to freed memory
  jvm,                  \* the heap size of the JVM, NULL before it is created
  path,                 \* the jars jdbcDriverLoader searches; <<>>: no loader yet
  loaded,               \* the classes it has loaded, each with its jar
  ConnectionHash,       \* ConnectionHash[m]: the connection cached under m's oid
  connected,            \* mappings the current statement has connected for
  outcome               \* of the last call of connect_jdbc_server

optionVars == <<options, opts, freed, jvm, path, loaded, ConnectionHash,
                connected, outcome>>
staticVars == <<opts, freed, jvm, path, loaded, ConnectionHash>>

NoOutcome == [mapping |-> NULL, result |-> "none", seen |-> NULL]

OptionInit ==
  /\ options = [x \in Server \cup Mapping |-> NULL]
  /\ opts = [f \in Field |-> IF f \in StringField THEN NULL ELSE 0]
  /\ freed = {}
  /\ jvm = NULL
  /\ path = <<>>
  /\ loaded = <<>>
  /\ ConnectionHash = [m \in Mapping |-> NULL]
  /\ connected = {}
  /\ outcome = NoOutcome
-----------------------------------------------------------------------------
(* option.c                                                                *)

non_libpq_options ==
  LET OptionsOf(context, keywords) ==
        {[keyword |-> k, optcontext |-> context, is_libpq_opt |-> FALSE] : k \in keywords}
  IN  OptionsOf("server", {"drivername", "url", "querytimeout", "jarfile", "maxheapsize",
                           "use_remote_estimate", "fdw_startup_cost", "fdw_tuple_cost",
                           "updatable"})
      \cup OptionsOf("mapping", {"username", "password"})
      \cup OptionsOf("table", {"use_remote_estimate", "updatable", "schema_name",
                               "table_name"})
      \cup OptionsOf("column", {"key", "column_name"})

\* The list init_jdbcfdw_options builds.
jdbc_fdw_options ==
  non_libpq_options
  \cup {[keyword |-> l.keyword,
         optcontext |-> IF l.keyword = "user" \/ l.dispchar = "*"
                        THEN "mapping" ELSE "server",
         is_libpq_opt |-> TRUE] :
          l \in {o \in LibpqOption :
                   /\ o.dispchar # "D"
                   /\ o.keyword \notin {"fallback_application_name",
                                        "client_encoding"}}}

jdbc_is_valid_option(keyword, context) ==
  \E o \in jdbc_fdw_options : o.keyword = keyword /\ o.optcontext = context

jdbc_is_libpq_option(keyword) ==
  \E o \in jdbc_fdw_options : o.keyword = keyword /\ o.is_libpq_opt

\* Costs are numbers; the lists offered give updatable and
\* use_remote_estimate as Booleans or as something that is not one.
jdbc_fdw_validator(context, list) ==
  \A k \in DOMAIN list :
    /\ jdbc_is_valid_option(k, context)
    /\ k \in {"use_remote_estimate", "updatable"} => list[k] \in {"true", "false"}
    /\ k \in {"fdw_startup_cost", "fdw_tuple_cost"} => list[k] >= 0

jdbc_extract_connection_options(list) ==
  [k \in {k \in DOMAIN list : jdbc_is_libpq_option(k)} |-> list[k]]

\* CREATE SERVER and CREATE USER MAPPING: refused unless the options are valid.
CreateObject(x, list) ==
  /\ options[x] = NULL
  /\ x \in Mapping => options[ServerOf[x]] # NULL
  /\ jdbc_fdw_validator(IF x \in Server THEN "server" ELSE "mapping", list)
  /\ options' = [options EXCEPT ![x] = list]
  /\ UNCHANGED <<staticVars, connected, outcome>>
-----------------------------------------------------------------------------
(* jq.c                                                                    *)

\* All that the server of m and m name.
Named(m) ==
  [k \in DOMAIN options[m] \cup DOMAIN options[ServerOf[m]] |->
     IF k \in DOMAIN options[m] THEN options[m][k] ELSE options[ServerOf[m]][k]]

\* Faulty (see ResultSetTable on these): the first value stays.
FirstValueStays(old, named) ==
  [f \in Field |-> IF f \in DOMAIN named /\ (f \in StringField => old[f] = NULL)
                   THEN named[f] ELSE old[f]]

\* With the old structure where nothing is named.
jdbc_get_server_options(old, named) ==
  [f \in Field |-> IF f \in DOMAIN named THEN named[f] ELSE old[f]]

\* For anyone but a superuser a password must be named, which is looked for
\* among the options libpq knows.
jdbc_check_conn_params(m, superuser) ==
  \/ superuser
  \/ \E x \in {m, ServerOf[m]} :
       LET keywords == jdbc_extract_connection_options(options[x])
       IN  "password" \in DOMAIN keywords /\ keywords["password"] # ""

\* The strings read through opts in this statement: one that points to freed
\* memory can still be the old one or anything else.
ReadOptions(pointers, dangling) ==
  {[f \in Field |-> IF f \in g THEN Garbage ELSE pointers[f]] :
     g \in SUBSET dangling}

NineNines == 999999999
EightNines == 99999999

\* snprintf(querytimeout_string, 10, "%d", n): nine characters at most.
querytimeout_string(n) ==
  IF n > NineNines THEN n \div 10
  ELSE IF n < -NineNines THEN -((-n) \div 100)
  ELSE IF n < -EightNines THEN -((-n) \div 10)
  ELSE n
-----------------------------------------------------------------------------
(* JDBCDriverLoader.java and JDBCConnection.java                           *)

\* A URLClassLoader takes a path once.
addPath(jar) == IF Contains(path, jar) THEN path ELSE Append(path, jar)

CheckIfClassIsLoaded(class) == class \in DOMAIN loaded

\* Faulty: only the jar the loader was created with is searched.
FirstJarOnly(jar, class) == IF path = <<>> THEN <<jar>> ELSE path

LoaderPath(jar, class) ==
  IF path = <<>> THEN <<jar>>
  ELSE IF CheckIfClassIsLoaded(class) THEN path
  ELSE addPath(jar)

\* The jars of p that have the class; a jar that does not exist has none.
JarsWith(p, class) ==
  {i \in DOMAIN p : p[i] \in DOMAIN JarClasses /\ class \in JarClasses[p[i]]}

Loadable(p, class) == CheckIfClassIsLoaded(class) \/ JarsWith(p, class) # {}

\* The class comes from the first jar on the path that has it.
loadClass(p, class) ==
  IF CheckIfClassIsLoaded(class) THEN loaded
  ELSE LET first == CHOOSE i \in JarsWith(p, class) :
                      \A j \in JarsWith(p, class) : i <= j
       IN  [c \in DOMAIN loaded \cup {class} |->
              IF c = class THEN p[first] ELSE loaded[c]]

JDBCConnectionOf(seen) ==
  [invalidate |-> FALSE, url |-> seen.url, driver |-> seen.drivername,
   username |-> seen.username, password |-> seen.password,
   queryTimeoutValue |-> querytimeout_string(seen.querytimeout)]

Reusable(m) == ConnectionHash[m] # NULL /\ ~ConnectionHash[m].invalidate

\* getConnection returns the connection of m that is there.
ReuseConnection(m, seen) ==
  /\ Reusable(m)
  /\ outcome' = [mapping |-> m, result |-> "connected", seen |-> seen]
  /\ UNCHANGED <<path, loaded, ConnectionHash>>

Fails(m, seen, result) ==
  /\ outcome' = [mapping |-> m, result |-> result, seen |-> seen]
  /\ UNCHANGED ConnectionHash

\* createConnection.  new File(null) fails before the loader is touched.
createConnection(m, seen) ==
  LET p == LoaderPath(seen.jarfile, seen.drivername) IN
  /\ ~Reusable(m)
  /\ \/ /\ seen.jarfile = NULL
        /\ Fails(m, seen, "no jar")
        /\ UNCHANGED <<path, loaded>>
     \/ /\ seen.jarfile # NULL
        /\ path' = p
        /\ \/ /\ ~Loadable(p, seen.drivername)
              /\ Fails(m, seen, "class not found")
              /\ UNCHANGED loaded
           \/ /\ Loadable(p, seen.drivername)
              /\ loaded' = loadClass(p, seen.drivername)
              /\ \/ Fails(m, seen, "not connected")      \* the remote's refusal
                 \/ /\ NULL \notin {seen.username, seen.password}
                    /\ seen.url \in UrlsOf[seen.drivername]
                    /\ ConnectionHash' =
                         [ConnectionHash EXCEPT ![m] = JDBCConnectionOf(seen)]
                    /\ outcome' = [mapping |-> m, result |-> "connected",
                                   seen |-> seen]
-----------------------------------------------------------------------------
(* connect_jdbc_server, called once per statement and mapping              *)

\* jdbc_check_conn_params refuses.
ConnectRefused(m, superuser) ==
  /\ ~jdbc_check_conn_params(m, superuser)
  /\ Fails(m, NULL, "refused")
  /\ UNCHANGED <<options, opts, freed, jvm, path, loaded, connected>>

\* jdbc_jvm_init, then jdbc_create_JDBC_connection.  maxheapsize is the only
\* field that is reset; it counts for the first JVM that can be created.
ConnectServer(m, superuser) ==
  /\ jdbc_check_conn_params(m, superuser)
  /\ opts' = jdbc_get_server_options([opts EXCEPT !.maxheapsize = 0], Named(m))
  /\ freed' = freed \ DOMAIN Named(m)
  /\ \/ /\ jvm = NULL /\ opts'.maxheapsize \notin Heaps
        /\ Fails(m, NULL, "no jvm")
        /\ UNCHANGED <<jvm, path, loaded>>
     \/ /\ jvm # NULL \/ opts'.maxheapsize \in Heaps
        /\ jvm' = IF jvm = NULL THEN opts'.maxheapsize ELSE jvm
        /\ \E seen \in ReadOptions(opts', freed') :
             ReuseConnection(m, seen) \/ createConnection(m, seen)
  /\ UNCHANGED options
  /\ connected' = IF outcome'.result = "connected"
                  THEN connected \cup {m} ELSE connected

connect_jdbc_server(m, superuser) ==
  /\ outcome.result \in {"none", "connected"}
  /\ NULL \notin {options[m], options[ServerOf[m]]}
  /\ m \notin connected
  /\ ConnectRefused(m, superuser) \/ ConnectServer(m, superuser)

\* The end of a statement, after an error too: the option lists read for it
\* are freed, and the JDBCUtils objects of its transaction are given up.
EndStatement ==
  /\ outcome.result # "none"
  /\ outcome' = NoOutcome
  /\ freed' = {f \in StringField : opts[f] # NULL}
  /\ connected' = {}
  /\ UNCHANGED <<options, opts, jvm, path, loaded, ConnectionHash>>

\* A message about m or its server has closed the connection.
InvalidateConnection(m) ==
  /\ Reusable(m)
  /\ ConnectionHash' = [ConnectionHash EXCEPT ![m].invalidate = TRUE]
  /\ UNCHANGED <<options, opts, freed, jvm, path, loaded, connected, outcome>>
-----------------------------------------------------------------------------
(* Properties                                                              *)

\* Names all the options a connection is made from.
Complete(m) ==
  NULL \notin {options[m], options[ServerOf[m]]} /\ Field \subseteq DOMAIN Named(m)

Printable(n) == n \in Int /\ n >= -EightNines /\ n <= NineNines

\* A connection is made with the options of its own server and user mapping,
\* whatever servers, complete or not, were connected to before and whatever
\* is left of them in the static structure - if these name all options and
\* the number of seconds has nine digits at most (jdbc_get_server_options,
\* jdbc_create_JDBC_connection).
OwnOptions ==
  \A m \in Mapping :
    ConnectionHash[m] # NULL /\ Complete(m) =>
      LET conn == ConnectionHash[m] IN
      /\ conn.url = Named(m)["url"]
      /\ conn.driver = Named(m)["drivername"]
      /\ conn.username = Named(m)["username"]
      /\ conn.password = Named(m)["password"]
      /\ Printable(Named(m)["querytimeout"]) =>
           conn.queryTimeoutValue = Named(m)["querytimeout"]

\* A wrong or missing jar file spoils nothing for later: the driver class is
\* found whenever the jar named in this attempt has it, although the class
\* loader is created once, with the first jar ever named, and keeps what
\* failed attempts have added (createConnection).
LoaderRecovers ==
  outcome.result = "class not found" =>
    \/ outcome.seen.jarfile \notin DOMAIN JarClasses
    \/ outcome.seen.drivername \notin JarClasses[outcome.seen.jarfile]
=============================================================================
