--------------------------- MODULE MCImportSchema ---------------------------
(***************************************************************************)
(* ImportSchema, with ServerOptions, for TLC: two servers, the first with  *)
(* a database of two tables, one of whose names matches the other as a     *)
(* pattern, the second with one table whose name differs in case only.     *)
(***************************************************************************)
EXTENDS ImportSchema

MCServerOf == [m1 |-> "s1", m2 |-> "s2"]

MCLibpqOption ==
  {[keyword |-> "host", dispchar |-> ""], [keyword |-> "user", dispchar |-> ""],
   [keyword |-> "password", dispchar |-> "*"],
   [keyword |-> "replication", dispchar |-> "D"],
   [keyword |-> "client_encoding", dispchar |-> ""]}

\* Lists without an option, with a file that is not there, and some that are
\* refused.  The jar of the second server has the class of the first one, too.
First ==
  [url |-> "u1", drivername |-> "D", jarfile |-> "d.jar", querytimeout |-> 10,
   maxheapsize |-> 600]
Second ==
  [url |-> "u2", drivername |-> "E", jarfile |-> "e.jar",
   querytimeout |-> 1000000000, maxheapsize |-> 99, host |-> "h"]

Without(list, K) == [k \in DOMAIN list \ K |-> list[k]]

MCOfferedTo ==
  [s1 |-> {First, [First EXCEPT !.jarfile = "none.jar"],
           First @@ [fdw_tuple_cost |-> -1]},
   s2 |-> {Second, Without(Second, {"url", "jarfile", "querytimeout", "maxheapsize"}),
           Second @@ [username |-> "y"]},
   m1 |-> {[username |-> "x", password |-> "p"]},
   m2 |-> {[username |-> "y", password |-> ""], [password |-> "q"]}]

MCJarClasses == [j \in {"d.jar", "e.jar"} |-> IF j = "d.jar" THEN {"D"} ELSE {"D", "E"}]
MCUrlsOf == [D |-> {"u1", "u2"}, E |-> {"u1", "u2"}]

MCRelationsIn == [u1 |-> <<"a", "b">>, u2 |-> <<"c">>]
MCNameOf == [a |-> "tab", b |-> "t_b", c |-> "Tab"]
MCFolded == [n \in {"tab", "t_b", "Tab"} |-> IF n = "Tab" THEN "tab" ELSE n]
MCLikePattern == {<<"t_b", "tab">>}

Int8 == [name |-> "i", type |-> "BYTE"]
Text == [name |-> "s", type |-> "STRING"]
Geometry == [name |-> "g", type |-> "UNKNOWN"]

MCDefinitions ==
  [a |-> {[columns |-> <<Int8, Text>>, key |-> {"i"}],
          [columns |-> <<Int8, Geometry>>, key |-> {"i"}]},
   b |-> {[columns |-> <<Int8>>, key |-> {}]},
   c |-> {[columns |-> <<Text>>, key |-> {"s"}]}]

OldTable == [columns |-> <<>>, server |-> "s2", droppable |-> TRUE]
OrdinaryTable == [columns |-> <<>>, server |-> NULL, droppable |-> FALSE]

\* No table, a foreign table in both schemas, only one of which is searched, or
\* an ordinary table in that one.
MCLocalInit ==
  {[s \in {"public", "other"} |->
      [n \in {"tab", "t_b"} |-> IF n = "tab" THEN tab[s] ELSE NULL]] :
     tab \in {[public |-> NULL, other |-> NULL],
              [public |-> OldTable, other |-> OldTable],
              [public |-> OrdinaryTable, other |-> OldTable]}}

MCSearchPath == <<"public">>
=============================================================================
