------------------------------ MODULE TenantPool ------------------------------
(***************************************************************************)
(* The connection pool of a process and the sessions of its tenants.  A    *)
(* session takes a connection of the pool and points search_path to the    *)
(* schema of its company; it is given back as it is.  Some handlers of the *)
(* worker need a second connection, for a statement on the control         *)
(* database, while they hold the first: that one's search_path is whatever *)
(* its last user left.                                                     *)
(***************************************************************************)
EXTENDS Naturals, FiniteSets

CONSTANTS
  Conn,         \* SetMaxOpenConns
  Handler,      \* receive loops of the worker: one message each at a time
  Schema,       \* schemas of companies
  TenantTable,  \* names of the tables of a company
  PublicTable,  \* names of the tables of the control database
  Public, NoConn, NoHandler

ASSUME TenantPoolAssumption ==
  /\ IsFiniteSet(Conn) /\ IsFiniteSet(Handler)
  /\ Cardinality(Handler) < Cardinality(Conn)
  /\ TenantTable \cap PublicTable = {}
  /\ Public \notin Schema /\ NoConn \notin Conn /\ NoHandler \notin Handler

VARIABLES
  path,   \* path[c]: the schema before "public" in the search_path of connection c
  held,   \* held[c]: who has connection c, or NoHandler
  run     \* run[h]: what handler h is at

poolVars == <<path, held, run>>

Session == [step : {"idle", "acquire", "set", "work", "second", "plain"},
            schema : Schema \cup {Public}, conn : Conn \cup {NoConn},
            second : Conn \cup {NoConn}]

NoSession == [step |-> "idle", schema |-> Public, conn |-> NoConn, second |-> NoConn]

Free(c) == held[c] = NoHandler

PoolInit ==
  /\ path = [c \in Conn |-> Public]
  /\ held = [c \in Conn |-> NoHandler]
  /\ run = [h \in Handler |-> NoSession]

\* A message of a company arrives.
Begin(h, s) ==
  /\ run[h].step = "idle"
  /\ run' = [run EXCEPT ![h] = [NoSession EXCEPT !.step = "acquire", !.schema = s]]
  /\ UNCHANGED <<path, held>>

\* Variant: search_path is set on the connections that have none.
TenantConnReused(h, c) ==
  /\ run[h].step = "acquire" /\ Free(c)
  /\ held' = [held EXCEPT ![c] = h]
  /\ run' = [run EXCEPT ![h].conn = c, ![h].step = IF path[c] = Public THEN "set" ELSE "work"]
  /\ UNCHANGED path

TenantConn(h, c) ==
  /\ run[h].step = "acquire" /\ Free(c)
  /\ held' = [held EXCEPT ![c] = h]
  /\ run' = [run EXCEPT ![h].conn = c, ![h].step = "set"]
  /\ UNCHANGED path

SetSearchPath(h) ==
  /\ run[h].step = "set"
  /\ path' = [path EXCEPT ![run[h].conn] = run[h].schema]
  /\ run' = [run EXCEPT ![h].step = "work"]
  /\ UNCHANGED held

\* The statement fails: the connection is closed, the message comes again.
SetSearchPathFails(h) ==
  /\ run[h].step = "set"
  /\ path' \in {path, [path EXCEPT ![run[h].conn] = Public]}
  /\ held' = [held EXCEPT ![run[h].conn] = NoHandler]
  /\ run' = [run EXCEPT ![h] = NoSession]

\* getCompanyRFC, or the flag of the certificates: a statement on Primary.
NeedSecond(h) ==
  /\ run[h].step = "work"
  /\ run' = [run EXCEPT ![h].step = "second"]
  /\ UNCHANGED <<path, held>>

AcquireSecond(h, c) ==
  /\ run[h].step = "second" /\ Free(c)
  /\ held' = [held EXCEPT ![c] = h]
  /\ run' = [run EXCEPT ![h].second = c, ![h].step = "plain"]
  /\ UNCHANGED path

\* Variant: the connection of the second statement is not given back.
ReleaseSecondLeaks(h) ==
  /\ run[h].step = "plain"
  /\ run' = [run EXCEPT ![h].second = NoConn, ![h].step = "work"]
  /\ UNCHANGED <<path, held>>

ReleaseSecond(h) ==
  /\ run[h].step = "plain"
  /\ held' = [held EXCEPT ![run[h].second] = NoHandler]
  /\ run' = [run EXCEPT ![h].second = NoConn, ![h].step = "work"]
  /\ UNCHANGED path

\* The deferred Close, on every return.
CloseConn(h) ==
  /\ run[h].step = "work"
  /\ held' = [held EXCEPT ![run[h].conn] = NoHandler]
  /\ run' = [run EXCEPT ![h] = NoSession]
  /\ UNCHANGED path

\* An idle connection reaches its lifetime, and a new one takes its place.
Expire(c) ==
  /\ Free(c)
  /\ path' = [path EXCEPT ![c] = Public]
  /\ UNCHANGED <<held, run>>

\* ApplyEmbeddedTenantDDL: every name in the DDL is qualified; the reset that follows
\* it runs on some free connection, not always the same.
ApplyTenantDDL(c) ==
  /\ Free(c)
  /\ path' \in {path, [path EXCEPT ![c] = Public]}
  /\ UNCHANGED <<held, run>>

PoolNext ==
  \/ \E h \in Handler :
       \/ \E s \in Schema : Begin(h, s)
       \/ \E c \in Conn : TenantConn(h, c) \/ AcquireSecond(h, c)
       \/ SetSearchPath(h)
       \/ SetSearchPathFails(h)
       \/ NeedSecond(h)
       \/ ReleaseSecond(h)
       \/ CloseConn(h)
  \/ \E c \in Conn : Expire(c) \/ ApplyTenantDDL(c)

PoolSpec == PoolInit /\ [][PoolNext]_poolVars

-----------------------------------------------------------------------------
(* Properties *)

\* The schema in which a connection finds a table.
Finds(c, t) == IF t \in TenantTable /\ path[c] # Public THEN path[c] ELSE Public

\* No statement of a session reaches the tables of another company, and none on the
\* control database those of a company, whatever the connections were used for before.
OwnTables ==
  \A h \in Handler :
    /\ run[h].step \in {"work", "second", "plain"} =>
         \A t \in TenantTable : Finds(run[h].conn, t) = run[h].schema
    /\ run[h].step = "plain" =>
         \A t \in PublicTable : Finds(run[h].second, t) = Public

Waits(h) == run[h].step \in {"acquire", "second"}

\* The handlers never all wait for a connection while the pool has none left: with
\* fewer receive loops than connections, one of them can always go on.
NotStuck ==
  ~ /\ \A c \in Conn : ~Free(c)
    /\ \E h \in Handler : Waits(h)
    /\ \A h \in Handler : Waits(h) \/ run[h].step = "idle"

=============================================================================
