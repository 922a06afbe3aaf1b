--------------------------- MODULE IngestionService ---------------------------
(***************************************************************************)
(* src/src/ingestion/main.py: the ingestion process, which serves HTTP and *)
(* runs the consumer in one event loop, and the pool of db.py that the two *)
(* share.  The endpoint and the producer are those of LogProducer; of the  *)
(* consumer only its inserts are here (LogConsumer has the rest).          *)
(*                                                                         *)
(* get_pool() tests _pool, then awaits create_pool(), assigns _pool, and   *)
(* awaits CREATE TABLE: its callers interleave at the awaits, and the last *)
(* line returns whatever _pool is by then.                                 *)
(*                                                                         *)
(* An operator Bad... is a plausible mistake in the one it is named after; *)
(* no action uses it.                                                      *)
(***************************************************************************)
EXTENDS LogProducer

CONSTANTS
    MaxInserts,   \* bound: inserts that the consumer begins
    MaxDbFaults   \* bound: connections and statements that fail

ASSUME ServiceAssumption == MaxInserts \in Nat /\ MaxDbFaults \in Nat

VARIABLES
    server,    \* uvicorn: "starting", "serving", "closing", "down"
    consumer,  \* run_consumer(): "running", "ended"
    at,        \* at[c]: where get_pool() of the caller c is
    held,      \* held[c]: the pool that it returned
    pool,      \* _pool
    open,      \* the pools that are open
    tables,    \* raw_logs exists
    \* history and bounds, read by no action but as bounds
    made,      \* pools created
    overlaps,  \* calls of get_pool() that began while another one was under way
    unmade,    \* CREATE TABLE statements that failed
    missing,   \* inserts that found no table
    inserts, dbfaults

process == <<server, consumer>>
calls   == <<at, held>>
db      == <<pool, open, tables>>
trail   == <<made, overlaps, unmade, missing, inserts, dbfaults>>
service == <<process, calls, db, trail>>

Callers == {"startup", "consumer"}
NoPool  == 0

DbFault == dbfaults < MaxDbFaults /\ dbfaults' = dbfaults + 1
UnderWay(c) == at[c] \in {"creating", "tables"}

ServiceInit ==
    /\ Init
    /\ server = "starting" /\ consumer = "running"
    /\ at = [c \in Callers |-> "idle"] /\ held = [c \in Callers |-> NoPool]
    /\ pool = NoPool /\ open = {} /\ tables \in BOOLEAN
    /\ made = 0 /\ overlaps = 0 /\ unmade = 0 /\ missing = 0
    /\ inserts = 0 /\ dbfaults = 0

-----------------------------------------------------------------------------
(* get_pool().                                                             *)

\* The call begins: for the startup handler, or for an insert.
Calls(c) ==
    \/ c = "startup" /\ server = "starting" /\ UNCHANGED inserts
    \/ /\ c = "consumer" /\ consumer = "running" /\ inserts < MaxInserts
       /\ inserts' = inserts + 1

\* `_pool is None`.
BadNeedsPool == TRUE
NeedsPool    == pool = NoPool

GetPool(c) ==
    /\ up /\ at[c] = "idle"
    /\ Calls(c)
    /\ IF NeedsPool
       THEN at' = [at EXCEPT ![c] = "creating"] /\ UNCHANGED held
       ELSE at' = [at EXCEPT ![c] = "ready"] /\ held' = [held EXCEPT ![c] = pool]
    /\ overlaps' = IF \E d \in Callers \ {c} : UnderWay(d) THEN overlaps + 1 ELSE overlaps
    /\ UNCHANGED <<process, db, made, unmade, missing, dbfaults>>

\* create_pool() returns: _pool is assigned, and whatever it was is forgotten.
CreatePool(c) ==
    /\ up /\ at[c] = "creating"
    /\ made' = made + 1
    /\ pool' = made' /\ open' = open \cup {made'}
    /\ at' = [at EXCEPT ![c] = "tables"]
    /\ UNCHANGED <<process, held, tables, overlaps, unmade, missing, inserts, dbfaults>>

\* CREATE TABLE is done; the caller gets what _pool is now.
CreateTables(c) ==
    /\ up /\ at[c] = "tables"
    /\ tables' = TRUE
    /\ at' = [at EXCEPT ![c] = "ready"]
    /\ held' = [held EXCEPT ![c] = pool]
    /\ UNCHANGED <<process, pool, open, trail>>

\* create_pool() or CREATE TABLE raises, for want of a database or because two
\* processes create the table at once.  _pool stays as it is.  The startup
\* handler fails, and serve() returns; the insert of the consumer fails.
GetPoolRaises(c) ==
    /\ up /\ UnderWay(c) /\ DbFault
    /\ unmade' = IF at[c] = "tables" THEN unmade + 1 ELSE unmade
    /\ at' = [at EXCEPT ![c] = "idle"]
    /\ server' = IF c = "startup" THEN "down" ELSE server
    /\ UNCHANGED <<consumer, held, db, made, overlaps, missing, inserts>>

-----------------------------------------------------------------------------
(* The process.                                                            *)

\* "DB pool ready": the server answers requests from now on.
Startup ==
    /\ up /\ server = "starting" /\ at["startup"] = "ready"
    /\ server' = "serving"
    /\ UNCHANGED <<consumer, calls, db, trail>>

\* The INSERT, on the pool that get_pool() returned; it may fail for reasons of
\* its own, which changes nothing here.
Insert ==
    /\ up /\ at["consumer"] = "ready"
    /\ at' = [at EXCEPT !["consumer"] = "idle"]
    /\ missing' = IF ~ tables THEN missing + 1 ELSE missing
    /\ UNCHANGED <<process, held, db, made, overlaps, unmade, inserts, dbfaults>>

\* A signal stops the consumer, and only that: run_consumer() takes the signal
\* handlers of the server.
ConsumerStops ==
    /\ up /\ consumer = "running" /\ at["consumer"] = "idle"
    /\ consumer' = "ended"
    /\ UNCHANGED <<server, calls, db, trail>>

\* An exception of the consumer leaves gather(); the server is cancelled, and
\* its shutdown handler begins close_pool().
ConsumerFails ==
    /\ up /\ consumer = "running" /\ at["consumer"] = "idle"
    /\ consumer' = "ended"
    /\ server' = IF server = "serving" THEN "closing" ELSE "down"
    /\ at' = [at EXCEPT !["startup"] = "idle"]
    /\ UNCHANGED <<held, db, trail>>

\* close_pool(): the pool is closed, then forgotten.
ClosePool ==
    /\ up /\ server = "closing"
    /\ open' = open \ {pool} /\ pool' = NoPool
    /\ server' = "down"
    /\ UNCHANGED <<consumer, calls, tables, trail>>

\* The process ends, and with it every call, pool and connection.
ProcessEnds ==
    /\ Shutdown
    /\ server' = "down" /\ consumer' = "ended"
    /\ at' = [c \in Callers |-> "idle"] /\ held' = [c \in Callers |-> NoPool]
    /\ pool' = NoPool /\ open' = {}
    /\ UNCHANGED <<tables, trail>>

\* The endpoint answers while the server does.
AcceptRequest(request) == server = "serving" /\ Accept(request)

Produces ==
    \/ \E request \in SUBSET Entries : AcceptRequest(request)
    \/ \E e \in Entries : Step(e)
    \/ \E i \in DOMAIN buffer : Deliver(i) \/ DeliveryFails(i)

Serves ==
    \/ \E c \in Callers : GetPool(c) \/ CreatePool(c) \/ CreateTables(c) \/ GetPoolRaises(c)
    \/ Startup \/ Insert \/ ConsumerStops \/ ConsumerFails \/ ClosePool

ServiceNext ==
    \/ Produces /\ UNCHANGED service
    \/ Serves /\ UNCHANGED vars
    \/ ProcessEnds

ServiceSpec == ServiceInit /\ [][ServiceNext]_<<vars, service>> /\ Fairness

-----------------------------------------------------------------------------
(* Properties.                                                             *)

\* Type invariant.
ServiceTypeOK ==
    /\ TypeOK
    /\ server \in {"starting", "serving", "closing", "down"}
    /\ consumer \in {"running", "ended"}
    /\ at \in [Callers -> {"idle", "creating", "tables", "ready"}]
    /\ held \in [Callers -> 0..made] /\ pool \in 0..made /\ open \subseteq 1..made
    /\ tables \in BOOLEAN
    /\ {made, overlaps, unmade, missing, inserts, dbfaults} \subseteq Nat

\* Only calls of get_pool() that overlap forget an open pool, one each; and an
\* insert finds no table only if calls overlapped, so that it got a pool whose
\* tables were still to come, or after a CREATE TABLE failed, which no later
\* call repeats.
PoolTroubleHasACause ==
    /\ Cardinality(open \ {pool}) <= overlaps
    /\ missing > 0 => overlaps > 0 \/ unmade > 0
===============================================================================
