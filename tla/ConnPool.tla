------------------------------- MODULE ConnPool -------------------------------
(***************************************************************************)
(* The MySQL connection pool of mysql_connection_pool.c, and the two       *)
(* handlers that use it, deal_login_request (two connections) and          *)
(* deal_register_request (one).                                            *)
(*                                                                         *)
(* Grain.  Nothing protects a node but its own lock, and busy_number has   *)
(* none: trylock, the re-initialisation of the lock, mysql_init,           *)
(* mysql_real_connect, the stores of the connection's state, mysql_ping,   *)
(* each query, and the load and the store of busy_number are steps.  A     *)
(* store of `used' goes with the load of busy_number after it, a store of  *)
(* busy_number with the unlock after it.  Two threads inside one MYSQL     *)
(* object at the same time are two steps in some order.                    *)
(*                                                                         *)
(* The client library and the server are external: `link' is the state of  *)
(* the MYSQL object a node embeds, `leaked' the sessions the server keeps  *)
(* for objects that mysql_init has wiped.                                  *)
(***************************************************************************)
EXTENDS Integers, Sequences, FiniteSets

CONSTANTS
  Workers,     \* pool threads running a handler
  PoolSize,    \* min_num of sql_pool_create, 10 in main.c
  ServerMax,   \* max_connections of the server
  BusyBound,   \* bound of the model: busy_number drifts without limit, and is
               \* followed only this far from zero
  Faults       \* the environment events that may happen, see FaultKinds

FaultKinds ==
  { "refused",   \* mysql_real_connect fails
    "dropped",   \* the server closes an idle session
    "sigpipe" }  \* the client is gone when the handler replies

ASSUME ConnAssumption ==
  /\ PoolSize \in Nat \ {0}
  /\ ServerMax \in Nat
  /\ BusyBound \in Nat
  /\ Faults \subseteq FaultKinds

Nodes  == 0 .. PoolSize - 1
NoNode == -1                 \* the NULL that get_db_connect may return

VARIABLES
  phase,        \* of the process
  pool_number, busy_number,
  lock,         \* per node: its mutex is locked
  sql_state,    \* per node: DB_CONN or DB_DISCONN
  used,         \* per node
  handler,      \* per node: pSQLHandler is not NULL
  link,         \* per node: its MYSQL object
  leaked,       \* sessions no node refers to any more
  pc, kind,     \* per worker: where it is, in which handler
  at, tried,    \* per worker: index and i of get_db_connect
  tmp,          \* per worker: the busy_number it has loaded
  held,         \* per worker: what get_db_connect returned and it still holds
  reinit        \* history, per node: its lock was initialised again

node   == <<sql_state, used, handler, link>>
local  == <<kind, at, tried, tmp, held>>
vars   == <<phase, pool_number, busy_number, lock, node, leaked, pc, local, reinit>>

PCs == {"idle", "call", "try", "state", "reinit", "init", "connect", "up", "down",
        "ping", "granted", "giveback", "given", "query", "query2", "insert",
        "reply", "release", "released", "dead"}

(* "null": mysql_init'd.  "dirty": a result set is not read to its end, so *)
(* every other command is out of sync.  "lost", "dirty_lost": the server   *)
(* has hung up on an open, a dirty one.                                    *)
Links == {"null", "open", "dirty", "lost", "dirty_lost"}

Sessions == leaked + Cardinality({n \in Nodes : link[n] \in {"open", "dirty"}})

TypeOK ==
  /\ phase \in {"create", "destroy", "serve", "null", "crashed"}
  /\ pool_number \in 0 .. PoolSize
  /\ busy_number \in Int
  /\ lock \in [Nodes -> BOOLEAN]
  /\ sql_state \in [Nodes -> {"DISCONN", "CONN"}]
  /\ used \in [Nodes -> {0, 1}]
  /\ handler \in [Nodes -> BOOLEAN]
  /\ link \in [Nodes -> Links]
  /\ leaked \in Nat
  /\ pc \in [Workers -> PCs]
  /\ kind \in [Workers -> {"login", "register"}]
  /\ at \in [Workers -> Nodes]
  /\ tried \in [Workers -> Nodes]
  /\ tmp \in [Workers -> Int]
  /\ held \in [Workers -> Seq(Nodes \cup {NoNode})]
  /\ reinit \in [Nodes -> BOOLEAN]

Init ==
  /\ phase = "create" /\ pool_number = 0 /\ busy_number = 0
  /\ lock = [n \in Nodes |-> FALSE]
  /\ sql_state = [n \in Nodes |-> "DISCONN"]
  /\ used = [n \in Nodes |-> 0]
  /\ handler = [n \in Nodes |-> FALSE]
  /\ link = [n \in Nodes |-> "null"]
  /\ leaked = 0
  /\ pc = [w \in Workers |-> "idle"]
  /\ kind = [w \in Workers |-> "login"]
  /\ at = [w \in Workers |-> 0]
  /\ tried = [w \in Workers |-> 0]
  /\ tmp = [w \in Workers |-> 0]
  /\ held = [w \in Workers |-> <<>>]
  /\ reinit = [n \in Nodes |-> FALSE]

Serving == phase = "serve"

Near(x) == IF x > BusyBound THEN BusyBound
           ELSE IF x < -BusyBound THEN -BusyBound ELSE x
Goto(w, l) == pc' = [pc EXCEPT ![w] = l]

(* Using a NULL pool, node or handler ends the process.                    *)
Crash ==
  /\ phase' = "crashed"
  /\ UNCHANGED <<pool_number, busy_number, lock, node, leaked, pc, local, reinit>>

-----------------------------------------------------------------------------
(* mysql_real_connect as the code calls it: it may succeed while the       *)
(* server has sessions left, fails when the object is connected already,   *)
(* and may fail when the server refuses.                                   *)
MayConnect(n)    == link[n] = "null" /\ Sessions < ServerMax
MayNotConnect(n) == ~MayConnect(n) \/ "refused" \in Faults

(* sql_pool_create, one turn of its loop: create_db_connect on a new node. *)
CreateNode ==
  /\ phase = "create"
  /\ pool_number < PoolSize
  /\ MayConnect(pool_number)
  /\ link' = [link EXCEPT ![pool_number] = "open"]
  /\ handler' = [handler EXCEPT ![pool_number] = TRUE]
  /\ sql_state' = [sql_state EXCEPT ![pool_number] = "CONN"]
  /\ pool_number' = pool_number + 1
  /\ phase' = IF pool_number + 1 = PoolSize THEN "serve" ELSE "create"
  /\ UNCHANGED <<busy_number, lock, used, leaked, pc, local, reinit>>

CreateFails ==
  /\ phase = "create"
  /\ pool_number < PoolSize
  /\ MayNotConnect(pool_number)
  /\ phase' = "destroy"
  /\ UNCHANGED <<pool_number, busy_number, lock, node, leaked, pc, local, reinit>>

(* sql_pool_destroy, which sql_pool_create calls then: the loop's index    *)
(* goes up while the bound it is compared with goes down, so it closes the *)
(* nodes below half of pool_number, rounded up.  sql_pool_create returns   *)
(* NULL and main goes on.                                                  *)
DestroyBound == (pool_number + 1) \div 2

DestroyPool ==
  /\ phase = "destroy"
  /\ LET closed == {n \in Nodes : n < DestroyBound} IN
       /\ link' = [n \in Nodes |-> IF n \in closed THEN "null" ELSE link[n]]
       /\ handler' = [n \in Nodes |-> n \notin closed /\ handler[n]]
       /\ sql_state' = [n \in Nodes |-> IF n \in closed THEN "DISCONN" ELSE sql_state[n]]
  /\ pool_number' = pool_number - DestroyBound
  /\ phase' = "null"
  /\ UNCHANGED <<busy_number, lock, used, leaked, pc, local, reinit>>

-----------------------------------------------------------------------------
(* A worker starts a handler.                                              *)
StartJob(w, k) ==
  /\ phase \in {"serve", "null"}
  /\ pc[w] = "idle"
  /\ kind' = [kind EXCEPT ![w] = k]
  /\ Goto(w, "call")
  /\ UNCHANGED <<phase, pool_number, busy_number, lock, node, leaked, at, tried,
                 tmp, held, reinit>>

(* get_db_connect: a random node to start from.                            *)
GetNull(w) ==
  /\ phase = "null" /\ pc[w] = "call"
  /\ Crash

Get(w) ==
  /\ Serving /\ pc[w] = "call"
  /\ \E n \in 0 .. pool_number - 1 : at' = [at EXCEPT ![w] = n]
  /\ tried' = [tried EXCEPT ![w] = 0]
  /\ Goto(w, "try")
  /\ UNCHANGED <<phase, pool_number, busy_number, lock, node, leaked, kind, tmp,
                 held, reinit>>

(* What the handler does once get_db_connect has returned n: the second    *)
(* call of deal_login_request, or the first query.                         *)
Return(w, n) ==
  /\ held' = [held EXCEPT ![w] = Append(@, n)]
  /\ Goto(w, IF kind[w] = "login" /\ held[w] = <<>> THEN "call" ELSE "query")
  /\ at' = [at EXCEPT ![w] = 0] /\ tried' = [tried EXCEPT ![w] = 0]

NextIndexPast(n) == n + 1                                         \* mutant
NextIndex(n)     == (n + 1) % pool_number

(* The next turn of the loop, or NULL after the last one.                  *)
NextNode(w) ==
  IF tried[w] + 1 = pool_number
    THEN Return(w, NoNode)
    ELSE /\ tried' = [tried EXCEPT ![w] = @ + 1]
         /\ at' = [at EXCEPT ![w] = NextIndex(@)]
         /\ Goto(w, "try")
         /\ UNCHANGED held

AlwaysFree(n) == TRUE                                             \* mutant
FreeToTry(n)  == ~lock[n]

NeverBusy(n) == FALSE                                             \* mutant
BusyToTry(n) == lock[n]

(* pthread_mutex_trylock.                                                  *)
TryFree(w) ==
  /\ Serving /\ pc[w] = "try"
  /\ FreeToTry(at[w])
  /\ lock' = [lock EXCEPT ![at[w]] = TRUE]
  /\ Goto(w, "state")
  /\ UNCHANGED <<phase, pool_number, busy_number, node, leaked, local, reinit>>

TryBusy(w) ==
  /\ Serving /\ pc[w] = "try"
  /\ BusyToTry(at[w])
  /\ NextNode(w)
  /\ UNCHANGED <<phase, pool_number, busy_number, lock, node, leaked, kind, tmp,
                 reinit>>

ReadState(w) ==
  /\ Serving /\ pc[w] = "state"
  /\ Goto(w, IF sql_state[at[w]] = "DISCONN" THEN "reinit" ELSE "ping")
  /\ UNCHANGED <<phase, pool_number, busy_number, lock, node, leaked, local, reinit>>

-----------------------------------------------------------------------------
(* create_db_connect on a node whose lock the caller holds.                *)

Reinit(w) ==
  /\ Serving /\ pc[w] = "reinit"
  /\ lock' = [lock EXCEPT ![at[w]] = FALSE]
  /\ reinit' = [reinit EXCEPT ![at[w]] = TRUE]
  /\ Goto(w, "init")
  /\ UNCHANGED <<phase, pool_number, busy_number, node, leaked, local>>

(* mysql_init over an object that is connected forgets the session.        *)
InitHandle(w) ==
  /\ Serving /\ pc[w] = "init"
  /\ link' = [link EXCEPT ![at[w]] = "null"]
  /\ leaked' = IF link[at[w]] \in {"open", "dirty"} THEN leaked + 1 ELSE leaked
  /\ Goto(w, "connect")
  /\ UNCHANGED <<phase, pool_number, busy_number, lock, sql_state, used, handler,
                 local, reinit>>

Connect(w) ==
  /\ Serving /\ pc[w] = "connect"
  /\ \/ /\ MayConnect(at[w])
        /\ link' = [link EXCEPT ![at[w]] = "open"]
        /\ handler' = [handler EXCEPT ![at[w]] = TRUE]
        /\ Goto(w, "up")
     \/ /\ MayNotConnect(at[w])
        /\ handler' = [handler EXCEPT ![at[w]] = FALSE]
        /\ Goto(w, "down")
        /\ UNCHANGED link
  /\ UNCHANGED <<phase, pool_number, busy_number, lock, sql_state, used, leaked,
                 local, reinit>>

Connected(w) ==
  /\ Serving /\ pc[w] = "up"
  /\ used' = [used EXCEPT ![at[w]] = 0]
  /\ sql_state' = [sql_state EXCEPT ![at[w]] = "CONN"]
  /\ Goto(w, "ping")
  /\ UNCHANGED <<phase, pool_number, busy_number, lock, handler, link, leaked,
                 local, reinit>>

NotConnected(w) ==
  /\ Serving /\ pc[w] = "down"
  /\ sql_state' = [sql_state EXCEPT ![at[w]] = "DISCONN"]
  /\ Goto(w, "giveback")
  /\ UNCHANGED <<phase, pool_number, busy_number, lock, used, handler, link, leaked,
                 local, reinit>>

-----------------------------------------------------------------------------
(* The rest of the turn: the ping, then the grant or the release.          *)

PingNull(w) ==
  /\ Serving /\ pc[w] = "ping"
  /\ ~handler[at[w]]
  /\ Crash

(* mysql_ping fails on a connection with an unread result.                 *)
Answers(n) == link[n] = "open"

PingUnread(n) == TRUE                                             \* mutant
PingRead(n)   == Answers(n)

(* A lost session is opened again by the ping (MYSQL_OPT_RECONNECT).       *)
PingOk(w) ==
  /\ Serving /\ pc[w] = "ping"
  /\ handler[at[w]]
  /\ \/ PingRead(at[w]) /\ UNCHANGED link
     \/ /\ link[at[w]] = "lost" /\ Sessions < ServerMax
        /\ link' = [link EXCEPT ![at[w]] = "open"]
  /\ used' = [used EXCEPT ![at[w]] = 1]
  /\ tmp' = [tmp EXCEPT ![w] = busy_number]
  /\ Goto(w, "granted")
  /\ UNCHANGED <<phase, pool_number, busy_number, lock, sql_state, handler, leaked,
                 kind, at, tried, held, reinit>>

PingFails(w) ==
  /\ Serving /\ pc[w] = "ping"
  /\ handler[at[w]]
  /\ ~PingRead(at[w])
  /\ link[at[w]] = "lost" => Sessions >= ServerMax \/ "refused" \in Faults
  /\ sql_state' = [sql_state EXCEPT ![at[w]] = "DISCONN"]
  /\ Goto(w, "giveback")
  /\ UNCHANGED <<phase, pool_number, busy_number, lock, used, handler, link, leaked,
                 local, reinit>>

Grant(w) ==
  /\ Serving /\ pc[w] = "granted"
  /\ busy_number' = Near(tmp[w] + 1)
  /\ tmp' = [tmp EXCEPT ![w] = 0]
  /\ Return(w, at[w])
  /\ UNCHANGED <<phase, pool_number, lock, node, leaked, kind, reinit>>

(* release_sql_node(n): the store of used and the load of busy_number,     *)
(* then the store of busy_number and the unlock.                           *)
ReleaseBegin(w, n) ==
  /\ used' = [used EXCEPT ![n] = 0]
  /\ tmp' = [tmp EXCEPT ![w] = busy_number]
  /\ UNCHANGED <<phase, pool_number, busy_number, lock, sql_state, handler, link,
                 leaked, kind, at, tried, held, reinit>>

KeepLock(n) == UNCHANGED lock                                     \* mutant
Unlock(n)   == lock' = [lock EXCEPT ![n] = FALSE]

ReleaseEnd(w, n) ==
  /\ busy_number' = Near(tmp[w] - 1)
  /\ tmp' = [tmp EXCEPT ![w] = 0]
  /\ Unlock(n)
  /\ UNCHANGED <<phase, pool_number, node, leaked, reinit>>

GiveBack(w) ==
  /\ Serving /\ pc[w] = "giveback"
  /\ ReleaseBegin(w, at[w])
  /\ Goto(w, "given")

GivenBack(w) ==
  /\ Serving /\ pc[w] = "given"
  /\ ReleaseEnd(w, at[w])
  /\ NextNode(w)
  /\ UNCHANGED kind

-----------------------------------------------------------------------------
(* The handlers.                                                           *)

Usable(n) == n # NoNode /\ handler[n]

(* A query that returns a row leaves the rest of its result unread: every  *)
(* path that has a row returns before mysql_free_result.  One that returns *)
(* none has read the result to its end.  A lost session is opened again.   *)
Reached(n) ==
  link[n] = "open" \/ (link[n] = "lost" /\ Sessions < ServerMax)
Row(n)   == Reached(n) /\ link' = [link EXCEPT ![n] = "dirty"]
NoRow(n) == Reached(n) /\ link' = [link EXCEPT ![n] = "open"]
Error(n) == UNCHANGED link

(* get_user_info on the first node, or check_user_info in a registration.  *)
QueryNull(w) ==
  /\ Serving
  /\ \/ pc[w] = "query"  /\ ~Usable(held[w][1])
     \/ pc[w] = "query2" /\ ~Usable(held[w][2])
     \/ pc[w] = "insert" /\ ~Usable(held[w][1])
     \/ pc[w] = "release" /\ held[w] # <<>> /\ Head(held[w]) = NoNode
  /\ Crash

Query(w) ==
  /\ Serving /\ pc[w] = "query"
  /\ Usable(held[w][1])
  /\ \/ /\ Row(held[w][1]) \/ Error(held[w][1])
        /\ Goto(w, IF kind[w] = "login" THEN "query2" ELSE "reply")
     \/ /\ NoRow(held[w][1])
        /\ Goto(w, IF kind[w] = "login" THEN "reply" ELSE "insert")
  /\ UNCHANGED <<phase, pool_number, busy_number, lock, sql_state, used, handler,
                 leaked, local, reinit>>

(* check_user_info on the second node.                                     *)
Query2(w) ==
  /\ Serving /\ pc[w] = "query2"
  /\ Usable(held[w][2])
  /\ Row(held[w][2]) \/ NoRow(held[w][2]) \/ Error(held[w][2])
  /\ Goto(w, "reply")
  /\ UNCHANGED <<phase, pool_number, busy_number, lock, sql_state, used, handler,
                 leaked, local, reinit>>

(* insert_user: its statements return no result set.                       *)
Insert(w) ==
  /\ Serving /\ pc[w] = "insert"
  /\ Usable(held[w][1])
  /\ NoRow(held[w][1]) \/ Error(held[w][1])
  /\ Goto(w, "reply")
  /\ UNCHANGED <<phase, pool_number, busy_number, lock, sql_state, used, handler,
                 leaked, local, reinit>>

Reply(w) ==
  /\ Serving /\ pc[w] = "reply"
  /\ Goto(w, "release")
  /\ UNCHANGED <<phase, pool_number, busy_number, lock, node, leaked, local, reinit>>

(* handle_pipe ends the thread inside write: nothing is released.          *)
ReplySigPipe(w) ==
  /\ "sigpipe" \in Faults
  /\ Serving /\ pc[w] = "reply"
  /\ Goto(w, "dead")
  /\ UNCHANGED <<phase, pool_number, busy_number, lock, node, leaked, local, reinit>>

Release(w) ==
  /\ Serving /\ pc[w] = "release"
  /\ held[w] # <<>> /\ Head(held[w]) # NoNode
  /\ ReleaseBegin(w, Head(held[w]))
  /\ Goto(w, "released")

(* After its last release the handler returns.  (A worker's kind, at,      *)
(* tried and tmp are put back to their first values once they are dead.)   *)
Released(w) ==
  /\ Serving /\ pc[w] = "released"
  /\ ReleaseEnd(w, Head(held[w]))
  /\ held' = [held EXCEPT ![w] = Tail(@)]
  /\ Goto(w, IF Len(held[w]) = 1 THEN "idle" ELSE "release")
  /\ kind' = [kind EXCEPT ![w] = "login"]
  /\ UNCHANGED <<at, tried>>

(* The server closes the session of a node, or one nobody refers to.       *)
ServerDrops ==
  /\ "dropped" \in Faults
  /\ Serving
  /\ \/ /\ \E n \in Nodes :
             \/ link[n] = "open"  /\ link' = [link EXCEPT ![n] = "lost"]
             \/ link[n] = "dirty" /\ link' = [link EXCEPT ![n] = "dirty_lost"]
        /\ UNCHANGED leaked
     \/ leaked > 0 /\ leaked' = leaked - 1 /\ UNCHANGED link
  /\ UNCHANGED <<phase, pool_number, busy_number, lock, sql_state, used, handler, pc,
                 local, reinit>>

-----------------------------------------------------------------------------
WorkerStep(w) ==
  \/ GetNull(w) \/ Get(w) \/ TryFree(w) \/ TryBusy(w) \/ ReadState(w)
  \/ Reinit(w) \/ InitHandle(w) \/ Connect(w) \/ Connected(w) \/ NotConnected(w)
  \/ PingNull(w) \/ PingOk(w) \/ PingFails(w) \/ Grant(w) \/ GiveBack(w)
  \/ GivenBack(w) \/ QueryNull(w) \/ Query(w) \/ Query2(w) \/ Insert(w) \/ Reply(w)
  \/ Release(w) \/ Released(w)

Next ==
  \/ CreateNode \/ CreateFails \/ DestroyPool
  \/ \E w \in Workers : \/ \E k \in {"login", "register"} : StartJob(w, k)
                        \/ WorkerStep(w)
                        \/ ReplySigPipe(w)
  \/ ServerDrops

Spec == Init /\ [][Next]_vars

(* A running thread keeps running; nobody waits for a lock here.           *)
FairSpec == Spec /\ \A w \in Workers : WF_vars(WorkerStep(w))

-----------------------------------------------------------------------------
(* Properties.                                                             *)

Range(f) == {f[k] : k \in DOMAIN f}

(* The nodes whose lock w has taken and not yet given back; those          *)
(* get_db_connect has returned to it.                                      *)
InLoop(w)  == pc[w] \in {"state", "reinit", "init", "connect", "up", "down", "ping",
                        "granted", "giveback", "given"}
Granted(w) == Range(held[w]) \ {NoNode}
Holds(w)   == Granted(w) \cup (IF InLoop(w) THEN {at[w]} ELSE {})

(* No connection is put out of use by a path that forgets it: a node that  *)
(* is locked or marked used has a holder that will still give it back (or  *)
(* a thread that died with it), through every failed ping and reconnect.   *)
LockedIsHeld ==
  \A n \in Nodes : lock[n] \/ used[n] = 1 => \E w \in Workers : n \in Holds(w)

(* A node is in one pair of hands at a time, until create_db_connect first *)
(* initialises its lock again: that is the only way to lose exclusion.     *)
OneHolder ==
  \A n \in Nodes : ~reinit[n] =>
    /\ \A v, w \in Workers : n \in Holds(v) \cap Holds(w) => v = w
    /\ \A w \in Workers : InLoop(w) /\ at[w] = n => n \notin Granted(w)
    /\ \A w \in Workers : \A j, k \in DOMAIN held[w] :
         held[w][j] = n /\ held[w][k] = n => j = k

(* The nodes w has been given and has not queried yet.                     *)
Fresh(w) ==
  CASE pc[w] = "granted" -> {at[w]} \cup Granted(w)
    [] pc[w] = "query"   -> Granted(w)
    [] pc[w] = "query2"  -> {held[w][2]} \ {NoNode}
    [] pc[w] = "call" \/ (InLoop(w) /\ pc[w] # "granted") -> Granted(w)
    [] OTHER -> {}

(* The ping screens what the last handler left behind: until its lock is   *)
(* initialised again, no handler starts on a connection with an unread     *)
(* result (whose first query would fail and be taken for an answer).       *)
PingScreens ==
  \A w \in Workers, n \in Nodes :
    n \in Fresh(w) /\ ~reinit[n] => link[n] \notin {"dirty", "dirty_lost"}

(* Every handler ends, whoever else holds connections or died with them:   *)
(* a handler with one connection never waits for its second.               *)
JobsEnd ==
  \A w \in Workers : pc[w] # "idle" ~> (pc[w] \in {"idle", "dead"} \/ phase = "crashed")

(* news_reader.h:210, the lock restricts what threads do to a node: no two *)
(* of them run queries on it at the same time.                             *)
Querying(w) ==
  pc[w] \in {"query", "query2", "insert"} /\ NoNode \notin Range(held[w])

Exclusive ==
  \A v, w \in Workers :
    v # w /\ Querying(v) /\ Querying(w) => Granted(v) \cap Granted(w) = {}

(* news_reader.h:225, busy_number is the number of connections handed out. *)
BusyCount ==
  (\A w \in Workers : pc[w] = "idle") => busy_number = 0

(* news_reader.h:224, pool_number is the number of connections.            *)
SessionsCounted == Serving => Sessions <= pool_number

(* The usage example at mysql_connection_pool.c:226 tests for NULL before  *)
(* it uses a node; then running out of connections is no crash.            *)
NeverCrashes == Faults = {} => phase # "crashed"

(* mysql_connection_pool.c:42, a failed creation destroys the pool.        *)
DestroyCloses == phase = "null" => Sessions = 0
=============================================================================
