--------------------------- MODULE ConnPoolProofs ---------------------------
(***************************************************************************)
(* Theorems about ConnPool, for every number of workers and connections,   *)
(* every limit of the server and every set of faults.                      *)
(***************************************************************************)
EXTENDS ConnPool, TLAPS

PhaseOK    == Serving => pool_number = PoolSize
ReleasesOK == \A w \in Workers :
  pc[w] = "released" => held[w] # <<>> /\ Head(held[w]) # NoNode

TypeInv == TypeOK /\ PhaseOK /\ ReleasesOK

LEMMA InitTypeInv == Init => TypeInv
<1> SUFFICES ASSUME Init PROVE TypeInv
  OBVIOUS
<1>1. held \in [Workers -> Seq(Nodes \cup {NoNode})]
  BY DEF Init
<1>2. pc \in [Workers -> PCs] /\ kind \in [Workers -> {"login", "register"}]
  BY DEF Init, PCs
<1>3. /\ at \in [Workers -> Nodes] /\ tried \in [Workers -> Nodes]
      /\ tmp \in [Workers -> Int]
  BY ConnAssumption DEF Init, Nodes
<1>4. /\ lock \in [Nodes -> BOOLEAN] /\ handler \in [Nodes -> BOOLEAN]
      /\ reinit \in [Nodes -> BOOLEAN]
  BY DEF Init
<1>5. /\ sql_state \in [Nodes -> {"DISCONN", "CONN"}] /\ used \in [Nodes -> {0, 1}]
      /\ link \in [Nodes -> Links]
  BY DEF Init, Links
<1>6. /\ phase = "create" /\ pool_number \in 0 .. PoolSize /\ busy_number \in Int
      /\ leaked \in Nat
  BY ConnAssumption DEF Init
<1>7. \A w \in Workers : pc[w] # "released"
  BY DEF Init
<1> QED BY <1>1, <1>2, <1>3, <1>4, <1>5, <1>6, <1>7
  DEF TypeInv, TypeOK, PhaseOK, ReleasesOK, Serving

-----------------------------------------------------------------------------
(* The parts of the steps that several of them share.                      *)
LEMMA NearIsInt == ASSUME NEW x \in Int PROVE Near(x) \in Int
BY ConnAssumption DEF Near

LEMMA ReturnTypes ==
  ASSUME TypeInv, NEW w \in Workers, NEW n \in Nodes \cup {NoNode}, Return(w, n)
  PROVE  /\ held' \in [Workers -> Seq(Nodes \cup {NoNode})]
         /\ pc' \in [Workers -> PCs]
         /\ at' \in [Workers -> Nodes] /\ tried' \in [Workers -> Nodes]
         /\ \A v \in Workers : pc'[v] = "released" => v # w /\ held'[v] = held[v]
                                                     /\ pc[v] = "released"
<1>1. held' \in [Workers -> Seq(Nodes \cup {NoNode})]
  <2>1. Append(held[w], n) \in Seq(Nodes \cup {NoNode})
    BY DEF TypeInv, TypeOK
  <2> QED BY <2>1 DEF Return, TypeInv, TypeOK
<1>2. 0 \in Nodes
  BY ConnAssumption DEF Nodes
<1> QED BY <1>1, <1>2 DEF Return, Goto, PCs, TypeInv, TypeOK

LEMMA NextNodeTypes ==
  ASSUME TypeInv, Serving, NEW w \in Workers, NextNode(w)
  PROVE  /\ held' \in [Workers -> Seq(Nodes \cup {NoNode})]
         /\ pc' \in [Workers -> PCs]
         /\ at' \in [Workers -> Nodes] /\ tried' \in [Workers -> Nodes]
         /\ \A v \in Workers : pc'[v] = "released" => v # w /\ held'[v] = held[v]
                                                     /\ pc[v] = "released"
<1>1. CASE tried[w] + 1 = pool_number
  BY <1>1, ReturnTypes DEF NextNode
<1>2. CASE tried[w] + 1 # pool_number
  <2>1. tried[w] + 1 \in Nodes
    <3>1. tried[w] \in 0 .. PoolSize - 1 /\ pool_number = PoolSize
      BY DEF TypeInv, TypeOK, PhaseOK, Nodes
    <3> QED BY <1>2, <3>1, ConnAssumption DEF Nodes
  <2>2. NextIndex(at[w]) \in Nodes
    BY ConnAssumption DEF NextIndex, TypeInv, TypeOK, PhaseOK, Nodes
  <2> QED BY <1>2, <2>1, <2>2 DEF NextNode, Goto, PCs, TypeInv, TypeOK
<1> QED BY <1>1, <1>2

LEMMA StepTypeInv == TypeInv /\ [Next]_vars => TypeInv'
<1> SUFFICES ASSUME TypeInv, [Next]_vars PROVE TypeInv'
  OBVIOUS
<1> USE ConnAssumption DEF TypeInv, TypeOK, PhaseOK, ReleasesOK, Serving, node, local
<1>1. CASE UNCHANGED vars
  BY <1>1 DEF vars
<1>2. CASE CreateNode
  <2>1. /\ link' \in [Nodes -> Links] /\ handler' \in [Nodes -> BOOLEAN]
        /\ sql_state' \in [Nodes -> {"DISCONN", "CONN"}]
    BY <1>2 DEF CreateNode, Links
  <2>2. /\ pool_number' \in 0 .. PoolSize /\ phase' \in {"create", "serve"}
        /\ phase' = "serve" => pool_number' = PoolSize
    BY <1>2 DEF CreateNode
  <2> QED BY <1>2, <2>1, <2>2 DEF CreateNode
<1>3. CASE CreateFails
  BY <1>3 DEF CreateFails
<1>4. CASE DestroyPool
  <2>1. pool_number' \in 0 .. PoolSize
    BY <1>4 DEF DestroyPool, DestroyBound
  <2>2. /\ link' \in [Nodes -> Links] /\ handler' \in [Nodes -> BOOLEAN]
        /\ sql_state' \in [Nodes -> {"DISCONN", "CONN"}]
    BY <1>4 DEF DestroyPool, Links
  <2> QED BY <1>4, <2>1, <2>2 DEF DestroyPool
<1>5. ASSUME NEW w \in Workers, NEW k \in {"login", "register"}, StartJob(w, k)
      PROVE  TypeInv'
  BY <1>5 DEF StartJob, Goto, PCs
<1>6. CASE Crash
  BY <1>6 DEF Crash
<1>7. ASSUME NEW w \in Workers, Get(w) PROVE TypeInv'
  <2>1. at' \in [Workers -> Nodes] /\ tried' \in [Workers -> Nodes]
    BY <1>7 DEF Get, Nodes
  <2> QED BY <1>7, <2>1 DEF Get, Goto, PCs
<1>8. ASSUME NEW w \in Workers, TryFree(w) PROVE TypeInv'
  BY <1>8 DEF TryFree, Goto, PCs
<1>9. ASSUME NEW w \in Workers, TryBusy(w) PROVE TypeInv'
  <2>1. Serving /\ NextNode(w)
    BY <1>9 DEF TryBusy
  <2> QED BY <1>9, <2>1, NextNodeTypes DEF TryBusy
<1>10. ASSUME NEW w \in Workers, ReadState(w) PROVE TypeInv'
  BY <1>10 DEF ReadState, Goto, PCs
<1>11. ASSUME NEW w \in Workers, Reinit(w) PROVE TypeInv'
  BY <1>11 DEF Reinit, Goto, PCs
<1>12. ASSUME NEW w \in Workers, InitHandle(w) PROVE TypeInv'
  BY <1>12 DEF InitHandle, Goto, PCs, Links
<1>13. ASSUME NEW w \in Workers, Connect(w) PROVE TypeInv'
  <2>1. link' \in [Nodes -> Links]
    BY <1>13 DEF Connect, Links
  <2>2. handler' \in [Nodes -> BOOLEAN]
    BY <1>13 DEF Connect
  <2>3. pc' \in [Workers -> PCs] /\ \A v \in Workers : pc'[v] = "released" => pc[v] = "released"
    BY <1>13 DEF Connect, Goto, PCs
  <2> QED BY <1>13, <2>1, <2>2, <2>3 DEF Connect
<1>14. ASSUME NEW w \in Workers, Connected(w) \/ NotConnected(w) PROVE TypeInv'
  BY <1>14 DEF Connected, NotConnected, Goto, PCs
<1>15. ASSUME NEW w \in Workers, PingOk(w) PROVE TypeInv'
  <2>1. link' \in [Nodes -> Links]
    <3>1. link' = link \/ link' = [link EXCEPT ![at[w]] = "open"]
      BY <1>15 DEF PingOk
    <3> QED BY <3>1 DEF Links
  <2> QED BY <1>15, <2>1 DEF PingOk, Goto, PCs
<1>16. ASSUME NEW w \in Workers, PingFails(w) PROVE TypeInv'
  BY <1>16 DEF PingFails, Goto, PCs
<1>17. ASSUME NEW w \in Workers, Grant(w) PROVE TypeInv'
  <2>1. Return(w, at[w]) /\ Near(tmp[w] + 1) \in Int
    BY <1>17, NearIsInt DEF Grant
  <2>2. busy_number' \in Int /\ tmp' \in [Workers -> Int]
    BY <1>17, <2>1 DEF Grant
  <2> QED BY <1>17, <2>1, <2>2, ReturnTypes DEF Grant
<1>18. ASSUME NEW w \in Workers, GiveBack(w) PROVE TypeInv'
  BY <1>18 DEF GiveBack, ReleaseBegin, Goto, PCs
<1>19. ASSUME NEW w \in Workers, GivenBack(w) PROVE TypeInv'
  <2>1. Serving /\ NextNode(w) /\ Near(tmp[w] - 1) \in Int
    BY <1>19, NearIsInt DEF GivenBack
  <2>2. busy_number' \in Int /\ tmp' \in [Workers -> Int] /\ lock' \in [Nodes -> BOOLEAN]
    BY <1>19, <2>1 DEF GivenBack, ReleaseEnd, Unlock
  <2> QED BY <1>19, <2>1, <2>2, NextNodeTypes DEF GivenBack, ReleaseEnd
<1>20. ASSUME NEW w \in Workers, Query(w) \/ Query2(w) \/ Insert(w) PROVE TypeInv'
  <2>1. link' \in [Nodes -> Links]
    BY <1>20 DEF Query, Query2, Insert, Row, NoRow, Error, Links
  <2>2. pc' \in [Workers -> PCs] /\ \A v \in Workers : pc'[v] = "released" => pc[v] = "released"
    BY <1>20 DEF Query, Query2, Insert, Goto, PCs
  <2>3. UNCHANGED <<phase, pool_number, busy_number, lock, sql_state, used, handler,
                    leaked, kind, at, tried, tmp, held, reinit>>
    BY <1>20 DEF Query, Query2, Insert
  <2> QED BY <2>1, <2>2, <2>3
<1>21. ASSUME NEW w \in Workers, Reply(w) \/ ReplySigPipe(w) PROVE TypeInv'
  BY <1>21 DEF Reply, ReplySigPipe, Goto, PCs
<1>22. ASSUME NEW w \in Workers, Release(w) PROVE TypeInv'
  BY <1>22 DEF Release, ReleaseBegin, Goto, PCs
<1>23. ASSUME NEW w \in Workers, Released(w) PROVE TypeInv'
  <2>1. held[w] # <<>> /\ Near(tmp[w] - 1) \in Int
    BY <1>23, NearIsInt DEF Released
  <2>2. busy_number' \in Int /\ tmp' \in [Workers -> Int] /\ lock' \in [Nodes -> BOOLEAN]
    <3>1. /\ busy_number' = Near(tmp[w] - 1)
          /\ tmp' = [tmp EXCEPT ![w] = 0]
          /\ \E n : lock' = [lock EXCEPT ![n] = FALSE]
      BY <1>23 DEF Released, ReleaseEnd, Unlock
    <3>2. lock' \in [Nodes -> BOOLEAN]
      BY <3>1
    <3> QED BY <2>1, <3>1, <3>2
  <2>3. Tail(held[w]) \in Seq(Nodes \cup {NoNode})
    BY <2>1
  <2>4. held' \in [Workers -> Seq(Nodes \cup {NoNode})]
    BY <1>23, <2>3 DEF Released
  <2>5. /\ pc' \in [Workers -> PCs] /\ pc'[w] # "released"
        /\ \A v \in Workers : v # w => pc'[v] = pc[v] /\ held'[v] = held[v]
    BY <1>23 DEF Released, Goto, PCs
  <2>6. kind' \in [Workers -> {"login", "register"}]
    BY <1>23 DEF Released
  <2> QED BY <1>23, <2>2, <2>4, <2>5, <2>6 DEF Released, ReleaseEnd
<1>24. CASE ServerDrops
  <2>1. link' \in [Nodes -> Links] /\ leaked' \in Nat
    <3>1. \/ link' = link
          \/ \E n \in Nodes, l \in {"lost", "dirty_lost"} : link' = [link EXCEPT ![n] = l]
      BY <1>24 DEF ServerDrops
    <3>2. leaked' \in Nat
      BY <1>24 DEF ServerDrops
    <3>3. link' \in [Nodes -> Links]
      BY <3>1 DEF Links
    <3> QED BY <3>2, <3>3
  <2> QED BY <1>24, <2>1 DEF ServerDrops
<1> QED
  BY <1>1, <1>2, <1>3, <1>4, <1>5, <1>6, <1>7, <1>8, <1>9, <1>10, <1>11, <1>12,
     <1>13, <1>14, <1>15, <1>16, <1>17, <1>18, <1>19, <1>20, <1>21, <1>22, <1>23, <1>24
  DEF Next, WorkerStep, GetNull, PingNull, QueryNull

(* Every index of get_db_connect is a node of the pool, and every release  *)
(* is of something get_db_connect returned.                                *)
THEOREM TypeCorrect == Spec => []TypeOK
<1>1. Init => TypeInv
  BY InitTypeInv
<1>2. TypeInv /\ [Next]_vars => TypeInv'
  BY StepTypeInv
<1>3. TypeInv => TypeOK
  BY DEF TypeInv
<1> QED BY <1>1, <1>2, <1>3, PTL DEF Spec

-----------------------------------------------------------------------------
(* OneHolder is not inductive: the second conjunct of SoleHolder says that *)
(* whoever holds such a node has it locked, so that trylock refuses it to  *)
(* everybody else.                                                         *)
SoleHolder(n) ==
  /\ \A v, w \in Workers : n \in Holds(v) \cap Holds(w) => v = w
  /\ \A w \in Workers : n \in Holds(w) => lock[n]
  /\ \A w \in Workers : InLoop(w) /\ at[w] = n => n \notin Granted(w)
  /\ \A w \in Workers : \A j, k \in DOMAIN held[w] :
       held[w][j] = n /\ held[w][k] = n => j = k

HolderInv == \A n \in Nodes : ~reinit[n] => SoleHolder(n)

LEMMA NodeIsNotNull == \A n \in Nodes : n # NoNode
BY ConnAssumption DEF Nodes, NoNode

LEMMA GrantedIs ==
  ASSUME NEW w \in Workers, NEW n \in Nodes
  PROVE  n \in Granted(w) <=> \E k \in DOMAIN held[w] : held[w][k] = n
BY NodeIsNotNull DEF Granted, Range

LEMMA GrantedIsPrime ==
  ASSUME NEW w \in Workers, NEW n \in Nodes
  PROVE  (n \in Granted(w))' <=> \E k \in DOMAIN held'[w] : held'[w][k] = n
BY NodeIsNotNull DEF Granted, Range

LEMMA HoldsIs ==
  ASSUME NEW w \in Workers, NEW n
  PROVE  n \in Holds(w) <=> n \in Granted(w) \/ (InLoop(w) /\ at[w] = n)
BY DEF Holds

LEMMA HoldsIsPrime ==
  ASSUME NEW w \in Workers, NEW n
  PROVE  (n \in Holds(w))' <=> (n \in Granted(w))' \/ (InLoop(w)' /\ at'[w] = n)
BY DEF Holds

LEMMA InitHolderInv == Init => HolderInv
<1> SUFFICES ASSUME Init, NEW n \in Nodes PROVE SoleHolder(n)
  BY DEF HolderInv
<1>1. \A w \in Workers : ~InLoop(w) /\ held[w] = <<>>
  BY DEF Init, InLoop
<1>2. \A w \in Workers : n \notin Granted(w)
  BY <1>1, GrantedIs
<1> QED BY <1>1, <1>2, HoldsIs DEF SoleHolder

(* A step that moves no node in or out of a worker's hands.                *)
LEMMA HandsKept ==
  ASSUME HolderInv, UNCHANGED <<held, lock>>,
         \A n \in Nodes : reinit[n] => reinit'[n],
         \A w \in Workers : InLoop(w)' <=> InLoop(w),
         \A w \in Workers : InLoop(w) => at'[w] = at[w]
  PROVE  HolderInv'
<1> SUFFICES ASSUME NEW n \in Nodes, ~reinit'[n] PROVE SoleHolder(n)'
  BY DEF HolderInv
<1>1. SoleHolder(n)
  BY DEF HolderInv
<1>2. \A w \in Workers : (n \in Granted(w))' <=> n \in Granted(w)
  BY GrantedIs, GrantedIsPrime
<1>3. \A w \in Workers : (n \in Holds(w))' <=> n \in Holds(w)
  BY <1>2, HoldsIs, HoldsIsPrime
<1> QED BY <1>1, <1>2, <1>3 DEF SoleHolder

(* trylock takes a node that nobody holds.                                 *)
LEMMA TryFreeKeeps ==
  ASSUME TypeInv, HolderInv, NEW u \in Workers, TryFree(u)
  PROVE  HolderInv'
<1> SUFFICES ASSUME NEW n \in Nodes, ~reinit'[n] PROVE SoleHolder(n)'
  BY DEF HolderInv
<1>1. /\ pc[u] = "try" /\ pc' = [pc EXCEPT ![u] = "state"] /\ ~lock[at[u]]
      /\ lock' = [lock EXCEPT ![at[u]] = TRUE] /\ UNCHANGED <<held, at, reinit>>
  BY DEF TryFree, FreeToTry, Goto, local
<1>2. SoleHolder(n)
  BY <1>1 DEF HolderInv
<1>3. \A w \in Workers : (n \in Granted(w))' <=> n \in Granted(w)
  BY <1>1, GrantedIs, GrantedIsPrime
<1>4. /\ ~InLoop(u) /\ InLoop(u)'
      /\ \A w \in Workers : w # u => (InLoop(w)' <=> InLoop(w))
  BY <1>1 DEF InLoop, TypeInv, TypeOK
<1>5. \A w \in Workers : (n \in Holds(w))' <=> n \in Holds(w) \/ (w = u /\ at[u] = n)
  BY <1>1, <1>3, <1>4, HoldsIs, HoldsIsPrime
<1>6. at[u] = n => \A w \in Workers : n \notin Holds(w)
  BY <1>1, <1>2 DEF SoleHolder
<1>7. lock[n] => lock'[n]
  BY <1>1 DEF TypeInv, TypeOK
<1>8. at[u] = n => lock'[n]
  BY <1>1 DEF TypeInv, TypeOK
<1>9. \A w \in Workers : n \in Granted(w) => n \in Holds(w)
  BY HoldsIs
<1> QED BY <1>1, <1>2, <1>3, <1>4, <1>5, <1>6, <1>7, <1>8, <1>9 DEF SoleHolder

(* get_db_connect returns m, which the caller holds already, or NULL.      *)
LEMMA GetReturnsKeeps ==
  ASSUME TypeInv, HolderInv, NEW u \in Workers, NEW m \in Nodes \cup {NoNode},
         Return(u, m), UNCHANGED <<lock, reinit>>,
         \/ m = NoNode /\ ~InLoop(u)
         \/ InLoop(u) /\ m = at[u]
  PROVE  HolderInv'
<1> SUFFICES ASSUME NEW n \in Nodes, ~reinit'[n] PROVE SoleHolder(n)'
  BY DEF HolderInv
<1>1. SoleHolder(n)
  BY DEF HolderInv
<1>2. held[u] \in Seq(Nodes \cup {NoNode}) /\ held'[u] = Append(held[u], m)
  BY DEF Return, TypeInv, TypeOK
<1>3. \A w \in Workers : w # u => held'[w] = held[w] /\ at'[w] = at[w]
                               /\ (InLoop(w)' <=> InLoop(w))
  BY DEF Return, Goto, InLoop, TypeInv, TypeOK
<1>4. ~InLoop(u)'
  BY DEF Return, Goto, InLoop, TypeInv, TypeOK
<1>5. /\ DOMAIN held[u] = 1 .. Len(held[u]) /\ Len(held[u]) \in Nat
      /\ DOMAIN held'[u] = 1 .. Len(held[u]) + 1
      /\ \A k \in 1 .. Len(held[u]) : held'[u][k] = held[u][k]
      /\ held'[u][Len(held[u]) + 1] = m
  BY <1>2
<1>6. (n \in Granted(u))' <=> n \in Granted(u) \/ n = m
  BY <1>5, GrantedIs, GrantedIsPrime
<1>7. \A w \in Workers : w # u => ((n \in Granted(w))' <=> n \in Granted(w))
  BY <1>3, GrantedIs, GrantedIsPrime
<1>8. \A w \in Workers : (n \in Holds(w))' <=> n \in Holds(w)
  BY <1>3, <1>4, <1>6, <1>7, HoldsIs, HoldsIsPrime, NodeIsNotNull
<1>9. \A j, k \in DOMAIN held'[u] : held'[u][j] = n /\ held'[u][k] = n => j = k
  <2>1. n = m => \A k \in DOMAIN held[u] : held[u][k] # n
    BY <1>1, GrantedIs, NodeIsNotNull DEF SoleHolder
  <2>2. \A k \in DOMAIN held'[u] : k = Len(held[u]) + 1 \/ k \in DOMAIN held[u]
    BY <1>5
  <2> QED BY <1>1, <1>5, <2>1, <2>2 DEF SoleHolder
<1>10. \A w \in Workers : (InLoop(w) /\ at[w] = n => n \notin Granted(w))'
  BY <1>1, <1>3, <1>4, <1>7 DEF SoleHolder
<1>11. \A w \in Workers : w # u => \A j, k \in DOMAIN held'[w] :
         held'[w][j] = n /\ held'[w][k] = n => j = k
  BY <1>1, <1>3 DEF SoleHolder
<1>12. \A w \in Workers : \A j, k \in DOMAIN held'[w] :
         held'[w][j] = n /\ held'[w][k] = n => j = k
  BY <1>9, <1>11
<1> QED BY <1>1, <1>8, <1>10, <1>12 DEF SoleHolder

(* u unlocks m, which it held once, and holds everything else as before.   *)
LEMMA UnlockKeeps ==
  ASSUME TypeInv, HolderInv, NEW u \in Workers, NEW m \in Nodes,
         m \in Holds(u), lock' = [lock EXCEPT ![m] = FALSE], UNCHANGED reinit,
         \A w \in Workers : w # u => held'[w] = held[w] /\ at'[w] = at[w]
                                   /\ (InLoop(w)' <=> InLoop(w)),
         \A w \in Workers : w = u => ~InLoop(w)',
         \A w \in Workers : w = u =>
           \A n \in Nodes : n # m => ((n \in Holds(w))' <=> n \in Holds(w)),
         \A w \in Workers : w = u /\ ~reinit[m] => ~(m \in Holds(w))',
         \A n \in Nodes : ~reinit[n] => \A j, k \in DOMAIN held'[u] :
           held'[u][j] = n /\ held'[u][k] = n => j = k
  PROVE  HolderInv'
<1> SUFFICES ASSUME NEW n \in Nodes, ~reinit'[n] PROVE SoleHolder(n)'
  BY DEF HolderInv
<1>1. SoleHolder(n) /\ ~reinit[n]
  BY DEF HolderInv
<1>2. \A w \in Workers : w # u =>
        /\ (n \in Granted(w))' <=> n \in Granted(w)
        /\ (n \in Holds(w))' <=> n \in Holds(w)
  BY GrantedIs, GrantedIsPrime, HoldsIs, HoldsIsPrime
<1>3. \A w \in Workers : (n \in Holds(w))' => n \in Holds(w)
  BY <1>1, <1>2
<1>4. \A w \in Workers : (n \in Holds(w))' => lock'[n]
  <2>1. CASE n = m
    BY <1>1, <1>2, <2>1 DEF SoleHolder
  <2>2. CASE n # m
    <3>1. lock'[n] = lock[n]
      BY <2>2 DEF TypeInv, TypeOK
    <3> QED BY <1>1, <1>3, <3>1 DEF SoleHolder
  <2> QED BY <2>1, <2>2
<1>5. \A w \in Workers : (InLoop(w) /\ at[w] = n => n \notin Granted(w))'
  BY <1>1, <1>2 DEF SoleHolder
<1>6. \A w \in Workers : w # u => \A j, k \in DOMAIN held'[w] :
         held'[w][j] = n /\ held'[w][k] = n => j = k
  BY <1>1 DEF SoleHolder
<1>7. \A w \in Workers : \A j, k \in DOMAIN held'[w] :
         held'[w][j] = n /\ held'[w][k] = n => j = k
  BY <1>1, <1>6
<1> QED BY <1>1, <1>3, <1>4, <1>5, <1>7 DEF SoleHolder

LEMMA GivenBackKeeps ==
  ASSUME TypeInv, HolderInv, NEW u \in Workers, GivenBack(u)
  PROVE  HolderInv'
<1>1. /\ pc[u] = "given" /\ NextNode(u) /\ UNCHANGED reinit
      /\ lock' = [lock EXCEPT ![at[u]] = FALSE]
  BY DEF GivenBack, ReleaseEnd, Unlock
<1>2. at[u] \in Nodes /\ InLoop(u) /\ at[u] \in Holds(u)
  BY <1>1, HoldsIs DEF InLoop, TypeInv, TypeOK
<1>3. /\ \E l \in {"call", "query", "try"} : pc' = [pc EXCEPT ![u] = l]
      /\ \/ held' = held
         \/ held' = [held EXCEPT ![u] = Append(@, NoNode)]
      /\ \A w \in Workers : w # u => at'[w] = at[w]
  BY <1>1 DEF NextNode, Return, Goto, TypeInv, TypeOK
<1>4. \A w \in Workers : w # u => held'[w] = held[w] /\ at'[w] = at[w]
                               /\ (InLoop(w)' <=> InLoop(w))
  BY <1>3 DEF InLoop, TypeInv, TypeOK
<1>5. \A w \in Workers : w = u => ~InLoop(w)'
  BY <1>3 DEF InLoop, TypeInv, TypeOK
<1>6. \A n \in Nodes :
        /\ \A k \in DOMAIN held[u] : k \in DOMAIN held'[u] /\ held'[u][k] = held[u][k]
        /\ \A k \in DOMAIN held'[u] : held'[u][k] = n =>
             k \in DOMAIN held[u] /\ held[u][k] = n
  <2>1. held[u] \in Seq(Nodes \cup {NoNode})
    BY DEF TypeInv, TypeOK
  <2>2. CASE held' = held
    BY <2>2
  <2>3. CASE held'[u] = Append(held[u], NoNode)
    <3>1. /\ DOMAIN held[u] = 1 .. Len(held[u]) /\ Len(held[u]) \in Nat
          /\ DOMAIN held'[u] = 1 .. Len(held[u]) + 1
          /\ \A k \in 1 .. Len(held[u]) : held'[u][k] = held[u][k]
          /\ held'[u][Len(held[u]) + 1] = NoNode
      BY <2>1, <2>3
    <3> QED BY <3>1, NodeIsNotNull
  <2> QED BY <1>3, <2>2, <2>3 DEF TypeInv, TypeOK
<1>7. \A w \in Workers : w = u => \A n \in Nodes : (n \in Granted(w))' <=> n \in Granted(w)
  BY <1>6, GrantedIs, GrantedIsPrime
<1>8. \A w \in Workers : w = u => \A n \in Nodes :
        n # at[u] => ((n \in Holds(w))' <=> n \in Holds(w))
  BY <1>5, <1>7, HoldsIs, HoldsIsPrime
<1>9. ASSUME NEW m \in Nodes, m = at[u]
      PROVE  \A w \in Workers : w = u /\ ~reinit[m] => ~(m \in Holds(w))'
  <2>1. ~reinit[m] => m \notin Granted(u)
    BY <1>2, <1>9 DEF HolderInv, SoleHolder
  <2> QED BY <2>1, <1>5, <1>7, HoldsIsPrime
<1>10. \A n \in Nodes : ~reinit[n] => \A j, k \in DOMAIN held'[u] :
         held'[u][j] = n /\ held'[u][k] = n => j = k
  BY <1>6 DEF HolderInv, SoleHolder
<1>11. ASSUME NEW m \in Nodes, m = at[u] PROVE HolderInv'
  BY <1>1, <1>2, <1>4, <1>5, <1>8, <1>9, <1>10, <1>11, UnlockKeeps
<1> QED BY <1>2, <1>11

LEMMA TailFacts ==
  ASSUME NEW S, NEW s \in Seq(S), s # <<>>
  PROVE  /\ Len(s) >= 1 /\ DOMAIN s = 1 .. Len(s) /\ DOMAIN Tail(s) = 1 .. Len(s) - 1
         /\ \A k \in 1 .. Len(s) - 1 : Tail(s)[k] = s[k + 1]
         /\ Head(s) = s[1]
<1>1. Len(s) \in Nat /\ DOMAIN s = 1 .. Len(s) /\ Head(s) = s[1]
  OBVIOUS
<1>2. Len(s) >= 1
  <2>1. Len(s) # 0
    OBVIOUS
  <2> QED BY <1>1, <2>1
<1>3. Len(Tail(s)) = Len(s) - 1 /\ Tail(s) \in Seq(S)
  OBVIOUS
<1>4. \A k \in 1 .. Len(s) - 1 : Tail(s)[k] = s[k + 1]
  BY <1>1
<1> QED BY <1>1, <1>2, <1>3, <1>4

LEMMA ReleasedKeeps ==
  ASSUME TypeInv, HolderInv, NEW u \in Workers, Released(u),
         NEW m \in Nodes, m = Head(held[u]), NEW L \in Nat, L = Len(held[u])
  PROVE  HolderInv'
<1>1. /\ pc[u] = "released" /\ held[u] # <<>> /\ UNCHANGED <<reinit, at>>
      /\ lock' = [lock EXCEPT ![m] = FALSE]
      /\ held' = [held EXCEPT ![u] = Tail(@)]
      /\ \E l \in {"idle", "release"} : pc' = [pc EXCEPT ![u] = l]
  BY DEF Released, ReleaseEnd, Unlock, Goto, TypeInv, ReleasesOK
<1>2. held[u] \in Seq(Nodes \cup {NoNode}) /\ held'[u] = Tail(held[u])
  BY <1>1 DEF TypeInv, TypeOK
<1>3. /\ L \in Nat /\ L >= 1 /\ DOMAIN held[u] = 1 .. L /\ DOMAIN held'[u] = 1 .. L - 1
      /\ \A k \in 1 .. L - 1 : held'[u][k] = held[u][k + 1]
      /\ m = held[u][1] /\ m \in Nodes
  <2> DEFINE s == held[u]
  <2>1. s \in Seq(Nodes \cup {NoNode}) /\ s # <<>> /\ held'[u] = Tail(s)
    BY <1>1, <1>2
  <2>2. L = Len(s) /\ m = Head(s)
    OBVIOUS
  <2> HIDE DEF s
  <2>3. /\ L >= 1 /\ DOMAIN s = 1 .. L /\ DOMAIN Tail(s) = 1 .. L - 1
        /\ \A k \in 1 .. L - 1 : Tail(s)[k] = s[k + 1]
        /\ m = s[1]
    BY <2>1, <2>2, TailFacts
  <2> QED BY <2>1, <2>3 DEF s
<1>4. \A w \in Workers : w # u => held'[w] = held[w] /\ at'[w] = at[w]
                               /\ (InLoop(w)' <=> InLoop(w))
  BY <1>1 DEF InLoop, TypeInv, TypeOK
<1>5. \A w \in Workers : w = u => ~InLoop(w)' /\ ~InLoop(w)
  BY <1>1 DEF InLoop, TypeInv, TypeOK
<1>6. \A n \in Nodes : (\E k \in DOMAIN held'[u] : held'[u][k] = n)
                       <=> \E k \in 2 .. L : held[u][k] = n
  <2>1. \A k \in 2 .. L : k - 1 \in 1 .. L - 1 /\ held'[u][k - 1] = held[u][k]
    BY <1>3
  <2>2. \A k \in 1 .. L - 1 : k + 1 \in 2 .. L /\ held'[u][k] = held[u][k + 1]
    BY <1>3
  <2>3. ASSUME NEW n \in Nodes, NEW k \in DOMAIN held'[u], held'[u][k] = n
        PROVE  \E j \in 2 .. L : held[u][j] = n
    BY <1>3, <2>2, <2>3
  <2>4. ASSUME NEW n \in Nodes, NEW j \in 2 .. L, held[u][j] = n
        PROVE  \E k \in DOMAIN held'[u] : held'[u][k] = n
    BY <1>3, <2>1, <2>4
  <2> QED BY <2>3, <2>4
<1>7. \A w \in Workers : w = u => \A n \in Nodes :
        (n \in Granted(w))' <=> \E k \in 2 .. L : held[u][k] = n
  BY <1>6, GrantedIsPrime
<1>8. \A n \in Nodes : n # m =>
        (n \in Granted(u) <=> \E k \in 2 .. L : held[u][k] = n)
  <2>1. \A k \in 1 .. L : k = 1 \/ k \in 2 .. L
    BY <1>3
  <2>2. \A k \in 2 .. L : k \in 1 .. L
    BY <1>3
  <2> QED BY <1>3, <2>1, <2>2, GrantedIs
<1>9. \A w \in Workers : w = u =>
        \A n \in Nodes : n # m => ((n \in Holds(w))' <=> n \in Holds(w))
  BY <1>5, <1>7, <1>8, HoldsIs, HoldsIsPrime
<1>10. \A w \in Workers : w = u /\ ~reinit[m] => ~(m \in Holds(w))'
  <2>1. ~reinit[m] => \A k \in 2 .. L : held[u][k] # m
    <3>1. 1 \in 1 .. L /\ \A k \in 2 .. L : k \in 1 .. L /\ k # 1
      BY <1>3
    <3> QED BY <1>3, <3>1 DEF HolderInv, SoleHolder
  <2> QED BY <1>3, <1>5, <1>7, <2>1, HoldsIsPrime
<1>11. \A n \in Nodes : ~reinit[n] => \A j, k \in DOMAIN held'[u] :
         held'[u][j] = n /\ held'[u][k] = n => j = k
  <2>1. \A j, k \in 1 .. L - 1 : /\ j + 1 \in 1 .. L /\ k + 1 \in 1 .. L
                                /\ (j + 1 = k + 1 => j = k)
    BY <1>3
  <2> QED BY <1>3, <2>1 DEF HolderInv, SoleHolder
<1>12. m \in Holds(u)
  <2>1. 1 \in DOMAIN held[u]
    BY <1>3
  <2> QED BY <1>3, <2>1, GrantedIs, HoldsIs
<1>13. \A w \in Workers : w = u => ~InLoop(w)'
  BY <1>5
<1> QED BY <1>1, <1>4, <1>9, <1>10, <1>11, <1>12, <1>13, UnlockKeeps

LEMMA StepHolderInv == TypeInv /\ HolderInv /\ [Next]_vars => HolderInv'
<1> SUFFICES ASSUME TypeInv, HolderInv, [Next]_vars PROVE HolderInv'
  OBVIOUS
<1>1. ASSUME UNCHANGED <<held, lock, reinit, pc, at>> PROVE HolderInv'
  BY <1>1, HandsKept DEF InLoop
<1>2. ASSUME NEW u \in Workers, NEW l,
             UNCHANGED <<held, lock, reinit, at>>, pc' = [pc EXCEPT ![u] = l],
             l \in {"reinit", "init", "connect", "up", "down", "ping", "granted",
                    "giveback", "given"} <=> InLoop(u),
             l # "state"
      PROVE  HolderInv'
  BY <1>2, HandsKept DEF InLoop, TypeInv, TypeOK
<1>3. CASE UNCHANGED vars
  BY <1>1, <1>3 DEF vars, local
<1>4. CASE CreateNode \/ CreateFails \/ DestroyPool \/ Crash \/ ServerDrops
  BY <1>1, <1>4 DEF CreateNode, CreateFails, DestroyPool, Crash, ServerDrops, local
<1>5. ASSUME NEW u \in Workers, NEW k \in {"login", "register"}, StartJob(u, k)
      PROVE  HolderInv'
  BY <1>2, <1>5 DEF StartJob, Goto, InLoop
<1>6. ASSUME NEW u \in Workers, Get(u) PROVE HolderInv'
  <2>1. /\ pc[u] = "call" /\ pc' = [pc EXCEPT ![u] = "try"]
        /\ UNCHANGED <<held, lock, reinit>>
        /\ \A w \in Workers : w # u => at'[w] = at[w]
    BY <1>6 DEF Get, Goto, TypeInv, TypeOK
  <2> QED BY <2>1, HandsKept DEF InLoop, TypeInv, TypeOK
<1>7. ASSUME NEW u \in Workers, TryBusy(u) PROVE HolderInv'
  <2>1. pc[u] = "try" /\ NextNode(u) /\ UNCHANGED <<lock, reinit>>
    BY <1>7 DEF TryBusy
  <2>2. CASE Return(u, NoNode)
    BY <2>1, <2>2, GetReturnsKeeps DEF InLoop
  <2>3. CASE ~Return(u, NoNode)
    <3>1. /\ pc' = [pc EXCEPT ![u] = "try"] /\ UNCHANGED held
          /\ \A w \in Workers : w # u => at'[w] = at[w]
      BY <2>1, <2>3 DEF NextNode, Goto, TypeInv, TypeOK
    <3> QED BY <2>1, <3>1, HandsKept DEF InLoop, TypeInv, TypeOK
  <2> QED BY <2>2, <2>3
<1>8. ASSUME NEW u \in Workers, ReadState(u) PROVE HolderInv'
  <2>1. /\ UNCHANGED <<held, lock, reinit, at>> /\ pc[u] = "state"
        /\ \E l \in {"reinit", "ping"} : pc' = [pc EXCEPT ![u] = l]
    BY <1>8 DEF ReadState, Goto, local
  <2> QED BY <1>2, <2>1 DEF InLoop
<1>9. ASSUME NEW u \in Workers, Reinit(u) PROVE HolderInv'
  <2>1. /\ pc[u] = "reinit" /\ pc' = [pc EXCEPT ![u] = "init"]
        /\ reinit' = [reinit EXCEPT ![at[u]] = TRUE]
        /\ lock' = [lock EXCEPT ![at[u]] = FALSE]
        /\ UNCHANGED <<held, at>>
    BY <1>9 DEF Reinit, Goto, local
  <2> SUFFICES ASSUME NEW n \in Nodes, ~reinit'[n] PROVE SoleHolder(n)'
    BY DEF HolderInv
  <2>2. n # at[u] /\ ~reinit[n] /\ lock'[n] = lock[n]
    BY <2>1 DEF TypeInv, TypeOK
  <2>3. SoleHolder(n)
    BY <2>2 DEF HolderInv
  <2>4. \A w \in Workers : InLoop(w)' <=> InLoop(w)
    BY <2>1 DEF InLoop, TypeInv, TypeOK
  <2>5. \A w \in Workers : (n \in Granted(w))' <=> n \in Granted(w)
    BY <2>1, GrantedIs, GrantedIsPrime
  <2>6. \A w \in Workers : (n \in Holds(w))' <=> n \in Holds(w)
    BY <2>1, <2>4, <2>5, HoldsIs, HoldsIsPrime
  <2> QED BY <2>1, <2>2, <2>3, <2>4, <2>5, <2>6 DEF SoleHolder
<1>10. ASSUME NEW u \in Workers, InitHandle(u) \/ Connected(u) \/ NotConnected(u)
       PROVE  HolderInv'
  BY <1>2, <1>10 DEF InitHandle, Connected, NotConnected, Goto, InLoop, local
<1>11. ASSUME NEW u \in Workers, Connect(u) PROVE HolderInv'
  BY <1>2, <1>11 DEF Connect, Goto, InLoop, local
<1>12. ASSUME NEW u \in Workers, PingOk(u) \/ PingFails(u) PROVE HolderInv'
  <2>1. /\ UNCHANGED <<held, lock, reinit, at>> /\ pc[u] = "ping"
        /\ \E l \in {"granted", "giveback"} : pc' = [pc EXCEPT ![u] = l]
    BY <1>12 DEF PingOk, PingFails, Goto, local
  <2> QED BY <1>2, <2>1 DEF InLoop
<1>13. ASSUME NEW u \in Workers, Grant(u) PROVE HolderInv'
  <2>1. InLoop(u) /\ Return(u, at[u]) /\ UNCHANGED <<lock, reinit>>
    BY <1>13 DEF Grant, InLoop
  <2> QED BY <2>1, GetReturnsKeeps DEF TypeInv, TypeOK
<1>14. ASSUME NEW u \in Workers, GiveBack(u) \/ Release(u) PROVE HolderInv'
  BY <1>2, <1>14 DEF GiveBack, Release, ReleaseBegin, Goto, InLoop
<1>15. ASSUME NEW u \in Workers,
              Query(u) \/ Query2(u) \/ Insert(u) \/ Reply(u) \/ ReplySigPipe(u)
       PROVE  HolderInv'
  <2>1. /\ UNCHANGED <<held, lock, reinit, at>>
        /\ pc[u] \in {"query", "query2", "insert", "reply"}
        /\ \E l \in {"query2", "insert", "reply", "release", "dead"} :
             pc' = [pc EXCEPT ![u] = l]
    BY <1>15 DEF Query, Query2, Insert, Reply, ReplySigPipe, Goto, local
  <2> QED BY <1>2, <2>1 DEF InLoop
<1>16. ASSUME NEW u \in Workers, Released(u) PROVE HolderInv'
  <2>1. held[u] # <<>> /\ Head(held[u]) # NoNode
    BY <1>16 DEF Released, TypeInv, ReleasesOK
  <2>2. Head(held[u]) \in Nodes /\ Len(held[u]) \in Nat
    BY <2>1 DEF TypeInv, TypeOK
  <2> QED BY <1>16, <2>2, ReleasedKeeps
<1> QED
  BY <1>3, <1>4, <1>5, <1>6, <1>7, <1>8, <1>9, <1>10, <1>11, <1>12, <1>13, <1>14,
     <1>15, <1>16, TryFreeKeeps, GivenBackKeeps
  DEF Next, WorkerStep, GetNull, PingNull, QueryNull

(* Until create_db_connect initialises the lock of a connection again, that *)
(* connection is in one thread's hands, once: get_db_connect never grants   *)
(* what is granted, whatever pings fail, servers refuse or threads die.     *)
THEOREM NodesExclusive == Spec => []OneHolder
<1>1. Init => TypeInv /\ HolderInv
  BY InitTypeInv, InitHolderInv
<1>2. TypeInv /\ HolderInv /\ [Next]_vars => (TypeInv /\ HolderInv)'
  BY StepTypeInv, StepHolderInv
<1>3. HolderInv => OneHolder
  BY DEF HolderInv, SoleHolder, OneHolder
<1> QED BY <1>1, <1>2, <1>3, PTL DEF Spec

-----------------------------------------------------------------------------
(* A locked node is held.  A node marked used has a holder that has not    *)
(* begun to give it back: between the two steps of a release another       *)
(* thread, let in by an initialised lock, may mark it again.               *)
Returning(w, n) ==
  \/ pc[w] = "given" /\ at[w] = n
  \/ pc[w] = "released" /\ Head(held[w]) = n

Keeps(w, n) == n \in Holds(w) /\ ~Returning(w, n)

UsedInv == \A n \in Nodes :
  /\ lock[n] => \E w \in Workers : n \in Holds(w)
  /\ used[n] = 1 => \E w \in Workers : Keeps(w, n)

LEMMA InitUsedInv == Init => UsedInv
BY DEF Init, UsedInv

(* No node leaves a worker's hands.                                        *)
LEMMA UsedKept ==
  ASSUME UsedInv,
         \A n \in Nodes : lock'[n] => lock[n] \/ \E w \in Workers : (n \in Holds(w))',
         \A n \in Nodes : used'[n] = 1 => used[n] = 1 \/ \E w \in Workers : Keeps(w, n)',
         \A w \in Workers, n \in Nodes : n \in Holds(w) => (n \in Holds(w))',
         \A w \in Workers, n \in Nodes : Returning(w, n)' /\ used'[n] = 1 => Returning(w, n)
  PROVE  UsedInv'
BY DEF UsedInv, Keeps

LEMMA HoldsGrows ==
  ASSUME \A w \in Workers : \A k \in DOMAIN held[w] :
           k \in DOMAIN held'[w] /\ held'[w][k] = held[w][k],
         \A w \in Workers : InLoop(w) => InLoop(w)' /\ at'[w] = at[w]
  PROVE  \A w \in Workers, n \in Nodes : n \in Holds(w) => (n \in Holds(w))'
BY GrantedIs, GrantedIsPrime, HoldsIs, HoldsIsPrime

(* A worker moves to a place from which nothing is given back, and neither *)
(* takes nor marks a node.                                                 *)
LEMMA UsedMove ==
  ASSUME TypeInv, UsedInv, NEW u \in Workers, NEW l \in PCs,
         pc' = [pc EXCEPT ![u] = l], UNCHANGED <<held, lock, used, at>>,
         l \notin {"given", "released"}, InLoop(u) => InLoop(u)'
  PROVE  UsedInv'
<1>1. \A w \in Workers : InLoop(w) => InLoop(w)'
  BY DEF InLoop, TypeInv, TypeOK
<1>2. \A w \in Workers, n \in Nodes : n \in Holds(w) => (n \in Holds(w))'
  BY <1>1, HoldsGrows
<1>3. \A w \in Workers, n \in Nodes : Returning(w, n)' => Returning(w, n)
  BY DEF Returning, TypeInv, TypeOK
<1> QED BY <1>2, <1>3, UsedKept

LEMMA UsedUnmoved ==
  ASSUME UsedInv, UNCHANGED <<pc, held, at, lock, used>>
  PROVE  UsedInv'
<1>1. \A w \in Workers, n \in Nodes : n \in Holds(w) => (n \in Holds(w))'
  BY HoldsGrows DEF InLoop
<1>2. \A w \in Workers, n \in Nodes : Returning(w, n)' => Returning(w, n)
  BY DEF Returning
<1> QED BY <1>1, <1>2, UsedKept

(* get_db_connect returns: what the caller holds, it still holds.          *)
LEMMA UsedReturn ==
  ASSUME TypeInv, UsedInv, NEW u \in Workers, NEW m \in Nodes \cup {NoNode},
         Return(u, m), UNCHANGED <<lock, used>>,
         \/ ~InLoop(u)
         \/ InLoop(u) /\ m = at[u] /\ pc[u] = "granted"
  PROVE  UsedInv'
<1>1. /\ \E l \in {"call", "query"} : pc' = [pc EXCEPT ![u] = l]
      /\ held' = [held EXCEPT ![u] = Append(held[u], m)]
      /\ \A w \in Workers : w # u => at'[w] = at[w]
  BY DEF Return, Goto, TypeInv, TypeOK
<1>2. /\ DOMAIN held[u] = 1 .. Len(held[u]) /\ Len(held[u]) \in Nat
      /\ held'[u] = Append(held[u], m) /\ held[u] \in Seq(Nodes \cup {NoNode})
  BY <1>1 DEF TypeInv, TypeOK
<1>3. /\ DOMAIN held'[u] = 1 .. Len(held[u]) + 1
      /\ \A k \in 1 .. Len(held[u]) : held'[u][k] = held[u][k]
      /\ held'[u][Len(held[u]) + 1] = m
  BY <1>2
<1>4. /\ \A k \in DOMAIN held[u] : k \in DOMAIN held'[u] /\ held'[u][k] = held[u][k]
      /\ \E k \in DOMAIN held'[u] : held'[u][k] = m
  BY <1>2, <1>3
<1>5. \A n \in Nodes : n \in Holds(u) => (n \in Granted(u))'
  BY <1>4, GrantedIs, GrantedIsPrime, HoldsIs
<1>6. \A w \in Workers : w # u =>
        \A n \in Nodes : n \in Holds(w) => (n \in Holds(w))'
  <2>1. \A w \in Workers : w # u => held'[w] = held[w] /\ (InLoop(w)' <=> InLoop(w))
    BY <1>1 DEF InLoop, TypeInv, TypeOK
  <2> QED BY <1>1, <2>1, GrantedIs, GrantedIsPrime, HoldsIs, HoldsIsPrime
<1>7. \A w \in Workers, n \in Nodes : n \in Holds(w) => (n \in Holds(w))'
  BY <1>5, <1>6, HoldsIsPrime
<1>8. \A w \in Workers, n \in Nodes : Returning(w, n)' => Returning(w, n)
  BY <1>1 DEF Returning, TypeInv, TypeOK
<1> QED BY <1>7, <1>8, UsedKept

(* The first step of a release clears the mark it will take the lock off.  *)
LEMMA UsedReleaseBegins ==
  ASSUME TypeInv, UsedInv, NEW u \in Workers, NEW n \in Nodes,
         ReleaseBegin(u, n), NEW l \in {"given", "released"},
         pc' = [pc EXCEPT ![u] = l],
         l = "given" => n = at[u] /\ InLoop(u),
         l = "released" => n = Head(held[u]) /\ ~InLoop(u)
  PROVE  UsedInv'
<1>1. used' = [used EXCEPT ![n] = 0] /\ UNCHANGED <<held, at, lock>>
  BY DEF ReleaseBegin
<1>2. \A w \in Workers : InLoop(w)' <=> InLoop(w)
  BY DEF InLoop, TypeInv, TypeOK
<1>3. \A w \in Workers, m \in Nodes : m \in Holds(w) => (m \in Holds(w))'
  BY <1>1, <1>2, HoldsGrows
<1>4. \A m \in Nodes : used'[m] = 1 => used[m] = 1 /\ m # n
  BY <1>1 DEF TypeInv, TypeOK
<1>5. \A w \in Workers, m \in Nodes : Returning(w, m)' /\ m # n => Returning(w, m)
  BY <1>1 DEF Returning, TypeInv, TypeOK
<1> QED BY <1>1, <1>3, <1>4, <1>5, UsedKept

(* The second step takes the lock off.  Whoever else marked the node in    *)
(* between keeps it.                                                       *)
LEMMA UsedReleaseEnds ==
  ASSUME TypeInv, UsedInv, NEW u \in Workers, NEW n \in Nodes,
         lock' = [lock EXCEPT ![n] = FALSE], UNCHANGED used,
         \A w \in Workers : w # u => /\ held'[w] = held[w] /\ at'[w] = at[w]
                                     /\ pc'[w] = pc[w],
         \A w \in Workers : w = u => \A m \in Nodes :
           /\ m # n /\ m \in Holds(w) => (m \in Holds(w))'
           /\ n \in Holds(w) => Returning(w, n)
           /\ ~Returning(w, m)'
  PROVE  UsedInv'
<1>1. \A w \in Workers : w # u => \A m \in Nodes :
        /\ m \in Holds(w) => (m \in Holds(w))'
        /\ Returning(w, m)' => Returning(w, m)
  <2>1. \A w \in Workers : w # u => (InLoop(w)' <=> InLoop(w))
    BY DEF InLoop
  <2>2. \A w \in Workers : w # u => \A m \in Nodes : m \in Holds(w) => (m \in Holds(w))'
    BY <2>1, GrantedIs, GrantedIsPrime, HoldsIs, HoldsIsPrime
  <2> QED BY <2>2 DEF Returning
<1>2. ASSUME NEW m \in Nodes, lock'[m] PROVE \E w \in Workers : (m \in Holds(w))'
  <2>1. m # n /\ lock[m]
    BY <1>2 DEF TypeInv, TypeOK
  <2> QED BY <1>1, <2>1 DEF UsedInv
<1>3. ASSUME NEW m \in Nodes, used'[m] = 1 PROVE \E w \in Workers : Keeps(w, m)'
  <2>1. PICK w \in Workers : m \in Holds(w) /\ ~Returning(w, m)
    BY <1>3 DEF UsedInv, Keeps
  <2>2. (m \in Holds(w))' /\ ~Returning(w, m)'
    BY <1>1, <2>1
  <2> QED BY <2>2 DEF Keeps
<1> QED BY <1>2, <1>3 DEF UsedInv

LEMMA UsedGivenBack ==
  ASSUME TypeInv, UsedInv, NEW u \in Workers, GivenBack(u)
  PROVE  UsedInv'
<1>1. /\ pc[u] = "given" /\ NextNode(u) /\ UNCHANGED used
      /\ lock' = [lock EXCEPT ![at[u]] = FALSE] /\ at[u] \in Nodes
  BY DEF GivenBack, ReleaseEnd, Unlock, node, TypeInv, TypeOK
<1>2. /\ \E l \in {"call", "query", "try"} : pc' = [pc EXCEPT ![u] = l]
      /\ \/ held' = held
         \/ held' = [held EXCEPT ![u] = Append(@, NoNode)]
      /\ \A w \in Workers : w # u => at'[w] = at[w]
  BY <1>1 DEF NextNode, Return, Goto, TypeInv, TypeOK
<1>3. \A w \in Workers : w # u => held'[w] = held[w] /\ pc'[w] = pc[w]
  BY <1>2 DEF TypeInv, TypeOK
<1>4. \A k \in DOMAIN held[u] : k \in DOMAIN held'[u] /\ held'[u][k] = held[u][k]
  <2>1. held[u] \in Seq(Nodes \cup {NoNode})
    BY DEF TypeInv, TypeOK
  <2>2. CASE held' = held
    BY <2>2
  <2>3. CASE held'[u] = Append(held[u], NoNode)
    <3>1. /\ DOMAIN held[u] = 1 .. Len(held[u]) /\ Len(held[u]) \in Nat
          /\ DOMAIN held'[u] = 1 .. Len(held[u]) + 1
          /\ \A k \in 1 .. Len(held[u]) : held'[u][k] = held[u][k]
      BY <2>1, <2>3
    <3> QED BY <3>1
  <2> QED BY <1>2, <2>2, <2>3 DEF TypeInv, TypeOK
<1>5. \A w \in Workers : w = u => \A m \in Nodes : m \in Granted(w) => (m \in Granted(w))'
  BY <1>4, GrantedIs, GrantedIsPrime
<1>6. \A w \in Workers : w = u => \A m \in Nodes :
        /\ m # at[u] /\ m \in Holds(w) => (m \in Holds(w))'
        /\ at[u] \in Holds(w) => Returning(w, at[u])
        /\ ~Returning(w, m)'
  BY <1>1, <1>2, <1>5, HoldsIs, HoldsIsPrime DEF Returning, TypeInv, TypeOK
<1>7. ASSUME NEW n \in Nodes, n = at[u] PROVE UsedInv'
  BY <1>1, <1>2, <1>3, <1>6, <1>7, UsedReleaseEnds
<1> QED BY <1>1, <1>7

LEMMA UsedReleased ==
  ASSUME TypeInv, UsedInv, NEW u \in Workers, Released(u),
         NEW n \in Nodes, n = Head(held[u])
  PROVE  UsedInv'
<1>1. /\ pc[u] = "released" /\ held[u] # <<>> /\ UNCHANGED <<used, at>>
      /\ lock' = [lock EXCEPT ![n] = FALSE]
      /\ held' = [held EXCEPT ![u] = Tail(@)]
      /\ \E l \in {"idle", "release"} : pc' = [pc EXCEPT ![u] = l]
  BY DEF Released, ReleaseEnd, Unlock, Goto, node, TypeInv, ReleasesOK
<1>2. \A w \in Workers : w # u => held'[w] = held[w] /\ pc'[w] = pc[w]
  BY <1>1 DEF TypeInv, TypeOK
<1>3. \A k \in DOMAIN held[u] : held[u][k] # n =>
        \E j \in DOMAIN held'[u] : held'[u][j] = held[u][k]
  <2>1. held[u] \in Seq(Nodes \cup {NoNode}) /\ held'[u] = Tail(held[u])
    BY <1>1 DEF TypeInv, TypeOK
  <2> DEFINE h == held[u]
  <2>0. h \in Seq(Nodes \cup {NoNode}) /\ h # <<>>
    BY <1>1, <2>1
  <2>a. /\ DOMAIN h = 1 .. Len(h) /\ DOMAIN Tail(h) = 1 .. Len(h) - 1
        /\ \A k \in 1 .. Len(h) - 1 : Tail(h)[k] = h[k + 1]
        /\ Head(h) = h[1]
    <3> HIDE DEF h
    <3> QED BY <2>0, TailFacts
  <2>b. Len(h) \in Nat
    BY <2>0
  <2>2. /\ Len(held[u]) \in Nat /\ DOMAIN held[u] = 1 .. Len(held[u])
        /\ DOMAIN held'[u] = 1 .. Len(held[u]) - 1
        /\ \A k \in 1 .. Len(held[u]) - 1 : held'[u][k] = held[u][k + 1]
        /\ n = held[u][1]
    BY <2>1, <2>a, <2>b
  <2>3. \A k \in DOMAIN held[u] : k # 1 =>
          k - 1 \in DOMAIN held'[u] /\ (k - 1) + 1 = k /\ k - 1 \in 1 .. Len(held[u]) - 1
    BY <2>2
  <2> QED BY <2>2, <2>3
<1>4. \A w \in Workers : w = u => \A m \in Nodes :
        m # n /\ m \in Granted(w) => (m \in Granted(w))'
  BY <1>3, GrantedIs, GrantedIsPrime
<1>5. ~InLoop(u)
  BY <1>1 DEF InLoop
<1>6. \A w \in Workers : w = u => \A m \in Nodes :
        /\ m # n /\ m \in Holds(w) => (m \in Holds(w))'
        /\ n \in Holds(w) => Returning(w, n)
        /\ ~Returning(w, m)'
  BY <1>1, <1>4, <1>5, HoldsIs, HoldsIsPrime DEF Returning, TypeInv, TypeOK
<1> QED BY <1>1, <1>2, <1>6, UsedReleaseEnds

LEMMA StepUsedInv == TypeInv /\ UsedInv /\ [Next]_vars => UsedInv'
<1> SUFFICES ASSUME TypeInv, UsedInv, [Next]_vars PROVE UsedInv'
  OBVIOUS
<1>1. CASE UNCHANGED vars
  BY <1>1, UsedUnmoved DEF vars, local, node
<1>2. CASE CreateNode \/ CreateFails \/ DestroyPool \/ Crash \/ ServerDrops
  BY <1>2, UsedUnmoved DEF CreateNode, CreateFails, DestroyPool, Crash, ServerDrops,
     local, node
<1>3. ASSUME NEW u \in Workers, NEW l \in PCs,
             pc' = [pc EXCEPT ![u] = l], UNCHANGED <<held, lock, used, at>>,
             l \in {"call", "reinit", "init", "connect", "up", "down", "ping", "giveback",
                    "query2", "insert", "reply", "release", "dead"},
             InLoop(u) => l \in {"reinit", "init", "connect", "up", "down", "ping",
                                 "giveback"}
      PROVE  UsedInv'
  <2>1. InLoop(u) => InLoop(u)'
    BY <1>3 DEF InLoop, TypeInv, TypeOK
  <2> QED BY <1>3, <2>1, UsedMove
<1>4. ASSUME NEW u \in Workers, NEW k \in {"login", "register"}, StartJob(u, k)
      PROVE  UsedInv'
  BY <1>3, <1>4 DEF StartJob, Goto, InLoop, PCs, node
<1>5. ASSUME NEW u \in Workers, pc[u] \in {"call", "try"}, pc' = [pc EXCEPT ![u] = "try"],
             UNCHANGED <<held, lock, used>>, \A w \in Workers : w # u => at'[w] = at[w]
      PROVE  UsedInv'
  <2>1. \A w \in Workers : InLoop(w) => InLoop(w)' /\ at'[w] = at[w]
    BY <1>5 DEF InLoop, TypeInv, TypeOK
  <2>2. \A w \in Workers, n \in Nodes : n \in Holds(w) => (n \in Holds(w))'
    BY <1>5, <2>1, HoldsGrows
  <2>3. \A w \in Workers, n \in Nodes : Returning(w, n)' => Returning(w, n)
    BY <1>5 DEF Returning, TypeInv, TypeOK
  <2> QED BY <1>5, <2>2, <2>3, UsedKept
<1>6. ASSUME NEW u \in Workers, Get(u) PROVE UsedInv'
  BY <1>5, <1>6 DEF Get, Goto, node, TypeInv, TypeOK
<1>7. ASSUME NEW u \in Workers, TryBusy(u) PROVE UsedInv'
  <2>1. pc[u] = "try" /\ NextNode(u) /\ UNCHANGED <<lock, used>>
    BY <1>7 DEF TryBusy, node
  <2>2. CASE Return(u, NoNode)
    BY <2>1, <2>2, UsedReturn DEF InLoop
  <2>3. CASE ~Return(u, NoNode)
    <3>1. /\ pc' = [pc EXCEPT ![u] = "try"] /\ UNCHANGED held
          /\ \A w \in Workers : w # u => at'[w] = at[w]
      BY <2>1, <2>3 DEF NextNode, Goto, TypeInv, TypeOK
    <3> QED BY <1>5, <2>1, <3>1
  <2> QED BY <2>2, <2>3
<1>8. ASSUME NEW u \in Workers, TryFree(u) PROVE UsedInv'
  <2>1. /\ pc[u] = "try" /\ pc' = [pc EXCEPT ![u] = "state"]
        /\ lock' = [lock EXCEPT ![at[u]] = TRUE] /\ UNCHANGED <<held, at, used>>
    BY <1>8 DEF TryFree, Goto, local, node
  <2>2. InLoop(u)' /\ \A w \in Workers : InLoop(w) => InLoop(w)'
    BY <2>1 DEF InLoop, TypeInv, TypeOK
  <2>3. \A w \in Workers, n \in Nodes : n \in Holds(w) => (n \in Holds(w))'
    BY <2>1, <2>2, HoldsGrows
  <2>4. \A n \in Nodes : n = at[u] => (n \in Holds(u))'
    BY <2>1, <2>2, HoldsIsPrime
  <2>5. \A n \in Nodes : lock'[n] => lock[n] \/ \E w \in Workers : (n \in Holds(w))'
    BY <2>1, <2>4 DEF TypeInv, TypeOK
  <2>6. \A w \in Workers, n \in Nodes : Returning(w, n)' => Returning(w, n)
    BY <2>1 DEF Returning, TypeInv, TypeOK
  <2> QED BY <2>1, <2>3, <2>5, <2>6, UsedKept
<1>9. ASSUME NEW u \in Workers, ReadState(u) PROVE UsedInv'
  <2>1. /\ UNCHANGED <<held, lock, used, at>> /\ pc[u] = "state"
        /\ \E l \in {"reinit", "ping"} : pc' = [pc EXCEPT ![u] = l]
    BY <1>9 DEF ReadState, Goto, local, node
  <2> QED BY <1>3, <2>1 DEF PCs
<1>10. ASSUME NEW u \in Workers, Reinit(u) PROVE UsedInv'
  <2>1. /\ pc[u] = "reinit" /\ pc' = [pc EXCEPT ![u] = "init"]
        /\ lock' = [lock EXCEPT ![at[u]] = FALSE] /\ UNCHANGED <<held, at, used>>
    BY <1>10 DEF Reinit, Goto, local, node
  <2>2. \A w \in Workers : InLoop(w) => InLoop(w)'
    BY <2>1 DEF InLoop, TypeInv, TypeOK
  <2>3. \A w \in Workers, n \in Nodes : n \in Holds(w) => (n \in Holds(w))'
    BY <2>1, <2>2, HoldsGrows
  <2>4. \A n \in Nodes : lock'[n] => lock[n]
    BY <2>1 DEF TypeInv, TypeOK
  <2>5. \A w \in Workers, n \in Nodes : Returning(w, n)' => Returning(w, n)
    BY <2>1 DEF Returning, TypeInv, TypeOK
  <2> QED BY <2>1, <2>3, <2>4, <2>5, UsedKept
<1>11. ASSUME NEW u \in Workers, InitHandle(u) \/ NotConnected(u) PROVE UsedInv'
  BY <1>3, <1>11 DEF InitHandle, NotConnected, Goto, PCs, local
<1>12. ASSUME NEW u \in Workers, Connect(u) PROVE UsedInv'
  <2>1. /\ UNCHANGED <<held, lock, used, at>> /\ pc[u] = "connect"
        /\ \E l \in {"up", "down"} : pc' = [pc EXCEPT ![u] = l]
    BY <1>12 DEF Connect, Goto, local
  <2> QED BY <1>3, <2>1 DEF PCs
<1>13. ASSUME NEW u \in Workers, Connected(u) PROVE UsedInv'
  <2>1. /\ pc[u] = "up" /\ pc' = [pc EXCEPT ![u] = "ping"]
        /\ used' = [used EXCEPT ![at[u]] = 0] /\ UNCHANGED <<held, at, lock>>
    BY <1>13 DEF Connected, Goto, local
  <2>2. \A w \in Workers : InLoop(w) => InLoop(w)'
    BY <2>1 DEF InLoop, TypeInv, TypeOK
  <2>3. \A w \in Workers, n \in Nodes : n \in Holds(w) => (n \in Holds(w))'
    BY <2>1, <2>2, HoldsGrows
  <2>4. \A n \in Nodes : used'[n] = 1 => used[n] = 1
    BY <2>1 DEF TypeInv, TypeOK
  <2>5. \A w \in Workers, n \in Nodes : Returning(w, n)' => Returning(w, n)
    BY <2>1 DEF Returning, TypeInv, TypeOK
  <2> QED BY <2>1, <2>3, <2>4, <2>5, UsedKept
<1>14. ASSUME NEW u \in Workers, PingOk(u) PROVE UsedInv'
  <2>1. /\ pc[u] = "ping" /\ pc' = [pc EXCEPT ![u] = "granted"]
        /\ used' = [used EXCEPT ![at[u]] = 1] /\ UNCHANGED <<held, at, lock>>
    BY <1>14 DEF PingOk, Goto
  <2>2. InLoop(u)' /\ \A w \in Workers : InLoop(w) => InLoop(w)'
    BY <2>1 DEF InLoop, TypeInv, TypeOK
  <2>3. \A w \in Workers, n \in Nodes : n \in Holds(w) => (n \in Holds(w))'
    BY <2>1, <2>2, HoldsGrows
  <2>4. \A n \in Nodes : n = at[u] => Keeps(u, n)'
    <3>1. \A n \in Nodes : n = at[u] => (n \in Holds(u))'
      BY <2>1, <2>2, HoldsIsPrime
    <3>2. \A n \in Nodes : ~Returning(u, n)'
      BY <2>1 DEF Returning, TypeInv, TypeOK
    <3> QED BY <3>1, <3>2 DEF Keeps
  <2>5. \A n \in Nodes : used'[n] = 1 => used[n] = 1 \/ \E w \in Workers : Keeps(w, n)'
    BY <2>1, <2>4 DEF TypeInv, TypeOK
  <2>6. \A w \in Workers, n \in Nodes : Returning(w, n)' => Returning(w, n)
    BY <2>1 DEF Returning, TypeInv, TypeOK
  <2> QED BY <2>1, <2>3, <2>5, <2>6, UsedKept
<1>15. ASSUME NEW u \in Workers, PingFails(u) PROVE UsedInv'
  BY <1>3, <1>15 DEF PingFails, Goto, PCs, local
<1>16. ASSUME NEW u \in Workers, Grant(u) PROVE UsedInv'
  <2>1. InLoop(u) /\ pc[u] = "granted" /\ Return(u, at[u]) /\ UNCHANGED <<lock, used>>
    BY <1>16 DEF Grant, InLoop, node
  <2> QED BY <2>1, UsedReturn DEF TypeInv, TypeOK
<1>17. ASSUME NEW u \in Workers, GiveBack(u) PROVE UsedInv'
  <2>1. /\ ReleaseBegin(u, at[u]) /\ pc' = [pc EXCEPT ![u] = "given"]
        /\ InLoop(u) /\ at[u] \in Nodes
    BY <1>17 DEF GiveBack, Goto, InLoop, TypeInv, TypeOK
  <2> QED BY <2>1, UsedReleaseBegins
<1>18. ASSUME NEW u \in Workers, Release(u) PROVE UsedInv'
  <2>1. /\ ReleaseBegin(u, Head(held[u])) /\ pc' = [pc EXCEPT ![u] = "released"]
        /\ ~InLoop(u) /\ Head(held[u]) \in Nodes
    BY <1>18 DEF Release, Goto, InLoop, TypeInv, TypeOK
  <2> QED BY <2>1, UsedReleaseBegins
<1>19. ASSUME NEW u \in Workers,
              Query(u) \/ Query2(u) \/ Insert(u) \/ Reply(u) \/ ReplySigPipe(u)
       PROVE  UsedInv'
  <2>1. /\ UNCHANGED <<held, lock, used, at>>
        /\ pc[u] \in {"query", "query2", "insert", "reply"}
        /\ \E l \in {"query2", "insert", "reply", "release", "dead"} :
             pc' = [pc EXCEPT ![u] = l]
    BY <1>19 DEF Query, Query2, Insert, Reply, ReplySigPipe, Goto, local, node
  <2> QED BY <1>3, <2>1 DEF InLoop, PCs
<1>20. ASSUME NEW u \in Workers, Released(u) PROVE UsedInv'
  <2>1. held[u] # <<>> /\ Head(held[u]) # NoNode
    BY <1>20 DEF Released, TypeInv, ReleasesOK
  <2>2. Head(held[u]) \in Nodes
    BY <2>1 DEF TypeInv, TypeOK
  <2> QED BY <1>20, <2>2, UsedReleased
<1> QED
  BY <1>1, <1>2, <1>4, <1>6, <1>7, <1>8, <1>9, <1>10, <1>11, <1>12, <1>13, <1>14,
     <1>15, <1>16, <1>17, <1>18, <1>19, <1>20, UsedGivenBack
  DEF Next, WorkerStep, GetNull, PingNull, QueryNull

(* No connection is put out of use by a path that forgets it: whatever     *)
(* pings fail, servers refuse or locks are initialised again, a node that  *)
(* is locked or marked used is in somebody's hands.                        *)
THEOREM NodesNotForgotten == Spec => []LockedIsHeld
<1>1. Init => TypeInv /\ UsedInv
  BY InitTypeInv, InitUsedInv
<1>2. TypeInv /\ UsedInv /\ [Next]_vars => (TypeInv /\ UsedInv)'
  BY StepTypeInv, StepUsedInv
<1>3. UsedInv => LockedIsHeld
  BY DEF UsedInv, Keeps, LockedIsHeld
<1> QED BY <1>1, <1>2, <1>3, PTL DEF Spec

-----------------------------------------------------------------------------
(* How many results of get_db_connect a handler has at each place.         *)
CallsInv == \A w \in Workers :
  /\ pc[w] = "idle" => held[w] = <<>>
  /\ pc[w] \in {"call", "try"} \/ InLoop(w) =>
       held[w] = <<>> \/ (Len(held[w]) = 1 /\ kind[w] = "login")
  /\ pc[w] = "query" => Len(held[w]) = IF kind[w] = "login" THEN 2 ELSE 1
  /\ pc[w] = "query2" => Len(held[w]) = 2

(* Fresh, and the first connection of a login while it tries for a second. *)
Unqueried(w) ==
  CASE pc[w] = "granted" -> {at[w]} \cup Granted(w)
    [] pc[w] = "query2"  -> {held[w][2]} \ {NoNode}
    [] pc[w] \in {"call", "try", "query"} \/ (InLoop(w) /\ pc[w] # "granted") -> Granted(w)
    [] OTHER -> {}

Unread(n) == link[n] \in {"dirty", "dirty_lost"}

CleanInv == \A w \in Workers, n \in Nodes :
  n \in Unqueried(w) /\ ~reinit[n] => ~Unread(n)

ScreenInv == CallsInv /\ CleanInv

LEMMA InitScreenInv == Init => ScreenInv
BY DEF Init, ScreenInv, CallsInv, CleanInv, InLoop, Unqueried

-----------------------------------------------------------------------------
LEMMA SeqItem ==
  ASSUME NEW S, NEW s \in Seq(S), NEW k \in Nat \ {0}, k <= Len(s)
  PROVE  k \in DOMAIN s /\ s[k] \in S
OBVIOUS

LEMMA LastOne ==
  ASSUME NEW S, NEW s \in Seq(S), Len(s) = 1
  PROVE  Tail(s) = <<>>
<1> DEFINE t == Tail(s)
<1>1. Len(t) = 0 /\ t \in Seq(S)
  <2>1. s # <<>>
    OBVIOUS
  <2> QED BY <2>1
<1> HIDE DEF t
<1>2. t = <<>>
  BY <1>1
<1> QED BY <1>2 DEF t

LEMMA CallsUnmoved == ASSUME CallsInv, UNCHANGED <<pc, held, kind>> PROVE CallsInv'
BY DEF CallsInv, InLoop

(* A worker moves on, in or out of get_db_connect's loop, and keeps what   *)
(* it was given.                                                           *)
LEMMA CallsMove ==
  ASSUME TypeInv, CallsInv, NEW u \in Workers, NEW l \in PCs,
         pc' = [pc EXCEPT ![u] = l], UNCHANGED <<held, kind>>,
         \/ l \notin {"idle", "query", "query2"} /\ (pc[u] \in {"call", "try"} \/ InLoop(u))
         \/ l \in {"insert", "reply", "release", "released", "dead"}
         \/ l = "query2" /\ Len(held[u]) = 2
  PROVE  CallsInv'
BY DEF CallsInv, InLoop, TypeInv, TypeOK

LEMMA CallsReturn ==
  ASSUME TypeInv, CallsInv, NEW u \in Workers, NEW m \in Nodes \cup {NoNode},
         pc[u] = "try" \/ InLoop(u), Return(u, m), UNCHANGED kind
  PROVE  CallsInv'
<1>1. /\ held' = [held EXCEPT ![u] = Append(held[u], m)]
      /\ pc' = [pc EXCEPT ![u] = IF kind[u] = "login" /\ held[u] = <<>>
                                  THEN "call" ELSE "query"]
  BY DEF Return, Goto
<1>2. held[u] \in Seq(Nodes \cup {NoNode}) /\ held'[u] = Append(held[u], m)
  BY <1>1 DEF TypeInv, TypeOK
<1>3. held[u] = <<>> \/ (Len(held[u]) = 1 /\ kind[u] = "login")
  BY DEF CallsInv
<1>4. Len(held'[u]) = Len(held[u]) + 1 /\ Len(held[u]) \in Nat
      /\ (held[u] = <<>> => Len(held[u]) = 0)
  BY <1>2
<1>5. \A w \in Workers : w # u => held'[w] = held[w] /\ pc'[w] = pc[w]
  BY <1>1 DEF TypeInv, TypeOK
<1>6. CASE kind[u] = "login" /\ held[u] = <<>>
  <2>1. pc'[u] = "call" /\ Len(held'[u]) = 1
    BY <1>1, <1>4, <1>6 DEF TypeInv, TypeOK
  <2> QED BY <1>5, <1>6, <2>1 DEF CallsInv, InLoop
<1>7. CASE ~(kind[u] = "login" /\ held[u] = <<>>)
  <2>1. pc'[u] = "query"
    BY <1>1, <1>7 DEF TypeInv, TypeOK
  <2>2. CASE kind[u] = "login"
    <3>1. Len(held[u]) = 1
      BY <1>3, <1>7, <2>2
    <3>2. Len(held'[u]) = 2
      BY <1>4, <3>1
    <3> QED BY <1>5, <2>1, <2>2, <3>2 DEF CallsInv, InLoop
  <2>3. CASE kind[u] # "login"
    <3>1. Len(held'[u]) = 1
      BY <1>3, <1>4, <1>7, <2>3
    <3> QED BY <1>5, <2>1, <2>3, <3>1 DEF CallsInv, InLoop
  <2> QED BY <2>2, <2>3
<1> QED BY <1>6, <1>7

LEMMA CallsNextNode ==
  ASSUME TypeInv, CallsInv, NEW u \in Workers,
         pc[u] = "try" \/ InLoop(u), NextNode(u), UNCHANGED kind
  PROVE  CallsInv'
<1>1. CASE Return(u, NoNode)
  BY <1>1, CallsReturn
<1>2. CASE ~Return(u, NoNode)
  <2>1. pc' = [pc EXCEPT ![u] = "try"] /\ UNCHANGED held
    BY <1>2 DEF NextNode, Goto
  <2> QED BY <2>1, CallsMove DEF PCs
<1> QED BY <1>1, <1>2

LEMMA StepCallsInv == TypeInv /\ CallsInv /\ [Next]_vars => CallsInv'
<1> SUFFICES ASSUME TypeInv, CallsInv, [Next]_vars PROVE CallsInv'
  OBVIOUS
<1>1. CASE UNCHANGED vars \/ CreateNode \/ CreateFails \/ DestroyPool \/ Crash \/ ServerDrops
  BY <1>1, CallsUnmoved DEF vars, CreateNode, CreateFails, DestroyPool, Crash,
     ServerDrops, local
<1>2. ASSUME NEW u \in Workers, NEW k \in {"login", "register"}, StartJob(u, k)
      PROVE  CallsInv'
  BY <1>2 DEF StartJob, Goto, CallsInv, InLoop, TypeInv, TypeOK
<1>3. ASSUME NEW u \in Workers, NEW l \in PCs,
             pc' = [pc EXCEPT ![u] = l], UNCHANGED <<held, kind>>,
             \/ l \notin {"idle", "query", "query2"} /\ (pc[u] \in {"call", "try"} \/ InLoop(u))
             \/ l \in {"insert", "reply", "release", "released", "dead"}
             \/ l = "query2" /\ Len(held[u]) = 2
      PROVE  CallsInv'
  BY <1>3, CallsMove
<1>4. ASSUME NEW u \in Workers,
             \/ Get(u) \/ TryFree(u) \/ Reinit(u) \/ InitHandle(u) \/ Connected(u)
             \/ NotConnected(u) \/ PingOk(u) \/ PingFails(u) \/ GiveBack(u)
      PROVE  CallsInv'
  <2>1. /\ UNCHANGED <<held, kind>> /\ (pc[u] \in {"call", "try"} \/ InLoop(u))
        /\ \E l \in {"try", "state", "init", "connect", "ping", "giveback", "granted",
                     "given"} : pc' = [pc EXCEPT ![u] = l]
    BY <1>4 DEF Get, TryFree, Reinit, InitHandle, Connected, NotConnected, PingOk,
       PingFails, GiveBack, ReleaseBegin, Goto, InLoop, local
  <2>2. PICK l \in {"try", "state", "init", "connect", "ping", "giveback", "granted",
                    "given"} : pc' = [pc EXCEPT ![u] = l]
    BY <2>1
  <2>3. l \in PCs /\ l \notin {"idle", "query", "query2"}
    BY DEF PCs
  <2> QED BY <2>1, <2>2, <2>3, CallsMove
<1>5. ASSUME NEW u \in Workers, ReadState(u) \/ Connect(u) PROVE CallsInv'
  <2>1. /\ UNCHANGED <<held, kind>> /\ InLoop(u)
        /\ \E l \in {"reinit", "ping", "up", "down"} : pc' = [pc EXCEPT ![u] = l]
    BY <1>5 DEF ReadState, Connect, Goto, InLoop, local
  <2> QED BY <1>3, <2>1 DEF PCs
<1>6. ASSUME NEW u \in Workers, TryBusy(u) \/ GivenBack(u) PROVE CallsInv'
  <2>1. (pc[u] = "try" \/ InLoop(u)) /\ NextNode(u) /\ UNCHANGED kind
    BY <1>6 DEF TryBusy, GivenBack, InLoop
  <2> QED BY <2>1, CallsNextNode
<1>7. ASSUME NEW u \in Workers, Grant(u) PROVE CallsInv'
  <2>1. InLoop(u) /\ Return(u, at[u]) /\ UNCHANGED kind /\ at[u] \in Nodes
    BY <1>7 DEF Grant, InLoop, TypeInv, TypeOK
  <2> QED BY <2>1, CallsReturn
<1>8. ASSUME NEW u \in Workers, Query(u) PROVE CallsInv'
  <2>1. /\ UNCHANGED <<held, kind>> /\ pc[u] = "query"
        /\ \/ kind[u] = "login" /\ pc' = [pc EXCEPT ![u] = "query2"]
           \/ \E l \in {"insert", "reply"} : pc' = [pc EXCEPT ![u] = l]
    BY <1>8 DEF Query, Goto, local
  <2>2. kind[u] = "login" => Len(held[u]) = 2
    BY <2>1 DEF CallsInv
  <2> QED BY <1>3, <2>1, <2>2 DEF PCs
<1>9. ASSUME NEW u \in Workers,
             Query2(u) \/ Insert(u) \/ Reply(u) \/ ReplySigPipe(u) \/ Release(u)
      PROVE  CallsInv'
  <2>1. /\ UNCHANGED <<held, kind>>
        /\ \E l \in {"reply", "release", "dead", "released"} : pc' = [pc EXCEPT ![u] = l]
    BY <1>9 DEF Query2, Insert, Reply, ReplySigPipe, Release, ReleaseBegin, Goto, local
  <2> QED BY <1>3, <2>1 DEF PCs
<1>10. ASSUME NEW u \in Workers, Released(u) PROVE CallsInv'
  <2>1. /\ held' = [held EXCEPT ![u] = Tail(held[u])] /\ held[u] # <<>>
        /\ pc' = [pc EXCEPT ![u] = IF Len(held[u]) = 1 THEN "idle" ELSE "release"]
        /\ kind' = [kind EXCEPT ![u] = "login"]
    BY <1>10 DEF Released, Goto, TypeInv, ReleasesOK
  <2>2. held[u] \in Seq(Nodes \cup {NoNode}) /\ held'[u] = Tail(held[u])
    BY <2>1 DEF TypeInv, TypeOK
  <2>3. Len(held[u]) = 1 => held'[u] = <<>>
    BY <2>2, LastOne
  <2>4. \A w \in Workers : w # u => held'[w] = held[w] /\ pc'[w] = pc[w] /\ kind'[w] = kind[w]
    BY <2>1 DEF TypeInv, TypeOK
  <2>5. \/ pc'[u] = "release"
        \/ pc'[u] = "idle" /\ held'[u] = <<>>
    BY <2>1, <2>3 DEF TypeInv, TypeOK
  <2> QED BY <2>4, <2>5 DEF CallsInv, InLoop
<1> QED
  BY <1>1, <1>2, <1>4, <1>5, <1>6, <1>7, <1>8, <1>9, <1>10
  DEF Next, WorkerStep, GetNull, PingNull, QueryNull

-----------------------------------------------------------------------------
(* Nobody is given an unread connection and no connection becomes unread   *)
(* in the hands of a handler that has not queried it.                      *)
LEMMA CleanKept ==
  ASSUME CleanInv,
         \A n \in Nodes : reinit[n] => reinit'[n],
         \A w \in Workers, n \in Nodes :
           (n \in Unqueried(w))' => n \in Unqueried(w) \/ (~Unread(n))',
         \A w \in Workers, n \in Nodes :
           (n \in Unqueried(w))' /\ ~reinit[n] /\ Unread(n)' => Unread(n)
  PROVE  CleanInv'
BY DEF CleanInv

LEMMA UnqueriedIsGranted ==
  ASSUME TypeInv, CallsInv, NEW w \in Workers, NEW n \in Nodes, n \in Unqueried(w)
  PROVE  /\ n \in Holds(w)
         /\ pc[w] = "query2" => 2 \in DOMAIN held[w] /\ n = held[w][2]
<1>1. CASE pc[w] = "query2"
  <2>1. Len(held[w]) = 2 /\ held[w] \in Seq(Nodes \cup {NoNode}) /\ n = held[w][2]
    BY <1>1 DEF CallsInv, Unqueried, TypeInv, TypeOK
  <2>2. 2 \in DOMAIN held[w]
    BY <2>1
  <2> QED BY <2>1, <2>2, GrantedIs, HoldsIs
<1>2. CASE pc[w] # "query2"
  <2>1. n \in Granted(w) \/ (InLoop(w) /\ at[w] = n)
    BY <1>2 DEF Unqueried, InLoop
  <2> QED BY <1>2, <2>1, HoldsIs
<1> QED BY <1>1, <1>2

(* The places of a worker that moves, those of the others being kept.      *)
LEMMA UnqueriedOfOthers ==
  ASSUME NEW w \in Workers, pc'[w] = pc[w], held'[w] = held[w], at'[w] = at[w]
  PROVE  \A n : (n \in Unqueried(w))' <=> n \in Unqueried(w)
BY DEF Unqueried, InLoop, Granted, Range

LEMMA CleanMove ==
  ASSUME TypeInv, CleanInv, NEW u \in Workers, NEW l \in PCs,
         pc' = [pc EXCEPT ![u] = l], UNCHANGED held,
         \A w \in Workers : w # u => at'[w] = at[w],
         \A n \in Nodes : reinit[n] => reinit'[n],
         \A n \in Nodes : Unread(n)' => Unread(n),
         \/ /\ l \notin {"granted", "query", "query2"}
            /\ pc[u] # "granted" /\ (pc[u] \in {"call", "try"} \/ InLoop(u))
         \/ l \in {"insert", "reply", "release", "released", "dead", "idle"}
  PROVE  CleanInv'
<1>1. \A n : (n \in Granted(u))' <=> n \in Granted(u)
  BY DEF Granted, Range
<1>2. \A n : (n \in Unqueried(u))' => n \in Unqueried(u)
  <2>1. pc'[u] = l
    BY DEF TypeInv, TypeOK
  <2>2. CASE l \in {"insert", "reply", "release", "released", "dead", "idle"}
    BY <2>1, <2>2 DEF Unqueried, InLoop
  <2>3. CASE /\ l \notin {"granted", "query", "query2"}
             /\ pc[u] # "granted" /\ (pc[u] \in {"call", "try"} \/ InLoop(u))
    <3>1. \A n : n \in Unqueried(u) <=> n \in Granted(u)
      BY <2>3 DEF Unqueried, InLoop
    <3>2. \A n : (n \in Unqueried(u))' => (n \in Granted(u))'
      BY <2>1, <2>3 DEF Unqueried
    <3> QED BY <1>1, <3>1, <3>2
  <2> QED BY <2>2, <2>3
<1>3. \A w \in Workers : w # u => \A n : (n \in Unqueried(w))' <=> n \in Unqueried(w)
  BY UnqueriedOfOthers DEF TypeInv, TypeOK
<1> QED BY <1>2, <1>3, CleanKept
LEMMA CleanReturn ==
  ASSUME TypeInv, CleanInv, NEW u \in Workers, NEW m \in Nodes \cup {NoNode},
         pc[u] = "try" \/ InLoop(u), Return(u, m), UNCHANGED <<link, reinit>>,
         m = NoNode \/ (pc[u] = "granted" /\ m = at[u])
  PROVE  CleanInv'
<1>1. /\ held' = [held EXCEPT ![u] = Append(held[u], m)]
      /\ \E l \in {"call", "query"} : pc' = [pc EXCEPT ![u] = l]
      /\ at' = [at EXCEPT ![u] = 0]
  BY DEF Return, Goto
<1>2. held[u] \in Seq(Nodes \cup {NoNode}) /\ held'[u] = Append(held[u], m)
  BY <1>1 DEF TypeInv, TypeOK
<1>3. \A k \in DOMAIN held'[u] : \/ k \in DOMAIN held[u] /\ held'[u][k] = held[u][k]
                                 \/ held'[u][k] = m
  BY <1>2
<1>4. \A n \in Nodes : (n \in Granted(u))' => n \in Granted(u) \/ n = m
  BY <1>3, GrantedIs, GrantedIsPrime
<1>5. \A n \in Nodes : (n \in Unqueried(u))' => (n \in Granted(u))'
  BY <1>1 DEF Unqueried, InLoop, TypeInv, TypeOK
<1>6. \A n \in Nodes : n \in Granted(u) \/ n = m => n \in Unqueried(u)
  <2>1. \A n \in Nodes : n # NoNode
    BY NodeIsNotNull
  <2> QED BY <2>1 DEF Unqueried, InLoop
<1>7. \A w \in Workers : w # u => \A n : (n \in Unqueried(w))' <=> n \in Unqueried(w)
  BY <1>1, UnqueriedOfOthers DEF TypeInv, TypeOK
<1>8. \A n : Unread(n)' <=> Unread(n)
  BY DEF Unread
<1>9. \A w \in Workers, n \in Nodes : (n \in Unqueried(w))' => n \in Unqueried(w)
  BY <1>4, <1>5, <1>6, <1>7
<1> QED BY <1>8, <1>9, CleanKept

(* A query, on a node that only its worker holds.                          *)
LEMMA CleanQuery ==
  ASSUME TypeInv, HolderInv, CallsInv, CleanInv, NEW u \in Workers,
         NEW k \in DOMAIN held[u], NEW m \in Nodes, m = held[u][k],
         \A n \in Nodes : n # m => link'[n] = link[n],
         NEW l \in PCs, pc' = [pc EXCEPT ![u] = l], UNCHANGED <<held, at, reinit>>,
         \/ l \in {"reply", "insert"}
         \/ l = "query2" /\ k = 1 /\ pc[u] = "query" /\ Len(held[u]) = 2
  PROVE  CleanInv'
<1>1. m \in Granted(u) /\ m \in Holds(u)
  BY GrantedIs, HoldsIs
<1>2. \A w \in Workers : w # u => \A n : (n \in Unqueried(w))' <=> n \in Unqueried(w)
  BY UnqueriedOfOthers DEF TypeInv, TypeOK
<1>3. \A n \in Nodes : (n \in Unqueried(u))' /\ ~reinit[n] => n \in Unqueried(u) /\ n # m
  <2>1. pc'[u] = l
    BY DEF TypeInv, TypeOK
  <2>2. CASE l \in {"reply", "insert"}
    BY <2>1, <2>2 DEF Unqueried, InLoop
  <2>3. CASE l = "query2" /\ k = 1 /\ pc[u] = "query" /\ Len(held[u]) = 2
    <3> SUFFICES ASSUME NEW n \in Nodes, (n \in Unqueried(u))', ~reinit[n]
                 PROVE  n \in Unqueried(u) /\ n # m
      OBVIOUS
    <3>1. n = held[u][2]
      <4>1. (n \in Unqueried(u))' <=> n \in {held'[u][2]} \ {NoNode}
        BY <2>1, <2>3 DEF Unqueried, InLoop
      <4> QED BY <4>1
    <3>2. 1 \in DOMAIN held[u] /\ 2 \in DOMAIN held[u]
      BY <2>3 DEF TypeInv, TypeOK
    <3>3. n \in Granted(u) /\ n \in Unqueried(u)
      BY <2>3, <3>1, <3>2, GrantedIs DEF Unqueried, InLoop
    <3>4. n # m
      BY <2>3, <3>1, <3>2 DEF HolderInv, SoleHolder
    <3> QED BY <3>3, <3>4
  <2> QED BY <2>2, <2>3
<1>4. \A w \in Workers, n \in Nodes :
        w # u /\ n \in Unqueried(w) /\ ~reinit[n] => n # m
  <2> SUFFICES ASSUME NEW w \in Workers, w # u, m \in Unqueried(w), ~reinit[m]
               PROVE  FALSE
    OBVIOUS
  <2>1. m \in Holds(w)
    BY UnqueriedIsGranted
  <2> QED BY <1>1, <2>1 DEF HolderInv, SoleHolder
<1>5. \A n \in Nodes : n # m /\ Unread(n)' => Unread(n)
  BY DEF Unread
<1> QED BY <1>2, <1>3, <1>4, <1>5 DEF CleanInv

LEMMA StepCleanInv ==
  TypeInv /\ HolderInv /\ CallsInv /\ CleanInv /\ [Next]_vars => CleanInv'
<1> SUFFICES ASSUME TypeInv, HolderInv, CallsInv, CleanInv, [Next]_vars PROVE CleanInv'
  OBVIOUS
<1>1. ASSUME UNCHANGED <<pc, held, at, reinit>>, \A n \in Nodes : Unread(n)' => Unread(n)
      PROVE  CleanInv'
  <2>1. \A w \in Workers, n \in Nodes : (n \in Unqueried(w))' <=> n \in Unqueried(w)
    BY <1>1, UnqueriedOfOthers
  <2> QED BY <1>1, <2>1, CleanKept
<1>2. CASE UNCHANGED vars \/ CreateFails \/ Crash
  BY <1>1, <1>2 DEF vars, node, local, CreateFails, Crash, Unread
<1>3. CASE CreateNode \/ DestroyPool \/ ServerDrops
  <2>1. UNCHANGED <<pc, held, at, reinit>>
    BY <1>3 DEF CreateNode, DestroyPool, ServerDrops, local
  <2>2. CASE CreateNode
    BY <1>1, <2>1, <2>2 DEF CreateNode, Unread, TypeInv, TypeOK
  <2>3. CASE DestroyPool
    <3>1. \A n \in Nodes : link'[n] = link[n] \/ link'[n] = "null"
      BY <2>3 DEF DestroyPool
    <3> QED BY <1>1, <2>1, <3>1 DEF Unread
  <2>4. CASE ServerDrops
    <3>1. \A n \in Nodes : \/ link'[n] = link[n]
                           \/ link'[n] = "lost"
                           \/ link[n] = "dirty" /\ link'[n] = "dirty_lost"
      BY <2>4 DEF ServerDrops, TypeInv, TypeOK
    <3> QED BY <1>1, <2>1, <3>1 DEF Unread
  <2> QED BY <1>3, <2>2, <2>3, <2>4
<1>4. ASSUME NEW u \in Workers, NEW k \in {"login", "register"}, StartJob(u, k)
      PROVE  CleanInv'
  <2>1. /\ pc[u] = "idle" /\ pc' = [pc EXCEPT ![u] = "call"]
        /\ UNCHANGED <<held, at, link, reinit>>
    BY <1>4 DEF StartJob, Goto, node
  <2>2. held[u] = <<>>
    BY <2>1 DEF CallsInv
  <2>3. \A n \in Nodes : (n \notin Granted(u))'
    BY <2>1, <2>2, GrantedIsPrime
  <2>4. \A n \in Nodes : (n \notin Unqueried(u))'
    BY <2>1, <2>3 DEF Unqueried, TypeInv, TypeOK
  <2>5. \A w \in Workers : w # u => \A n : (n \in Unqueried(w))' <=> n \in Unqueried(w)
    BY <2>1, UnqueriedOfOthers DEF TypeInv, TypeOK
  <2>6. \A n : Unread(n)' <=> Unread(n)
    BY <2>1 DEF Unread
  <2> QED BY <2>1, <2>4, <2>5, <2>6, CleanKept
(* Inside get_db_connect, with what was granted before.                    *)
<1>5. ASSUME NEW u \in Workers, NEW l \in PCs, pc' = [pc EXCEPT ![u] = l],
             UNCHANGED held, \A w \in Workers : w # u => at'[w] = at[w],
             \A n \in Nodes : reinit[n] => reinit'[n],
             \A n \in Nodes : Unread(n)' => Unread(n),
             \/ /\ l \notin {"granted", "query", "query2"}
                /\ pc[u] # "granted" /\ (pc[u] \in {"call", "try"} \/ InLoop(u))
             \/ l \in {"insert", "reply", "release", "released", "dead", "idle"}
      PROVE  CleanInv'
  BY <1>5, CleanMove
<1>6. ASSUME NEW u \in Workers, Get(u) PROVE CleanInv'
  <2>1. /\ pc[u] = "call" /\ pc' = [pc EXCEPT ![u] = "try"]
        /\ UNCHANGED <<held, link, reinit>> /\ \E n : at' = [at EXCEPT ![u] = n]
    BY <1>6 DEF Get, Goto, node
  <2>2. \A w \in Workers : w # u => at'[w] = at[w]
    BY <2>1 DEF TypeInv, TypeOK
  <2> QED BY <1>5, <2>1, <2>2 DEF PCs, Unread
<1>7. ASSUME NEW u \in Workers,
             TryFree(u) \/ ReadState(u) \/ Connected(u) \/ NotConnected(u)
             \/ PingFails(u) \/ GiveBack(u)
      PROVE  CleanInv'
  <2>1. /\ pc[u] # "granted" /\ (pc[u] = "try" \/ InLoop(u))
        /\ UNCHANGED <<held, link, reinit, at>>
        /\ \E l \in {"state", "reinit", "ping", "giveback", "given"} :
             pc' = [pc EXCEPT ![u] = l]
    BY <1>7 DEF TryFree, ReadState, Connected, NotConnected, PingFails, GiveBack,
       ReleaseBegin, Goto, InLoop, node, local
  <2> QED BY <1>5, <2>1 DEF PCs, Unread
<1>8. ASSUME NEW u \in Workers, Reinit(u) PROVE CleanInv'
  <2>1. /\ pc[u] = "reinit" /\ pc' = [pc EXCEPT ![u] = "init"]
        /\ UNCHANGED <<held, link, at>> /\ reinit' = [reinit EXCEPT ![at[u]] = TRUE]
    BY <1>8 DEF Reinit, Goto, node, local
  <2>2. \A n \in Nodes : reinit[n] => reinit'[n]
    BY <2>1 DEF TypeInv, TypeOK
  <2> QED BY <1>5, <2>1, <2>2 DEF PCs, Unread, InLoop
<1>9. ASSUME NEW u \in Workers, InitHandle(u) \/ Connect(u) PROVE CleanInv'
  <2>1. /\ pc[u] # "granted" /\ InLoop(u) /\ UNCHANGED <<held, reinit, at>>
        /\ \E l \in {"connect", "up", "down"} : pc' = [pc EXCEPT ![u] = l]
    BY <1>9 DEF InitHandle, Connect, Goto, InLoop, local
  <2>2. \A n \in Nodes : link'[n] \in {link[n], "null", "open"}
    BY <1>9 DEF InitHandle, Connect, TypeInv, TypeOK
  <2>3. \A n \in Nodes : Unread(n)' => Unread(n)
    BY <2>2 DEF Unread
  <2> QED BY <1>5, <2>1, <2>3 DEF PCs
<1>10. ASSUME NEW u \in Workers, PingOk(u) PROVE CleanInv'
  <2>1. /\ pc[u] = "ping" /\ pc' = [pc EXCEPT ![u] = "granted"]
        /\ UNCHANGED <<held, reinit, at>>
    BY <1>10 DEF PingOk, Goto
  <2>2. \A n \in Nodes : link'[n] \in {link[n], "open"} /\ (n = at[u] => link'[n] = "open")
    BY <1>10 DEF PingOk, PingRead, Answers, TypeInv, TypeOK
  <2>3. \A n : (n \in Granted(u))' <=> n \in Granted(u)
    BY <2>1 DEF Granted, Range
  <2>4. \A n : (n \in Unqueried(u))' => (n \in Granted(u))' \/ n = at[u]
    BY <2>1 DEF Unqueried, TypeInv, TypeOK
  <2>5. \A n : n \in Granted(u) => n \in Unqueried(u)
    BY <2>1 DEF Unqueried, InLoop
  <2>6. \A w \in Workers : w # u => \A n : (n \in Unqueried(w))' <=> n \in Unqueried(w)
    BY <2>1, UnqueriedOfOthers DEF TypeInv, TypeOK
  <2>7. \A n \in Nodes : (Unread(n)' => Unread(n)) /\ (n = at[u] => (~Unread(n))')
    BY <2>2 DEF Unread
  <2>8. \A w \in Workers, n \in Nodes :
          (n \in Unqueried(w))' => n \in Unqueried(w) \/ (~Unread(n))'
    BY <2>3, <2>4, <2>5, <2>6, <2>7
  <2> QED BY <2>1, <2>7, <2>8, CleanKept
<1>11. ASSUME NEW u \in Workers, Grant(u) PROVE CleanInv'
  <2>1. /\ InLoop(u) /\ pc[u] = "granted" /\ Return(u, at[u]) /\ at[u] \in Nodes
        /\ UNCHANGED <<link, reinit>>
    BY <1>11 DEF Grant, InLoop, node, TypeInv, TypeOK
  <2> QED BY <2>1, CleanReturn
<1>12. ASSUME NEW u \in Workers, TryBusy(u) \/ GivenBack(u) PROVE CleanInv'
  <2>1. /\ pc[u] # "granted" /\ (pc[u] = "try" \/ InLoop(u)) /\ NextNode(u)
        /\ UNCHANGED <<link, reinit>>
    BY <1>12 DEF TryBusy, GivenBack, ReleaseEnd, InLoop, node
  <2>2. CASE Return(u, NoNode)
    BY <2>1, <2>2, CleanReturn
  <2>3. CASE ~Return(u, NoNode)
    <3>1. /\ pc' = [pc EXCEPT ![u] = "try"] /\ UNCHANGED held
          /\ at' = [at EXCEPT ![u] = NextIndex(@)]
      BY <2>1, <2>3 DEF NextNode, Goto
    <3>2. \A w \in Workers : w # u => at'[w] = at[w]
      BY <3>1 DEF TypeInv, TypeOK
    <3> QED BY <1>5, <2>1, <3>1, <3>2 DEF PCs, Unread
  <2> QED BY <2>2, <2>3
<1>13. ASSUME NEW u \in Workers, Query(u) PROVE CleanInv'
  <2>1. /\ pc[u] = "query" /\ UNCHANGED <<held, at, reinit>>
        /\ \/ kind[u] = "login" /\ pc' = [pc EXCEPT ![u] = "query2"]
           \/ \E l \in {"insert", "reply"} : pc' = [pc EXCEPT ![u] = l]
    BY <1>13 DEF Query, Goto, local
  <2>2. Len(held[u]) \in {1, 2} /\ (kind[u] = "login" => Len(held[u]) = 2)
    BY <2>1 DEF CallsInv
  <2>3. 1 \in DOMAIN held[u] /\ held[u][1] \in Nodes
    BY <1>13, <2>2 DEF Query, Usable, TypeInv, TypeOK
  <2>4. \A n \in Nodes : n # held[u][1] => link'[n] = link[n]
    BY <1>13 DEF Query, Row, NoRow, Error, TypeInv, TypeOK
  <2> QED BY <2>1, <2>2, <2>3, <2>4, CleanQuery DEF PCs
<1>14. ASSUME NEW u \in Workers, Query2(u) PROVE CleanInv'
  <2>1. /\ pc[u] = "query2" /\ UNCHANGED <<held, at, reinit>>
        /\ pc' = [pc EXCEPT ![u] = "reply"]
    BY <1>14 DEF Query2, Goto, local
  <2>2. Len(held[u]) = 2
    BY <2>1 DEF CallsInv
  <2>3. 2 \in DOMAIN held[u] /\ held[u][2] \in Nodes
    <3>1. held[u] \in Seq(Nodes \cup {NoNode})
      BY DEF TypeInv, TypeOK
    <3>2. 2 \in DOMAIN held[u] /\ held[u][2] \in Nodes \cup {NoNode}
      BY <2>2, <3>1, SeqItem
    <3>3. held[u][2] # NoNode
      BY <1>14 DEF Query2, Usable
    <3> QED BY <3>2, <3>3
  <2>4. \A n \in Nodes : n # held[u][2] => link'[n] = link[n]
    BY <1>14 DEF Query2, Row, NoRow, Error, TypeInv, TypeOK
  <2> QED BY <2>1, <2>3, <2>4, CleanQuery DEF PCs
<1>15. ASSUME NEW u \in Workers, Insert(u) PROVE CleanInv'
  <2>1. UNCHANGED <<held, at, reinit>> /\ pc' = [pc EXCEPT ![u] = "reply"]
    BY <1>15 DEF Insert, Goto, local
  <2>2. \A n \in Nodes : link'[n] \in {link[n], "open"}
    BY <1>15 DEF Insert, NoRow, Error, TypeInv, TypeOK
  <2>3. \A n \in Nodes : Unread(n)' => Unread(n)
    BY <2>2 DEF Unread
  <2> QED BY <1>5, <2>1, <2>3 DEF PCs
<1>16. ASSUME NEW u \in Workers, Reply(u) \/ ReplySigPipe(u) \/ Release(u) PROVE CleanInv'
  <2>1. /\ UNCHANGED <<held, link, reinit, at>>
        /\ \E l \in {"release", "dead", "released"} : pc' = [pc EXCEPT ![u] = l]
    BY <1>16 DEF Reply, ReplySigPipe, Release, ReleaseBegin, Goto, node, local
  <2> QED BY <1>5, <2>1 DEF PCs, Unread
<1>17. ASSUME NEW u \in Workers, Released(u) PROVE CleanInv'
  <2>1. /\ UNCHANGED <<link, reinit, at>>
        /\ held' = [held EXCEPT ![u] = Tail(@)]
        /\ \E l \in {"idle", "release"} : pc' = [pc EXCEPT ![u] = l]
    BY <1>17 DEF Released, ReleaseEnd, Goto, node
  <2>2. \A n : (n \notin Unqueried(u))'
    BY <2>1 DEF Unqueried, InLoop, TypeInv, TypeOK
  <2>3. \A w \in Workers : w # u => \A n : (n \in Unqueried(w))' <=> n \in Unqueried(w)
    BY <2>1, UnqueriedOfOthers DEF TypeInv, TypeOK
  <2>4. \A n : Unread(n)' <=> Unread(n)
    BY <2>1 DEF Unread
  <2> QED BY <2>1, <2>2, <2>3, <2>4, CleanKept
<1> QED
  BY <1>2, <1>3, <1>4, <1>6, <1>7, <1>8, <1>9, <1>10, <1>11, <1>12, <1>13, <1>14,
     <1>15, <1>16, <1>17
  DEF Next, WorkerStep, GetNull, PingNull, QueryNull

(* The ping screens what the last handler left behind: no handler starts   *)
(* on a connection with an unread result, for any number of handlers at    *)
(* once, until the lock of that connection is initialised again.           *)
THEOREM ConnectionsScreened == Spec => []PingScreens
<1> DEFINE ScrInv == TypeInv /\ HolderInv /\ ScreenInv
<1>1. Init => ScrInv
  BY InitTypeInv, InitHolderInv, InitScreenInv
<1>2. ScrInv /\ [Next]_vars => ScrInv'
  BY StepTypeInv, StepHolderInv, StepCallsInv, StepCleanInv DEF ScreenInv
<1>3. ScrInv => PingScreens
  <2>1. \A w \in Workers, n \in Nodes : n \in Fresh(w) => n \in Unqueried(w)
    BY DEF Fresh, Unqueried, InLoop
  <2> QED BY <2>1 DEF ScreenInv, CleanInv, PingScreens, Unread
<1> QED BY <1>1, <1>2, <1>3, PTL DEF Spec
=============================================================================
