------------------------- MODULE RequestPathProofs -------------------------
(***************************************************************************)
(* Types and slots of RequestPath, whom a handler answers and what main    *)
(* waits for, for every number of clients, descriptors, slots, tasks and   *)
(* threads and every set of faults.                                        *)
(***************************************************************************)
EXTENDS RequestPath, FiniteSetTheorems, SequenceTheorems, TLAPS

(* What epoll watches has an owner, and main has each event once.          *)
Watched ==
  /\ ready \subseteq registered \cup {Listen}
  /\ \A e \in batch : e.fd \in registered \cup {Listen}
  /\ \A d, e \in batch : d.fd = e.fd => d = e
  /\ \A f \in registered : \E c \in Clients : fd[c] = f
  /\ \A c, d \in Clients : fd[c] = fd[d] /\ fd[c] # NoFd => c = d
  /\ mpc \in {"read", "switch", "add"} => cur \in registered
  /\ mpc = "read" => \A e \in batch : e.fd # cur

(* A connection main may accept is there, and has no descriptor yet.       *)
Waiting ==
  /\ (\E e \in batch : e.fd = Listen) => backlog # <<>>
  /\ \A i \in 1 .. Len(backlog) : conn[backlog[i]] = "backlog"
  /\ \A i, j \in 1 .. Len(backlog) : backlog[i] = backlog[j] => i = j
  /\ \A c \in Clients : conn[c] # "open" => fd[c] = NoFd

(* A task is in the pool once, at a step of its handler.                   *)
AtStep(t) == job[t].kind \in AllKinds /\ job[t].step <= Len(Program[job[t].kind])
Programmed ==
  /\ mpc = "add" => sel \in AllKinds
  /\ \A t \in Used : AtStep(t)
  /\ \A i, j \in 1 .. Len(pending) : pending[i] = pending[j] => i = j
  /\ \A i \in 1 .. Len(pending) : pending[i] \notin running
  /\ IsFiniteSet(running)

PathInv == TypeOK /\ SlotsCounted /\ Watched /\ Waiting /\ Programmed

Wires == {<<>>} \cup {<<k>> : k \in Kinds \cup {"ack"}}
Jobs  == [kind : {"none"} \cup AllKinds, by : Clients \cup {Nobody},
          fd : Fds \cup {NoFd}, step : 1 .. 7, clean : BOOLEAN]
Bufs  == [kind : {"zero", "ack", "failed"} \cup AllKinds, fd : Fds \cup {NoFd},
          as : {"none", "net"} \cup Replies]

-----------------------------------------------------------------------------
(* The programs.                                                           *)

LEMMA FilesLen == Len(Program["news"]) = 7 /\ Len(Program["old"]) = 7
<1> DEFINE Ops == {"copy", "mark", "send", "ack"}
<1>1. Files \in Seq(Ops) /\ Len(Files) = 6
  BY DEF Files
<1>2. ASSUME NEW op \in Ops PROVE Len(<<op>> \o Files) = 7
  <2> DEFINE one == <<op>>
  <2>1. one \in Seq(Ops) /\ Len(one) = 1
    OBVIOUS
  <2> HIDE DEF one, Ops
  <2>2. Len(one \o Files) = Len(one) + Len(Files)
    BY <1>1, <2>1, ConcatProperties, Zenon
  <2>3. Len(one \o Files) = 7
    BY <1>1, <2>1, <2>2
  <2> QED BY <2>3 DEF one
<1>3. Program["news"] = <<"mark">> \o Files /\ Program["old"] = <<"copy">> \o Files
  BY DEF Program
<1>4. Len(<<"mark">> \o Files) = 7 /\ Len(<<"copy">> \o Files) = 7
  BY <1>2
<1> QED BY <1>3, <1>4

LEMMA KindsAre ==
  AllKinds = {"varify", "register", "login", "news", "old", "search", "video", "picture",
              "update"}
BY DEF AllKinds, Program

LEMMA ProgramLen == \A k \in AllKinds : Len(Program[k]) \in 1 .. 7
<1>1. \A k \in AllKinds \ {"news", "old"} : Len(Program[k]) \in 1 .. 7
  BY KindsAre DEF Program
<1> QED BY <1>1, FilesLen, KindsAre

(* A copy or a mark is never the last step.                                *)
LEMMA CopyMarkFirst ==
  ASSUME NEW k \in AllKinds, NEW n \in 1 .. Len(Program[k]),
         Program[k][n] \in {"copy", "mark"}
  PROVE  Len(Program[k]) >= 2
<1>1. SUFFICES ASSUME Len(Program[k]) < 2 PROVE FALSE
  BY ProgramLen
<1>2. Len(Program[k]) = 1 /\ n = 1
  BY <1>1, ProgramLen
<1>3. k \in {"varify", "register", "login"}
  <2>1. Len(Program["search"]) = 2 /\ Len(Program["video"]) = 2 /\ Len(Program["picture"]) = 2
        /\ Len(Program["update"]) = 3
    BY DEF Program
  <2> QED BY <1>2, <2>1, KindsAre, FilesLen
<1>4. Program[k] = <<"send">>
  BY <1>3 DEF Program
<1>5. Program[k][n] = "send"
  BY <1>2, <1>4
<1> QED BY <1>5

LEMMA OwnerIs ==
  ASSUME NEW f \in Fds
  PROVE  /\ Owner(f) # Nobody => Owner(f) \in Clients /\ fd[Owner(f)] = f
         /\ Owner(f) = Nobody <=> \A c \in Clients : fd[c] # f
BY RequestAssumption DEF Owner, Fds, NoFd

(* The cardinality that TaskQueue speaks of is the usual one.              *)
LEMMA PoolCardinality == ASSUME NEW S PROVE Pool!Cardinality(S) = Cardinality(S)
BY DEF Pool!Cardinality, Cardinality

LEMMA PoolTypes ==
  Pool!TypeOK <=> /\ pending \in Seq(Tasks)
                  /\ Len(pending) <= QueueMax
                  /\ running \in SUBSET Tasks
                  /\ Cardinality(running) <= ThreadMax
BY PoolCardinality DEF Pool!TypeOK

LEMMA WatchedIsFinite ==
  ASSUME TypeOK
  PROVE  IsFiniteSet(registered) /\ Cardinality(registered) \in Nat
<1>1. IsFiniteSet(Fds)
  BY FS_Interval, RequestAssumption DEF Fds
<1>2. registered \in SUBSET Fds
  BY DEF TypeOK
<1>3. IsFiniteSet(registered)
  BY <1>1, <1>2, FS_Subset
<1> QED BY <1>3, FS_CardinalityType

LEMMA InitPath == Init => PathInv
<1> SUFFICES ASSUME Init PROVE PathInv
  OBVIOUS
<1>1. IsFiniteSet({}) /\ Cardinality({}) = 0
  BY FS_EmptySet
<1>2. Used = {}
  BY DEF Init, Used, Pool!Init, Pool!Pending
<1>3. TypeOK
  <2>1. ep_num \in 0 .. EpollMax
    BY RequestAssumption DEF Init
  <2>2. Pool!TypeOK
    <3>1. pending = <<>> /\ running = {}
      BY DEF Init, Pool!Init
    <3>2. <<>> \in Seq(Tasks) /\ Len(<<>>) = 0
      OBVIOUS
    <3> QED BY <1>1, <3>1, <3>2, RequestAssumption, PoolTypes
  <2>3. asked \in [Clients -> 0 .. Requests]
    BY RequestAssumption DEF Init
  <2>4. batch \subseteq [fd : Fds \cup {Listen}, exact : BOOLEAN]
    BY DEF Init
  <2>5. NoJob \in [kind : {"none"} \cup AllKinds, by : Clients \cup {Nobody},
                   fd : Fds \cup {NoFd}, step : 1 .. 7, clean : BOOLEAN]
    BY DEF NoJob
  <2> QED BY <2>1, <2>2, <2>3, <2>4, <2>5 DEF Init, TypeOK, Zero
<1> QED BY <1>1, <1>2, <1>3 DEF Init, PathInv, SlotsCounted, Watched, Waiting, Programmed,
          Pool!Init

-----------------------------------------------------------------------------
(* The clients.                                                            *)

LEMMA StepArrive ==
  ASSUME PathInv, NEW c \in Clients, Arrive(c)
  PROVE  PathInv'
<1> USE DEF PathInv
<1>1. /\ Append(backlog, c) \in Seq(Clients)
      /\ Len(backlog') = Len(backlog) + 1
      /\ backlog' # <<>>
      /\ \A i \in 1 .. Len(backlog) : backlog'[i] = backlog[i]
      /\ backlog'[Len(backlog) + 1] = c
  BY AppendProperties DEF Arrive, TypeOK
<1>2. TypeOK'
  BY <1>1 DEF Arrive, TypeOK, main, pool, Pool!TypeOK
<1>3. SlotsCounted' /\ Programmed'
  BY DEF Arrive, SlotsCounted, Programmed, AtStep, Used, main, pool, Pool!Pending
<1>4. Watched'
  BY DEF Arrive, Watched, main
<1>5. Waiting'
  <2>1. Len(backlog) \in Nat
    BY DEF TypeOK
  <2>2. \A i \in 1 .. Len(backlog') : i \in 1 .. Len(backlog) \/ i = Len(backlog) + 1
    BY <1>1, <2>1
  <2>3. conn'[c] = "backlog" /\ \A d \in Clients \ {c} : conn'[d] = conn[d]
    BY DEF Arrive, TypeOK
  <2>4. \A i \in 1 .. Len(backlog) : backlog[i] \in Clients \ {c}
    BY DEF Waiting, Arrive, TypeOK
  <2>5. fd' = fd /\ batch' = batch /\ fd[c] = NoFd
    BY DEF Arrive, main, Waiting
  <2>6. \A i \in 1 .. Len(backlog') : conn'[backlog'[i]] = "backlog"
    BY <1>1, <2>2, <2>3, <2>4 DEF Waiting
  <2>7. \A i, j \in 1 .. Len(backlog') : backlog'[i] = backlog'[j] => i = j
    BY <1>1, <2>2, <2>4 DEF Waiting
  <2> QED BY <1>1, <2>3, <2>5, <2>6, <2>7 DEF Waiting
<1> QED BY <1>2, <1>3, <1>4, <1>5

LEMMA StepSend ==
  ASSUME PathInv, NEW c \in Clients, NEW k \in Kinds, Send(c, k)
  PROVE  PathInv'
<1> USE DEF PathInv
<1>1. ready \subseteq ready' /\ ready' \subseteq ready \cup registered
  BY DEF Send, Edge
<1>2. TypeOK'
  <2>1. asked[c] + 1 \in 0 .. Requests
    BY RequestAssumption DEF Send, TypeOK
  <2>2. ready' \subseteq Fds \cup {Listen}
    BY <1>1 DEF TypeOK
  <2> QED BY <2>1, <2>2 DEF Send, TypeOK, main, pool, Pool!TypeOK
<1>3. SlotsCounted' /\ Programmed'
  BY DEF Send, SlotsCounted, Programmed, AtStep, Used, main, pool, Pool!Pending
<1>4. Watched' /\ Waiting'
  BY <1>1 DEF Send, Watched, Waiting, main
<1> QED BY <1>2, <1>3, <1>4

LEMMA StepClose ==
  ASSUME PathInv, NEW c \in Clients, Close(c)
  PROVE  PathInv'
<1> USE DEF PathInv
<1>1. ready' \subseteq ready \cup registered
  BY DEF Close, Edge
<1>2. TypeOK'
  <2>1. ready' \subseteq Fds \cup {Listen}
    BY <1>1 DEF TypeOK
  <2> QED BY <2>1 DEF Close, TypeOK, main, pool, Pool!TypeOK
<1>3. SlotsCounted' /\ Programmed'
  BY DEF Close, SlotsCounted, Programmed, AtStep, Used, main, pool, Pool!Pending
<1>4. Watched' /\ Waiting'
  BY <1>1 DEF Close, Watched, Waiting, main
<1> QED BY <1>2, <1>3, <1>4

-----------------------------------------------------------------------------
(* main.                                                                   *)

LEMMA StepWait ==
  ASSUME PathInv, EpollWait
  PROVE  PathInv'
<1> USE DEF PathInv
<1>1. \A e \in batch' : /\ e.fd \in ready /\ Readable(e.fd)
                        /\ e = [fd |-> e.fd, exact |-> e.fd = Listen \/ fin[Owner(e.fd)] # "reset"]
  BY DEF EpollWait
<1>2. batch' \subseteq [fd : Fds \cup {Listen}, exact : BOOLEAN]
  <2> SUFFICES ASSUME NEW e \in batch'
               PROVE  e \in [fd : Fds \cup {Listen}, exact : BOOLEAN]
    OBVIOUS
  <2>1. PICK f \in ready : e = [fd |-> f, exact |-> f = Listen \/ fin[Owner(f)] # "reset"]
    BY DEF EpollWait
  <2>2. f \in Fds \cup {Listen}
    BY <2>1 DEF TypeOK
  <2>3. (f = Listen \/ fin[Owner(f)] # "reset") \in BOOLEAN
    OBVIOUS
  <2> QED BY <2>1, <2>2, <2>3
<1>3. TypeOK'
  BY <1>2 DEF EpollWait, TypeOK, client, pool, Pool!TypeOK
<1>4. SlotsCounted' /\ Programmed'
  BY DEF EpollWait, SlotsCounted, Programmed, AtStep, Used, pool, Pool!Pending
<1>5. Watched'
  BY <1>1 DEF EpollWait, Watched, client
<1>6. Waiting'
  BY <1>1 DEF EpollWait, Waiting, Readable, client
<1> QED BY <1>3, <1>4, <1>5, <1>6

LEMMA StepDone ==
  ASSUME PathInv, BatchDone \/ SkipEvent
  PROVE  PathInv'
<1> USE DEF PathInv
<1>1. batch' \subseteq batch
  BY DEF BatchDone, SkipEvent
<1>2. TypeOK'
  BY <1>1 DEF BatchDone, SkipEvent, TypeOK, client, pool, Pool!TypeOK
<1>3. SlotsCounted' /\ Programmed'
  BY DEF BatchDone, SkipEvent, SlotsCounted, Programmed, AtStep, Used, pool, Pool!Pending
<1>4. Watched' /\ Waiting'
  BY <1>1 DEF BatchDone, SkipEvent, Watched, Waiting, client
<1> QED BY <1>2, <1>3, <1>4

LEMMA StepAccept ==
  ASSUME PathInv, AcceptClient
  PROVE  PathInv'
<1> USE DEF PathInv
<1> DEFINE free == {f \in Fds : Owner(f) = Nobody}
<1>1. PICK e \in batch : e.fd = Listen /\ batch' = batch \ {e}
  BY DEF AcceptClient
<1>2. backlog # <<>> /\ \A d \in batch' : d.fd # Listen
  BY <1>1 DEF Waiting, Watched
<1>3. ep_num' = ep_num + 1 /\ ep_num' \in 0 .. EpollMax
  BY RequestAssumption DEF AcceptClient, Room, Counted, TypeOK
<1>4. CASE UNCHANGED <<client, registered>>
  <2>1. UNCHANGED <<client, registered>>
    BY <1>4
  <2>2. TypeOK'
    BY <1>1, <1>3, <2>1 DEF AcceptClient, TypeOK, client, pool, Pool!TypeOK
  <2>3. SlotsCounted'
    <3>1. IsFiniteSet(registered) /\ Cardinality(registered) \in Nat
      BY WatchedIsFinite
    <3> QED BY <1>3, <2>1, <3>1 DEF SlotsCounted, TypeOK
  <2>4. Programmed'
    BY <1>1, <2>1 DEF AcceptClient, Programmed, AtStep, Used, pool, Pool!Pending
  <2>5. Watched' /\ Waiting'
    BY <1>1, <1>2, <2>1 DEF AcceptClient, Watched, Waiting, client
  <2> QED BY <2>2, <2>3, <2>4, <2>5
<1>5. CASE ~UNCHANGED <<client, registered>>
  <2> DEFINE c == Head(backlog)
  <2>1. PICK f \in free :
          /\ conn' = [conn EXCEPT ![c] = "open"]
          /\ fd' = [fd EXCEPT ![c] = f]
          /\ backlog' = Tail(backlog)
          /\ registered' \in {registered \cup {f}, registered}
          /\ UNCHANGED <<wire, fin, asked, waits>>
    BY <1>5 DEF AcceptClient
  <2>2. f \in Fds /\ \A d \in Clients : fd[d] # f
    BY OwnerIs
  <2>3. c \in Clients /\ Tail(backlog) \in Seq(Clients) /\ Len(Tail(backlog)) = Len(backlog) - 1
        /\ \A i \in 1 .. Len(Tail(backlog)) : Tail(backlog)[i] = backlog[i + 1]
    BY <1>2, HeadTailProperties DEF TypeOK
  <2>4. /\ conn' = [conn EXCEPT ![c] = "open"]
        /\ fd' = [fd EXCEPT ![c] = f]
        /\ backlog' = Tail(backlog)
        /\ registered' \in {registered \cup {f}, registered}
        /\ UNCHANGED <<wire, fin, asked, waits, ready, mpc, cur, sel, buf, pool, job, robbed>>
    BY <2>1 DEF AcceptClient
  <2>5. Len(backlog) \in Nat \ {0} /\ c = backlog[1]
    BY <1>2 DEF TypeOK
  <2>6. conn[c] = "backlog" /\ fd[c] = NoFd /\ \A i \in 2 .. Len(backlog) : backlog[i] # c
    BY <2>3, <2>5 DEF Waiting
  <2>7. TypeOK'
    BY <1>1, <1>3, <2>2, <2>3, <2>4 DEF TypeOK, pool, Pool!TypeOK
  <2>8. SlotsCounted'
    <3>1. IsFiniteSet(registered) /\ Cardinality(registered) \in Nat
      BY WatchedIsFinite
    <3>2. Cardinality(registered \cup {f})
            \in {Cardinality(registered), Cardinality(registered) + 1}
      BY <3>1, FS_AddElement
    <3>3. ep_num \in Nat /\ Cardinality(registered) <= ep_num
      BY DEF TypeOK, SlotsCounted
    <3>4. CASE registered' = registered
      BY <1>3, <3>1, <3>3, <3>4 DEF SlotsCounted
    <3>5. CASE registered' = registered \cup {f}
      <4>1. Cardinality(registered \cup {f}) <= ep_num'
        BY <1>3, <3>1, <3>2, <3>3
      <4> QED BY <3>5, <4>1 DEF SlotsCounted
    <3> QED BY <2>4, <3>4, <3>5
  <2>9. Programmed'
    BY <2>4 DEF Programmed, AtStep, Used, pool, Pool!Pending
  <2>10. Watched'
    <3>1. fd'[c] = f /\ \A d \in Clients \ {c} : fd'[d] = fd[d]
      BY <2>3, <2>4 DEF TypeOK
    <3>2. ready' \subseteq registered' \cup {Listen}
      BY <2>4 DEF Watched
    <3>3. \A d \in batch' : d.fd \in registered' \cup {Listen}
      BY <1>1, <2>4 DEF Watched
    <3>4. \A g \in registered' : \E d \in Clients : fd'[d] = g
      <4>1. \A g \in registered : \E d \in Clients \ {c} : fd[d] = g
        BY <2>6 DEF Watched, TypeOK, Fds, NoFd
      <4> QED BY <2>3, <2>4, <3>1, <4>1
    <3>5. \A d1, d2 \in Clients : fd'[d1] = fd'[d2] /\ fd'[d1] # NoFd => d1 = d2
      BY <2>2, <3>1 DEF Watched
    <3> QED BY <1>1, <2>4, <3>2, <3>3, <3>4, <3>5 DEF Watched, AcceptClient
  <2>11. Waiting'
    <3>1. conn'[c] = "open" /\ \A d \in Clients \ {c} : conn'[d] = conn[d]
      BY <2>3, <2>4 DEF TypeOK
    <3>2. \A i \in 1 .. Len(backlog') : /\ i + 1 \in 2 .. Len(backlog)
                                        /\ backlog'[i] = backlog[i + 1]
                                        /\ backlog[i + 1] \in Clients
      BY <2>3, <2>4, <2>5 DEF TypeOK
    <3>3. \A i \in 1 .. Len(backlog') : conn'[backlog'[i]] = "backlog"
      BY <2>5, <2>6, <3>1, <3>2 DEF Waiting
    <3>4. \A i, j \in 1 .. Len(backlog') : backlog'[i] = backlog'[j] => i = j
      <4> SUFFICES ASSUME NEW i \in 1 .. Len(backlog'), NEW j \in 1 .. Len(backlog'),
                          backlog'[i] = backlog'[j]
                   PROVE  i = j
        OBVIOUS
      <4>1. i + 1 \in 1 .. Len(backlog) /\ j + 1 \in 1 .. Len(backlog)
        BY <2>5, <3>2
      <4>2. i + 1 = j + 1
        BY <3>2, <4>1 DEF Waiting
      <4> QED BY <4>2
    <3>5. \A d \in Clients : conn'[d] # "open" => fd'[d] = NoFd
      BY <2>3, <2>4, <3>1 DEF Waiting, TypeOK
    <3> QED BY <1>2, <3>3, <3>4, <3>5 DEF Waiting
  <2> QED BY <2>7, <2>8, <2>9, <2>10, <2>11
<1> QED BY <1>4, <1>5

LEMMA StepReadEvent ==
  ASSUME PathInv, ReadEvent
  PROVE  PathInv'
<1> USE DEF PathInv
<1>1. PICK e \in batch : e.fd # Listen /\ batch' = batch \ {e} /\ cur' = e.fd
  BY DEF ReadEvent
<1>2. cur' \in Fds /\ cur' \in registered
  BY <1>1 DEF TypeOK, Watched
<1>3. \A t \in Tasks : job'[t] = job[t] \/ job'[t] = [job[t] EXCEPT !.clean = FALSE]
  BY DEF ReadEvent, Disturb
<1>4. \A t \in Tasks : job'[t].kind = job[t].kind /\ job'[t].step = job[t].step
  BY <1>3 DEF TypeOK
<1>5. TypeOK'
  <2>1. job' \in [Tasks -> Jobs]
    <3>1. job' = [t \in Tasks |-> IF t \in Used THEN [job[t] EXCEPT !.clean = FALSE] ELSE job[t]]
      BY DEF ReadEvent, Disturb
    <3>2. \A t \in Tasks : job[t] \in Jobs
      BY DEF TypeOK, Jobs
    <3>3. \A j \in Jobs : [j EXCEPT !.clean = FALSE] \in Jobs
      BY DEF Jobs
    <3> HIDE DEF PathInv
    <3> QED BY <3>1, <3>2, <3>3
  <2>2. buf' \in Bufs
    BY DEF ReadEvent, Zero, Bufs
  <2>3. UNCHANGED <<client, registered, ready, sel, ep_num, pool, robbed>> /\ mpc' = "read"
    BY DEF ReadEvent
  <2> QED BY <1>1, <1>2, <2>1, <2>2, <2>3 DEF TypeOK, Jobs, Bufs, client, pool, Pool!TypeOK
<1>6. SlotsCounted'
  BY DEF ReadEvent, SlotsCounted
<1>7. Programmed'
  <2>1. Used' = Used /\ running' = running /\ pending' = pending /\ Used \subseteq Tasks
    BY DEF ReadEvent, Used, pool, Pool!Pending, TypeOK, Pool!TypeOK
  <2> QED BY <1>4, <2>1 DEF ReadEvent, Programmed, AtStep
<1>8. Watched' /\ Waiting'
  BY <1>1, <1>2 DEF ReadEvent, Watched, Waiting, client
<1> QED BY <1>5, <1>6, <1>7, <1>8

(* While main is in read the descriptor has an owner.                      *)
LEMMA ReadOwner ==
  ASSUME PathInv, mpc = "read"
  PROVE  Owner(cur) \in Clients /\ fd[Owner(cur)] = cur /\ cur \in Fds
<1>1. cur \in Fds /\ \E c \in Clients : fd[c] = cur
  BY DEF PathInv, Watched, TypeOK
<1> QED BY <1>1, OwnerIs

LEMMA StepReadRequest ==
  ASSUME PathInv, ReadRequest
  PROVE  PathInv'
<1> USE DEF PathInv
<1> DEFINE c == Owner(cur)
<1>1. mpc = "read" /\ mpc' = "switch" /\ c \in Clients
  BY ReadOwner DEF ReadRequest
<1> HIDE DEF c
<1>2. wire[c] # <<>> /\ wire' = [wire EXCEPT ![c] = Tail(@)]
      /\ buf' = [Zero EXCEPT !.kind = Head(wire[c])]
  BY DEF ReadRequest, c
<1>3. PICK k \in Kinds \cup {"ack"} : wire[c] = <<k>>
  BY <1>1, <1>2 DEF TypeOK
<1>4. Tail(wire[c]) = <<>> /\ Head(wire[c]) = k
  BY <1>3
<1>5. k \in {"ack"} \cup AllKinds
  BY RequestAssumption
<1>6. TypeOK'
  <2>1. wire' \in [Clients -> Wires]
    BY <1>1, <1>2, <1>4 DEF TypeOK, Wires
  <2>2. buf' \in Bufs
    BY <1>2, <1>4, <1>5 DEF Zero, Bufs
  <2> QED BY <1>1, <2>1, <2>2 DEF ReadRequest, TypeOK, Wires, Bufs, pool, Pool!TypeOK
<1>7. SlotsCounted' /\ Programmed'
  BY DEF ReadRequest, SlotsCounted, Programmed, AtStep, Used, pool, Pool!Pending
<1>8. Watched' /\ Waiting'
  BY <1>1 DEF ReadRequest, Watched, Waiting
<1> QED BY <1>6, <1>7, <1>8

LEMMA StepReadEnd ==
  ASSUME PathInv, ReadEnd
  PROVE  PathInv'
<1> USE DEF PathInv
<1> DEFINE c == Owner(cur)
<1>1. mpc = "read" /\ mpc' = "next" /\ c \in Clients /\ fd[c] = cur /\ cur \in Fds
      /\ cur \in registered
  BY ReadOwner DEF ReadEnd, Watched
<1> HIDE DEF c
<1>2. /\ conn' = [conn EXCEPT ![c] = "closed"]
      /\ fd' = [fd EXCEPT ![c] = NoFd]
      /\ fin' = [fin EXCEPT ![c] = "no"]
      /\ asked' = [asked EXCEPT ![c] = 0]
      /\ waits' = [waits EXCEPT ![c] = FALSE]
      /\ wire[c] = <<>> /\ Gone(c)
  BY DEF ReadEnd, c
<1>3. fd'[c] = NoFd /\ \A d \in Clients \ {c} : fd'[d] = fd[d]
  BY <1>1, <1>2 DEF TypeOK
<1>4. /\ Cardinality(registered') \in Nat /\ Cardinality(registered) \in Nat
      /\ Cardinality(registered') = Cardinality(registered) - 1
  <2>1. IsFiniteSet(registered)
    BY WatchedIsFinite
  <2>2. registered' = registered \ {cur}
    BY DEF ReadEnd
  <2>3. IsFiniteSet(registered \ {cur})
        /\ Cardinality(registered \ {cur}) = Cardinality(registered) - 1
    BY <1>1, <2>1, FS_RemoveElement
  <2> QED BY <2>1, <2>2, <2>3, FS_CardinalityType
<1>5. ep_num' \in 0 .. EpollMax /\ SlotsCounted'
  <2>1. ep_num \in Nat /\ ep_num <= EpollMax /\ Cardinality(registered) <= ep_num
    BY RequestAssumption DEF TypeOK, SlotsCounted
  <2>2. ep_num' = ep_num - 1
    BY DEF ReadEnd
  <2> QED BY <1>4, <2>1, <2>2, RequestAssumption DEF SlotsCounted
<1>6. TypeOK'
  <2>1. 0 \in 0 .. Requests
    BY RequestAssumption
  <2>2. /\ conn' \in [Clients -> {"out", "backlog", "open", "closed"}]
        /\ fd' \in [Clients -> Fds \cup {NoFd}]
        /\ fin' \in [Clients -> {"no", "fin", "reset"}]
        /\ asked' \in [Clients -> 0 .. Requests]
        /\ waits' \in [Clients -> BOOLEAN]
    BY <1>1, <1>2, <2>1 DEF TypeOK
  <2>3. registered' \subseteq Fds /\ ready' \subseteq Fds \cup {Listen} /\ cur' \in Fds \cup {NoFd}
    BY DEF ReadEnd, TypeOK
  <2> QED BY <1>1, <1>5, <2>2, <2>3 DEF ReadEnd, TypeOK, pool, Pool!TypeOK
<1>7. Programmed'
  BY <1>1 DEF ReadEnd, Programmed, AtStep, Used, pool, Pool!Pending
<1>8. Watched'
  <2>1. \A f \in registered' : \E d \in Clients : fd'[d] = f
    BY <1>1, <1>3 DEF ReadEnd, Watched
  <2>2. \A e \in batch : e.fd \in registered' \cup {Listen}
    BY <1>1 DEF ReadEnd, Watched
  <2>3. ready' \subseteq registered' \cup {Listen}
    BY DEF ReadEnd, Watched
  <2>4. \A d1, d2 \in Clients : fd'[d1] = fd'[d2] /\ fd'[d1] # NoFd => d1 = d2
    BY <1>3 DEF Watched
  <2> QED BY <1>1, <2>1, <2>2, <2>3, <2>4 DEF ReadEnd, Watched
<1>9. Waiting'
  <2>1. conn'[c] = "closed" /\ \A d \in Clients \ {c} : conn'[d] = conn[d]
    BY <1>1, <1>2 DEF TypeOK
  <2>2. fd[c] # NoFd
    BY <1>1 DEF Fds, NoFd
  <2>3. \A i \in 1 .. Len(backlog) : backlog[i] \in Clients \ {c}
    BY <1>1, <2>2 DEF Waiting, TypeOK
  <2> QED BY <1>3, <2>1, <2>3 DEF ReadEnd, Waiting
<1> QED BY <1>5, <1>6, <1>7, <1>8, <1>9

LEMMA StepHandle ==
  ASSUME PathInv, HandleRequest \/ HandleDefault
  PROVE  PathInv'
<1> USE DEF PathInv
<1>1. CASE HandleRequest
  <2>1. buf' \in Bufs
    BY <1>1 DEF HandleRequest, StoreFd, Layout, TypeOK, Bufs
  <2>2. TypeOK'
    BY <1>1, <2>1 DEF HandleRequest, TypeOK, Bufs, client, pool, Pool!TypeOK
  <2>3. SlotsCounted' /\ Programmed'
    BY <1>1 DEF HandleRequest, SlotsCounted, Programmed, AtStep, Used, pool, Pool!Pending
  <2>4. Watched' /\ Waiting'
    BY <1>1 DEF HandleRequest, Watched, Waiting, client
  <2> QED BY <2>2, <2>3, <2>4
<1>2. CASE HandleDefault
  <2>1. TypeOK'
    BY <1>2 DEF HandleDefault, TypeOK, client, pool, Pool!TypeOK
  <2>2. SlotsCounted' /\ Programmed'
    BY <1>2 DEF HandleDefault, SlotsCounted, Programmed, AtStep, Used, pool, Pool!Pending
  <2>3. Watched' /\ Waiting'
    BY <1>2 DEF HandleDefault, Watched, Waiting, client
  <2> QED BY <2>1, <2>2, <2>3
<1> QED BY <1>1, <1>2

-----------------------------------------------------------------------------
(* The pool.                                                               *)

LEMMA UsedTasks ==
  ASSUME TypeOK
  PROVE  Used \subseteq Tasks /\ running \subseteq Used
BY PoolTypes DEF TypeOK, Used, Pool!Pending

LEMMA AcceptPool ==
  ASSUME PathInv, NEW t \in Tasks, Pool!Accept(t)
  PROVE  /\ Pool!TypeOK' /\ Used' = Used \cup {t} /\ running' = running
         /\ \A i, j \in 1 .. Len(pending') : pending'[i] = pending'[j] => i = j
         /\ \A i \in 1 .. Len(pending') : pending'[i] \notin running'
<1>1. /\ pending \in Seq(Tasks) /\ Len(pending) \in Nat /\ Len(pending) <= QueueMax
      /\ running \in SUBSET Tasks /\ Cardinality(running) <= ThreadMax
  BY PoolTypes DEF PathInv, TypeOK
<1>2. /\ t \notin Pool!Pending /\ t \notin running /\ Len(pending) < QueueMax
      /\ pending' = Append(pending, t) /\ running' = running
  BY DEF Pool!Accept
<1>3. /\ pending' \in Seq(Tasks)
      /\ Len(pending') = Len(pending) + 1
      /\ \A i \in 1 .. Len(pending) : pending'[i] = pending[i]
      /\ pending'[Len(pending) + 1] = t
  BY <1>1, <1>2, AppendProperties
<1>4. \A i \in 1 .. Len(pending) : pending[i] # t
  BY <1>1, <1>2 DEF Pool!Pending
<1>5. \A i \in 1 .. Len(pending') : i \in 1 .. Len(pending) \/ i = Len(pending) + 1
  BY <1>1, <1>3
<1>6. Pool!TypeOK'
  <2>1. Len(pending') <= QueueMax
    BY <1>1, <1>2, <1>3, RequestAssumption
  <2> QED BY <1>1, <1>2, <1>3, <2>1, PoolCardinality DEF Pool!TypeOK
<1>7. Used' = Used \cup {t}
  <2>1. DOMAIN pending = 1 .. Len(pending) /\ DOMAIN pending' = 1 .. (Len(pending) + 1)
    BY <1>1, <1>3
  <2>2. Pool!Pending' = Pool!Pending \cup {t}
    BY <1>1, <1>3, <1>5, <2>1 DEF Pool!Pending
  <2> QED BY <1>2, <2>2 DEF Used
<1> QED BY <1>1, <1>2, <1>3, <1>4, <1>5, <1>6, <1>7 DEF PathInv, Programmed

LEMMA StartPool ==
  ASSUME PathInv, Pool!Start
  PROVE  /\ Pool!TypeOK' /\ Used' \subseteq Used /\ IsFiniteSet(running')
         /\ \A i, j \in 1 .. Len(pending') : pending'[i] = pending'[j] => i = j
         /\ \A i \in 1 .. Len(pending') : pending'[i] \notin running'
<1>1. /\ pending \in Seq(Tasks) /\ Len(pending) \in Nat /\ Len(pending) <= QueueMax
      /\ running \in SUBSET Tasks /\ IsFiniteSet(running) /\ Cardinality(running) \in Nat
  BY PoolTypes, FS_CardinalityType DEF PathInv, TypeOK, Programmed
<1> DEFINE t == Head(pending)
<1>2. /\ pending # <<>> /\ Cardinality(running) < ThreadMax
      /\ running' = running \cup {t} /\ pending' = Tail(pending)
  BY PoolCardinality DEF Pool!Start
<1>3. /\ t \in Tasks /\ t = pending[1] /\ 1 \in 1 .. Len(pending)
      /\ pending' \in Seq(Tasks)
      /\ Len(pending') = Len(pending) - 1
      /\ \A i \in 1 .. Len(pending') : pending'[i] = pending[i + 1]
  BY <1>1, <1>2, HeadTailProperties
<1> HIDE DEF t
<1>4. \A i \in 1 .. Len(pending') : i + 1 \in 2 .. Len(pending) /\ i + 1 \in 1 .. Len(pending)
  BY <1>1, <1>3
<1>5. IsFiniteSet(running') /\ Cardinality(running') <= ThreadMax
  <2>1. IsFiniteSet(running \cup {t})
        /\ Cardinality(running \cup {t}) \in {Cardinality(running), Cardinality(running) + 1}
    BY <1>1, FS_AddElement
  <2> QED BY <1>1, <1>2, <2>1, RequestAssumption
<1>6. Pool!TypeOK'
  <2>1. Len(pending') <= QueueMax
    BY <1>1, <1>3, RequestAssumption
  <2> QED BY <1>1, <1>2, <1>3, <1>5, <2>1, PoolCardinality DEF Pool!TypeOK
<1>7. Used' \subseteq Used
  <2>1. DOMAIN pending = 1 .. Len(pending) /\ DOMAIN pending' = 1 .. Len(pending')
    BY <1>1, <1>3
  <2>2. Pool!Pending' \subseteq Pool!Pending /\ t \in Pool!Pending
    BY <1>3, <1>4, <2>1 DEF Pool!Pending
  <2> QED BY <1>2, <2>2 DEF Used
<1>8. \A i, j \in 1 .. Len(pending') : pending'[i] = pending'[j] => i = j
  <2> SUFFICES ASSUME NEW i \in 1 .. Len(pending'), NEW j \in 1 .. Len(pending'),
                      pending'[i] = pending'[j]
               PROVE  i = j
    OBVIOUS
  <2>1. i + 1 = j + 1
    BY <1>3, <1>4 DEF PathInv, Programmed
  <2> QED BY <2>1
<1>9. \A i \in 1 .. Len(pending') : pending'[i] \notin running'
  BY <1>1, <1>2, <1>3, <1>4 DEF PathInv, Programmed
<1> QED BY <1>5, <1>6, <1>7, <1>8, <1>9

LEMMA EndPool ==
  ASSUME PathInv, NEW t, Pool!End(t)
  PROVE  /\ t \in Tasks
         /\ Pool!TypeOK' /\ Used' = Used \ {t} /\ IsFiniteSet(running')
         /\ \A i, j \in 1 .. Len(pending') : pending'[i] = pending'[j] => i = j
         /\ \A i \in 1 .. Len(pending') : pending'[i] \notin running'
<1>1. /\ pending \in Seq(Tasks) /\ Len(pending) \in Nat /\ Len(pending) <= QueueMax
      /\ running \in SUBSET Tasks /\ IsFiniteSet(running) /\ Cardinality(running) \in Nat
      /\ Cardinality(running) <= ThreadMax
  BY PoolTypes, FS_CardinalityType DEF PathInv, TypeOK, Programmed
<1>2. t \in running /\ running' = running \ {t} /\ pending' = pending
  BY DEF Pool!End
<1>3. IsFiniteSet(running') /\ Cardinality(running') <= ThreadMax
  <2>1. IsFiniteSet(running \ {t}) /\ Cardinality(running \ {t}) = Cardinality(running) - 1
    BY <1>1, <1>2, FS_RemoveElement
  <2> QED BY <1>1, <1>2, <2>1, RequestAssumption
<1>4. Pool!TypeOK'
  BY <1>1, <1>2, <1>3, PoolCardinality DEF Pool!TypeOK
<1>5. Pool!Pending' = Pool!Pending /\ t \notin Pool!Pending
  BY <1>1, <1>2 DEF Pool!Pending, PathInv, Programmed
<1>6. Used' = Used \ {t}
  BY <1>2, <1>5 DEF Used
<1> QED BY <1>1, <1>2, <1>3, <1>4, <1>6 DEF PathInv, Programmed

LEMMA NewJob ==
  ASSUME NEW k \in AllKinds, NEW c \in Clients \cup {Nobody}, NEW b \in BOOLEAN
  PROVE  [NoJob EXCEPT !.kind = k, !.by = c, !.clean = b] \in Jobs
<1>1. NoJob \in Jobs
  BY DEF Jobs, NoJob
<1> QED BY <1>1 DEF Jobs

LEMMA StepAddTask ==
  ASSUME PathInv, AddTask
  PROVE  PathInv'
<1>1. PICK t \in Tasks :
        /\ t \notin Used
        /\ Pool!Accept(t)
        /\ job' = [job EXCEPT ![t] = [NoJob EXCEPT !.kind = sel, !.by = Owner(cur),
                                                   !.clean = buf.kind = sel]]
  BY DEF AddTask
<1>2. mpc = "add" /\ sel \in AllKinds /\ cur \in Fds /\ cur \in registered
  BY DEF AddTask, PathInv, Programmed, Watched, TypeOK
<1>3. Owner(cur) \in Clients \cup {Nobody}
  BY <1>2, OwnerIs
<1>4. /\ mpc' = "next" /\ cur' = NoFd /\ sel' = "none"
      /\ UNCHANGED <<client, registered, ready, batch, ep_num, buf, robbed>>
  BY DEF AddTask, Added
<1>5. Pool!TypeOK' /\ Used' = Used \cup {t} /\ running' = running
  BY <1>1, AcceptPool
<1>6. job'[t] = [NoJob EXCEPT !.kind = sel, !.by = Owner(cur), !.clean = buf.kind = sel]
      /\ \A u \in Tasks \ {t} : job'[u] = job[u]
  BY <1>1 DEF PathInv, TypeOK
<1>7. job' \in [Tasks -> Jobs]
  <2>1. [NoJob EXCEPT !.kind = sel, !.by = Owner(cur), !.clean = buf.kind = sel] \in Jobs
    <3>1. (buf.kind = sel) \in BOOLEAN
      OBVIOUS
    <3> QED BY <1>2, <1>3, <3>1, NewJob
  <2>2. job \in [Tasks -> Jobs]
    BY DEF PathInv, TypeOK, Jobs
  <2> QED BY <1>1, <2>1, <2>2
<1>8. TypeOK'
  BY <1>4, <1>5, <1>7 DEF PathInv, TypeOK, Jobs, client
<1>9. SlotsCounted' /\ Watched' /\ Waiting'
  BY <1>4 DEF PathInv, SlotsCounted, Watched, Waiting, client
<1>10. Programmed'
  <2>1. Len(Program[sel]) \in 1 .. 7
    BY <1>2, ProgramLen
  <2>2. job'[t].kind = sel /\ job'[t].step = 1
    BY <1>6 DEF NoJob
  <2>3. AtStep(t)'
    <3>1. 1 <= Len(Program[sel])
      BY <2>1
    <3>2. job'[t].kind \in AllKinds /\ job'[t].step <= Len(Program[job'[t].kind])
      BY <1>2, <2>2, <3>1
    <3> QED BY <3>2 DEF AtStep
  <2>4. \A u \in Used \ {t} : u \in Tasks /\ AtStep(u) /\ job'[u] = job[u]
    BY <1>6, UsedTasks DEF PathInv, Programmed
  <2>5. \A u \in Used \ {t} : AtStep(u)'
    BY <2>4 DEF AtStep
  <2>6. \A u \in Used' : AtStep(u)'
    BY <1>5, <2>3, <2>5
  <2> QED BY <1>1, <1>4, <2>6, AcceptPool DEF PathInv, Programmed
<1> QED BY <1>8, <1>9, <1>10 DEF PathInv

-----------------------------------------------------------------------------
(* The handlers.                                                           *)

LEMMA StepStart ==
  ASSUME PathInv, StartTask
  PROVE  PathInv'
<1>1. /\ Pool!Start
      /\ UNCHANGED <<client, registered, ready, main, buf, job, robbed>>
  BY DEF StartTask
<1>2. TypeOK'
  BY <1>1, StartPool DEF PathInv, TypeOK, client, main
<1>3. SlotsCounted' /\ Watched' /\ Waiting'
  BY <1>1 DEF PathInv, SlotsCounted, Watched, Waiting, client, main
<1>4. Programmed'
  <2>1. \A u \in Used' : AtStep(u)'
    BY <1>1, StartPool DEF PathInv, Programmed, AtStep
  <2> QED BY <1>1, <2>1, StartPool DEF PathInv, Programmed, main
<1> QED BY <1>2, <1>3, <1>4 DEF PathInv

(* What a handler leaves to the rest of the model.                         *)
HandlerKept ==
  /\ UNCHANGED <<conn, fd, asked, backlog, registered, main>>
  /\ wire' \in [Clients -> Wires]
  /\ fin' \in [Clients -> {"no", "fin", "reset"}]
  /\ waits' \in [Clients -> BOOLEAN]
  /\ ready' \subseteq ready \cup registered
  /\ buf' \in Bufs
  /\ robbed' \subseteq Fds
  /\ Pool!TypeOK'
  /\ job' \in [Tasks -> Jobs]
  /\ Programmed'

LEMMA KeptPath ==
  ASSUME PathInv, HandlerKept
  PROVE  PathInv'
<1>1. TypeOK'
  <2>1. ready' \subseteq Fds \cup {Listen}
    BY DEF PathInv, TypeOK, HandlerKept
  <2> QED BY <2>1 DEF PathInv, TypeOK, HandlerKept, main, Wires, Jobs, Bufs
<1>2. SlotsCounted'
  BY DEF PathInv, HandlerKept, SlotsCounted, main
<1>3. Watched' /\ Waiting'
  BY DEF PathInv, HandlerKept, Watched, Waiting, main
<1> QED BY <1>1, <1>2, <1>3 DEF PathInv, HandlerKept

(* The parts that a handler may leave as they are.                         *)
LEMMA PathTypes ==
  ASSUME PathInv
  PROVE  /\ wire \in [Clients -> Wires]
         /\ fin \in [Clients -> {"no", "fin", "reset"}]
         /\ waits \in [Clients -> BOOLEAN]
         /\ buf \in Bufs /\ robbed \subseteq Fds
         /\ job \in [Tasks -> Jobs]
         /\ Pool!TypeOK
BY DEF PathInv, TypeOK, Wires, Jobs, Bufs

LEMMA SameProgram ==
  ASSUME PathInv, UNCHANGED pool, mpc' = mpc, sel' = sel,
         \A u \in Used : AtStep(u)'
  PROVE  Programmed' /\ Pool!TypeOK'
<1>1. pending' = pending /\ running' = running
  BY DEF pool
<1>2. Used' = Used
  BY <1>1 DEF Used, Pool!Pending
<1> QED BY <1>1, <1>2 DEF PathInv, Programmed, TypeOK, Pool!TypeOK

LEMMA EndProgram ==
  ASSUME PathInv, NEW t, Pool!End(t), mpc' = mpc, sel' = sel,
         \A u \in Used \ {t} : AtStep(u)'
  PROVE  Programmed' /\ Pool!TypeOK'
BY EndPool DEF PathInv, Programmed

LEMMA AdvanceProgram ==
  ASSUME PathInv, NEW t \in running, NEW n \in {1, 2}, Advance(t, n),
         mpc' = mpc, sel' = sel
  PROVE  Programmed' /\ Pool!TypeOK' /\ job' \in [Tasks -> Jobs]
<1>1. t \in Tasks /\ t \in Used /\ Used \subseteq Tasks
  BY UsedTasks DEF PathInv
<1>2. AtStep(t) /\ \A u \in Used : AtStep(u)
  BY <1>1 DEF PathInv, Programmed
<1>3. job \in [Tasks -> Jobs]
  BY PathTypes
<1> DEFINE len == Len(Program[job[t].kind])
<1>4. len \in 1 .. 7 /\ job[t].step \in 1 .. 7
  BY <1>1, <1>2, <1>3, ProgramLen DEF AtStep, Jobs
<1>5. CASE job[t].step + n > len
  <2>1. Pool!End(t) /\ job' = [job EXCEPT ![t] = NoJob]
    BY <1>5 DEF Advance
  <2>2. NoJob \in Jobs
    BY DEF NoJob, Jobs
  <2>3. job' \in [Tasks -> Jobs]
    BY <1>1, <1>3, <2>1, <2>2
  <2>4. \A u \in Used \ {t} : job'[u] = job[u]
    BY <1>1, <1>3, <2>1
  <2>5. \A u \in Used \ {t} : AtStep(u)'
    BY <1>2, <2>4 DEF AtStep
  <2> QED BY <2>1, <2>3, <2>5, EndProgram
<1>6. CASE ~(job[t].step + n > len)
  <2>1. job' = [job EXCEPT ![t].step = @ + n] /\ UNCHANGED pool
    BY <1>6 DEF Advance
  <2>2. job[t].step + n <= len /\ job[t].step + n \in 1 .. 7
    <3> DEFINE i == job[t].step
    <3>1. len \in 1 .. 7 /\ i \in 1 .. 7 /\ n \in 1 .. 2 /\ ~(i + n > len)
      BY <1>4, <1>6
    <3> HIDE DEF i, len
    <3>2. i + n <= len /\ i + n \in 1 .. 7
      BY <3>1
    <3> QED BY <3>2 DEF i
  <2>3. job[t] \in Jobs
    BY <1>1, <1>3
  <2>4. job' = [job EXCEPT ![t] = [job[t] EXCEPT !.step = job[t].step + n]]
    BY <2>1
  <2>5. [job[t] EXCEPT !.step = job[t].step + n] \in Jobs
    BY <2>2, <2>3 DEF Jobs
  <2>6. job' \in [Tasks -> Jobs]
    BY <1>3, <2>4, <2>5
  <2>7. job'[t].kind = job[t].kind /\ job'[t].step = job[t].step + n
    BY <1>1, <1>3, <2>3, <2>4 DEF Jobs
  <2>8. \A u \in Used \ {t} : job'[u] = job[u]
    BY <1>1, <1>3, <2>4
  <2>9. AtStep(t)'
    <3>1. job[t].kind \in AllKinds /\ job'[t].kind = job[t].kind
      BY <1>2, <2>7 DEF AtStep
    <3>2. job'[t].step <= Len(Program[job'[t].kind])
      BY <2>2, <2>7
    <3> QED BY <3>1, <3>2 DEF AtStep
  <2>10. \A u \in Used \ {t} : AtStep(u)'
    BY <1>2, <2>8 DEF AtStep
  <2> QED BY <2>1, <2>6, <2>9, <2>10, SameProgram
<1> QED BY <1>5, <1>6

LEMMA AnswerKept ==
  ASSUME PathInv, NEW t, NEW f, Answer(t, f)
  PROVE  /\ UNCHANGED <<conn, fd, asked, backlog>>
         /\ wire' \in [Clients -> Wires]
         /\ fin' \in [Clients -> {"no", "fin", "reset"}]
         /\ waits' \in [Clients -> BOOLEAN]
         /\ ready' \subseteq ready \cup registered
<1> DEFINE c == Owner(f)
<1>1. c \in Clients \/ c = Nobody
  BY DEF Owner
<1> HIDE DEF c
<1>2. UNCHANGED <<conn, fd, asked, backlog>>
  BY DEF Answer
<1>3. UNCHANGED <<wire, fin, waits, ready>>
      \/ /\ waits' = [waits EXCEPT ![c] = @ /\ ~LastSend(t)]
         /\ wire' \in {[wire EXCEPT ![c] = <<"ack">>], wire}
         /\ UNCHANGED ready \/ Edge(c)
         /\ UNCHANGED fin
      \/ /\ fin' = [fin EXCEPT ![c] = "reset"]
         /\ wire' = [wire EXCEPT ![c] = <<>>]
         /\ Edge(c)
         /\ UNCHANGED waits
  BY Zenon DEF Answer, c
<1>4. /\ wire \in [Clients -> Wires] /\ fin \in [Clients -> {"no", "fin", "reset"}]
      /\ waits \in [Clients -> BOOLEAN] /\ <<>> \in Wires /\ <<"ack">> \in Wires
  BY PathTypes DEF Wires
<1>5. wire' \in [Clients -> Wires]
  BY <1>3, <1>4
<1>6. fin' \in [Clients -> {"no", "fin", "reset"}]
  BY <1>3, <1>4
<1>7. waits' \in [Clients -> BOOLEAN]
  <2> DEFINE b == ~LastSend(t)
  <2>1. \A d \in Clients : (waits[d] /\ b) \in BOOLEAN
    OBVIOUS
  <2>2. waits' = waits \/ waits' = [waits EXCEPT ![c] = waits[c] /\ b]
    BY <1>3
  <2> HIDE DEF b
  <2> QED BY <1>4, <2>1, <2>2
<1>8. ready' \subseteq ready \cup registered
  BY <1>3 DEF Edge
<1> QED BY <1>2, <1>5, <1>6, <1>7, <1>8

LEMMA JobFields ==
  ASSUME NEW j \in Jobs, NEW f \in Fds \cup {NoFd}, NEW n \in 1 .. 7
  PROVE  /\ [j EXCEPT !.step = n, !.fd = f] \in Jobs
         /\ [j EXCEPT !.step = n] \in Jobs
         /\ [j EXCEPT !.clean = FALSE] \in Jobs
BY DEF Jobs

LEMMA StepCopy ==
  ASSUME PathInv, NEW t \in Tasks, Copy(t)
  PROVE  PathInv'
<1>1. /\ t \in running /\ Program[job[t].kind][job[t].step] = "copy"
      /\ job' = [job EXCEPT ![t].step = 2, ![t].fd = Seen(job[t].kind)]
      /\ UNCHANGED <<client, registered, ready, main, buf, pool, robbed>>
  BY DEF Copy, At
<1>2. t \in Used /\ Used \subseteq Tasks /\ AtStep(t) /\ \A u \in Used : AtStep(u)
  BY <1>1, UsedTasks DEF PathInv, Programmed
<1>3. job[t] \in Jobs /\ job \in [Tasks -> Jobs] /\ buf \in Bufs
  BY PathTypes
<1> DEFINE f == Seen(job[t].kind)
<1>4. f \in Fds \cup {NoFd}
  BY <1>3 DEF Seen, Bufs
<1> HIDE DEF f
<1>5. job' = [job EXCEPT ![t] = [job[t] EXCEPT !.step = 2, !.fd = f]]
  BY <1>1 DEF f
<1>6. [job[t] EXCEPT !.step = 2, !.fd = f] \in Jobs
  <2>1. 2 \in 1 .. 7
    OBVIOUS
  <2> QED BY <1>3, <1>4, <2>1, JobFields
<1>7. job' \in [Tasks -> Jobs]
  BY <1>3, <1>5, <1>6
<1>8. job'[t].kind = job[t].kind /\ job'[t].step = 2 /\ \A u \in Used \ {t} : job'[u] = job[u]
  BY <1>2, <1>3, <1>5 DEF Jobs
<1>9. Len(Program[job[t].kind]) >= 2
  <2>1. job[t].kind \in AllKinds /\ job[t].step \in 1 .. Len(Program[job[t].kind])
    BY <1>2, <1>3, ProgramLen DEF AtStep, Jobs
  <2> QED BY <1>1, <2>1, CopyMarkFirst
<1>10. \A u \in Used : AtStep(u)'
  <2>1. job[t].kind \in AllKinds /\ job'[t].step <= Len(Program[job'[t].kind])
    BY <1>2, <1>8, <1>9, ProgramLen DEF AtStep
  <2>2. AtStep(t)'
    BY <1>8, <2>1 DEF AtStep
  <2>3. \A u \in Used \ {t} : AtStep(u)'
    BY <1>2, <1>8 DEF AtStep
  <2> QED BY <2>2, <2>3
<1>11. Programmed' /\ Pool!TypeOK'
  BY <1>1, <1>10, SameProgram DEF main
<1>12. HandlerKept
  BY <1>1, <1>7, <1>11, PathTypes DEF HandlerKept, client
<1> QED BY <1>12, KeptPath

LEMMA StepSendFile ==
  ASSUME PathInv, NEW t \in Tasks, SendFile(t)
  PROVE  PathInv'
<1>1. t \in running /\ Answer(t, Fd(t)) /\ Advance(t, 1)
      /\ UNCHANGED <<registered, main, buf, robbed>>
  BY DEF SendFile, At
<1>2. HandlerKept
  BY <1>1, AnswerKept, AdvanceProgram, PathTypes DEF HandlerKept, main
<1> QED BY <1>2, KeptPath

LEMMA StepMissing ==
  ASSUME PathInv, NEW t \in Tasks, Missing(t)
  PROVE  PathInv'
<1>1. t \in running /\ Advance(t, 2)
      /\ UNCHANGED <<client, registered, ready, main, buf, robbed>>
  BY DEF Missing, At
<1>2. HandlerKept
  BY <1>1, AdvanceProgram, PathTypes DEF HandlerKept, main, client
<1> QED BY <1>2, KeptPath

LEMMA StepAck ==
  ASSUME PathInv, NEW t \in Tasks, Ack(t)
  PROVE  PathInv'
<1>1. t \in running /\ Advance(t, 1)
      /\ UNCHANGED <<conn, fd, fin, asked, waits, backlog, registered, ready, main, buf>>
  BY DEF Ack, At
<1> DEFINE c == Owner(Seen(job[t].kind))
<1>2. c \in Clients \/ c = Nobody
  BY DEF Owner
<1> HIDE DEF c
<1>3. \/ UNCHANGED <<wire, robbed>>
      \/ /\ c # Nobody
         /\ wire' = [wire EXCEPT ![c] = <<>>]
         /\ robbed' = robbed \cup ({fd[c]} \cap ({cur} \cup {e.fd : e \in batch}))
  BY DEF Ack, c
<1>4. wire \in [Clients -> Wires] /\ <<>> \in Wires /\ robbed \subseteq Fds
  BY PathTypes DEF Wires
<1>5. wire' \in [Clients -> Wires]
  BY <1>2, <1>3, <1>4
<1>6. robbed' \subseteq Fds
  <2>1. c \in Clients => fd[c] \in Fds \cup {NoFd}
    BY DEF PathInv, TypeOK
  <2>2. c # Nobody => fd[c] # NoFd
    BY DEF c, Owner
  <2> QED BY <1>2, <1>3, <1>4, <2>1, <2>2
<1>7. HandlerKept
  BY <1>1, <1>5, <1>6, AdvanceProgram, PathTypes DEF HandlerKept, main
<1> QED BY <1>7, KeptPath

(* A step that disturbs the other tasks; t goes on or ends.                *)
LEMMA OthersKept ==
  ASSUME PathInv, NEW t \in Tasks, NEW j \in Jobs,
         job' = [u \in Tasks |-> CASE u = t -> j
                                 [] u \in Used \ {t} -> [job[u] EXCEPT !.clean = FALSE]
                                 [] OTHER -> job[u]]
  PROVE  /\ job' \in [Tasks -> Jobs] /\ job'[t] = j
         /\ \A u \in Used \ {t} : AtStep(u)'
<1>1. job \in [Tasks -> Jobs] /\ Used \subseteq Tasks /\ \A u \in Used : AtStep(u)
  BY PathTypes, UsedTasks DEF PathInv, Programmed
<1>2. \A i \in Jobs : /\ [i EXCEPT !.clean = FALSE] \in Jobs
                      /\ [i EXCEPT !.clean = FALSE].kind = i.kind
                      /\ [i EXCEPT !.clean = FALSE].step = i.step
  BY DEF Jobs
<1>3. \A u \in Tasks : /\ u = t => job'[u] = j
                       /\ u \in Used \ {t} => job'[u] = [job[u] EXCEPT !.clean = FALSE]
                       /\ u \notin Used /\ u # t => job'[u] = job[u]
  OBVIOUS
<1>4. \A u \in Tasks : job'[u] \in Jobs
  BY <1>1, <1>2, <1>3
<1>5. \A u \in Used \ {t} : job'[u].kind = job[u].kind /\ job'[u].step = job[u].step
  BY <1>1, <1>2, <1>3
<1> QED BY <1>1, <1>3, <1>4, <1>5 DEF AtStep

LEMMA StepMark ==
  ASSUME PathInv, NEW t \in Tasks, Mark(t)
  PROVE  PathInv'
<1>1. /\ t \in running /\ Program[job[t].kind][job[t].step] = "mark"
      /\ buf' = [buf EXCEPT !.kind = job[t].kind]
      /\ job' = [u \in Tasks |-> CASE u = t -> [job[t] EXCEPT !.step = 2]
                                 [] u \in Used \ {t} -> [job[u] EXCEPT !.clean = FALSE]
                                 [] OTHER -> job[u]]
      /\ UNCHANGED <<client, registered, ready, main, pool, robbed>>
  BY DEF Mark, At
<1>2. t \in Used /\ Used \subseteq Tasks /\ AtStep(t)
  BY <1>1, UsedTasks DEF PathInv, Programmed
<1>3. job[t] \in Jobs /\ buf \in Bufs
  BY PathTypes
<1> DEFINE j == [job[t] EXCEPT !.step = 2]
<1>4. j \in Jobs /\ j.kind = job[t].kind /\ j.step = 2
  <2>1. 2 \in 1 .. 7 /\ NoFd \in Fds \cup {NoFd}
    OBVIOUS
  <2> QED BY <1>3, <2>1, JobFields DEF Jobs
<1> HIDE DEF j
<1>5. job' \in [Tasks -> Jobs] /\ job'[t] = j /\ \A u \in Used \ {t} : AtStep(u)'
  <2>1. job' = [u \in Tasks |-> CASE u = t -> j
                                [] u \in Used \ {t} -> [job[u] EXCEPT !.clean = FALSE]
                                [] OTHER -> job[u]]
    BY <1>1 DEF j
  <2> QED BY <1>4, <2>1, OthersKept
<1>6. AtStep(t)'
  <2>1. job[t].kind \in AllKinds /\ job[t].step \in 1 .. Len(Program[job[t].kind])
    BY <1>2, <1>3, ProgramLen DEF AtStep, Jobs
  <2>2. Len(Program[job[t].kind]) >= 2
    BY <1>1, <2>1, CopyMarkFirst
  <2>3. job'[t].kind \in AllKinds /\ job'[t].step <= Len(Program[job'[t].kind])
    BY <1>4, <1>5, <2>1, <2>2, ProgramLen
  <2> QED BY <2>3 DEF AtStep
<1>7. buf' \in Bufs
  BY <1>1, <1>2, <1>3 DEF AtStep, Bufs
<1>8. Programmed' /\ Pool!TypeOK'
  BY <1>1, <1>5, <1>6, SameProgram DEF main
<1>9. HandlerKept
  BY <1>1, <1>5, <1>7, <1>8, PathTypes DEF HandlerKept, client
<1> QED BY <1>9, KeptPath

LEMMA StepGiveUp ==
  ASSUME PathInv, NEW t \in Tasks, GiveUp(t)
  PROVE  PathInv'
<1>1. t \in Used /\ Used \subseteq Tasks /\ \A u \in Used : AtStep(u)
  BY UsedTasks DEF PathInv, Programmed, GiveUp, At
<1>2. Pool!End(t) /\ UNCHANGED <<client, registered, ready, main, robbed>>
  BY DEF GiveUp
<1>3. job \in [Tasks -> Jobs] /\ buf \in Bufs
  BY PathTypes
<1>4. NoJob \in Jobs
  BY DEF NoJob, Jobs
<1>5. /\ job' \in [Tasks -> Jobs]
      /\ \A u \in Used \ {t} : AtStep(u)'
      /\ buf' \in Bufs
  <2>1. CASE job[t].kind = "news"
    <3>1. /\ buf' = [buf EXCEPT !.kind = "failed"]
          /\ job' = [u \in Tasks |-> CASE u = t -> NoJob
                                     [] u \in Used \ {t} -> [job[u] EXCEPT !.clean = FALSE]
                                     [] OTHER -> job[u]]
      BY <2>1 DEF GiveUp
    <3>2. buf' \in Bufs
      BY <1>3, <3>1 DEF Bufs
    <3> QED BY <1>4, <3>1, <3>2, OthersKept
  <2>2. CASE job[t].kind # "news"
    <3>1. job' = [job EXCEPT ![t] = NoJob] /\ buf' = buf
      BY <2>2 DEF GiveUp
    <3>2. \A u \in Used \ {t} : job'[u] = job[u]
      BY <1>1, <1>3, <3>1
    <3>3. job' \in [Tasks -> Jobs]
      BY <1>3, <1>4, <3>1
    <3> QED BY <1>1, <1>3, <3>1, <3>2, <3>3 DEF AtStep
  <2> QED BY <2>1, <2>2
<1>6. Programmed' /\ Pool!TypeOK'
  BY <1>2, <1>5, EndProgram DEF main
<1>7. HandlerKept
  BY <1>2, <1>5, <1>6, PathTypes DEF HandlerKept, client
<1> QED BY <1>7, KeptPath

-----------------------------------------------------------------------------
(* The invariant and what follows from it.                                 *)

LEMMA StepPath == PathInv /\ [Next]_vars => PathInv'
<1> SUFFICES ASSUME PathInv, [Next]_vars PROVE PathInv'
  OBVIOUS
<1>1. ASSUME NEW c \in Clients, Arrive(c) \/ Close(c) \/ \E k \in Kinds : Send(c, k)
      PROVE  PathInv'
  BY <1>1, StepArrive, StepClose, StepSend
<1>2. CASE Main
  BY <1>2, StepWait, StepDone, StepAccept, StepReadEvent, StepReadRequest, StepReadEnd,
     StepHandle, StepAddTask DEF Main
<1>3. CASE StartTask
  BY <1>3, StepStart
<1>4. ASSUME NEW t \in Tasks, Handler(t)
      PROVE  PathInv'
  BY <1>4, StepCopy, StepMark, StepGiveUp, StepSendFile, StepMissing, StepAck DEF Handler
<1>5. CASE UNCHANGED vars
  <2>1. UNCHANGED <<conn, fd, wire, fin, asked, waits, backlog, registered, ready, batch, mpc,
                    cur, sel, ep_num, buf, pending, running, job, robbed>>
    BY <1>5 DEF vars, client, main, pool
  <2>2. TypeOK'
    BY <2>1 DEF PathInv, TypeOK, Pool!TypeOK
  <2>3. SlotsCounted' /\ Watched' /\ Waiting'
    BY <2>1 DEF PathInv, SlotsCounted, Watched, Waiting
  <2>4. Programmed'
    BY <2>1 DEF PathInv, Programmed, AtStep, Used, Pool!Pending
  <2> QED BY <2>2, <2>3, <2>4 DEF PathInv
<1> QED BY <1>1, <1>2, <1>3, <1>4, <1>5 DEF Next

(* The inductive invariant: what main finds under a descriptor or at the   *)
(* head of the backlog is there, and every task is in the pool once.       *)
THEOREM PathInvariant == Spec => []PathInv
<1>1. Init => PathInv
  BY InitPath
<1>2. PathInv /\ [Next]_vars => PathInv'
  BY StepPath
<1> QED BY <1>1, <1>2, PTL DEF Spec

(* The variables of the request's way keep their types.                    *)
THEOREM TypeCorrect == Spec => []TypeOK
<1>1. PathInv => TypeOK
  BY DEF PathInv
<1> QED BY <1>1, PathInvariant, PTL

(* Whatever accept and epoll_ctl do and in whatever order clients come,    *)
(* close and are reset, ep_num is at least the number of sockets watched,  *)
(* so that EPOLL_MAX bounds them.                                          *)
THEOREM SlotsBound == Spec => []SlotsCounted
<1>1. PathInv => SlotsCounted
  BY DEF PathInv
<1> QED BY <1>1, PathInvariant, PTL

-----------------------------------------------------------------------------
(* Whom a handler answers and what main waits for.                         *)

(* The right client.  While nobody has touched the buffer since a task was *)
(* queued, main has not read the next event: the descriptor in the buffer  *)
(* is of the client that asked and cannot have been closed, and a handler  *)
(* that has copied it has the same.                                        *)

Clean(t) ==
  /\ mpc \in {"wait", "next"}
  /\ job[t].by \in Clients /\ fd[job[t].by] = buf.fd /\ buf.fd # NoFd
  /\ buf.as = Layout(job[t].kind)
  /\ job[t].kind \in Copies /\ job[t].step > 1 => job[t].fd = buf.fd
CleanInv ==
  /\ \A t \in Used : job[t].clean => Clean(t)
  /\ mpc = "add" => buf.fd = cur /\ buf.as = Layout(sel)

LEMMA CopyFirst ==
  ASSUME NEW k \in Copies, NEW n \in 1 .. Len(Program[k])
  PROVE  Program[k][1] = "copy" /\ Program[k][n] # "mark"
<1> DEFINE Ops == {"copy", "send", "ack"}
<1>1. CASE k = "old"
  <2> DEFINE one == <<"copy">>
  <2>1. one \in Seq(Ops) /\ Len(one) = 1 /\ one[1] = "copy" /\ Files \in Seq(Ops)
        /\ Len(Files) = 6
    BY DEF Files
  <2>2. Program["old"] = one \o Files
    BY DEF Program
  <2> HIDE DEF one, Ops
  <2>3. Program["old"] \in Seq(Ops) /\ Program["old"][1] = "copy"
    BY <2>1, <2>2, ConcatProperties
  <2>4. Program["old"][n] \in Ops
    BY <1>1, <2>3
  <2> QED BY <1>1, <2>3, <2>4 DEF Ops
<1>2. CASE k # "old"
  <2>1. k \in {"picture", "update"}
    BY <1>2 DEF Copies
  <2>2. Program["picture"] = <<"copy", "send">> /\ Program["update"] = <<"copy", "send", "send">>
    BY DEF Program
  <2>3. CASE k = "picture"
    BY <2>2, <2>3
  <2>4. CASE k = "update"
    BY <2>2, <2>4
  <2> QED BY <2>1, <2>3, <2>4
<1> QED BY <1>1, <1>2

LEMMA InitClean == Init => CleanInv
BY DEF Init, CleanInv, Used, Pool!Init, Pool!Pending

(* Where main is between two events or does not get to a new one.          *)
LEMMA CleanQuiet ==
  ASSUME PathInv, CleanInv, Used' \subseteq Used, job' = job,
         buf'.fd = buf.fd, buf'.as = buf.as,
         mpc \in {"wait", "next"} => mpc' \in {"wait", "next"},
         mpc' = "add" => mpc = "add" /\ cur' = cur /\ sel' = sel,
         \A c \in Clients : fd[c] # NoFd => fd'[c] = fd[c]
  PROVE  CleanInv'
<1>1. \A t \in Used' : job'[t].clean => Clean(t)'
  <2> SUFFICES ASSUME NEW t \in Used', job'[t].clean PROVE Clean(t)'
    OBVIOUS
  <2>1. Clean(t)
    BY DEF CleanInv
  <2> QED BY <2>1 DEF Clean
<1> QED BY <1>1 DEF CleanInv

(* While main is with an event no task is clean.                           *)
LEMMA CleanBusy ==
  ASSUME PathInv, CleanInv, mpc \notin {"wait", "next"}
  PROVE  \A t \in Used : ~job[t].clean
<1>1. \A t \in Used : Clean(t) => mpc \in {"wait", "next"}
  BY DEF Clean
<1>2. \A t \in Used : job[t].clean \in BOOLEAN
  BY PathTypes, UsedTasks DEF PathInv, Jobs
<1> QED BY <1>1, <1>2 DEF CleanInv

LEMMA CleanMain ==
  ASSUME PathInv, CleanInv, Main
  PROVE  CleanInv'
<1>1. CASE EpollWait \/ BatchDone \/ SkipEvent
  BY <1>1, CleanQuiet DEF EpollWait, BatchDone, SkipEvent, client, pool, Used, Pool!Pending
<1>2. CASE AcceptClient
  <2>1. UNCHANGED <<mpc, cur, sel, buf, pool, job>> /\ mpc = "next"
    BY <1>2 DEF AcceptClient
  <2>2. \A c \in Clients : fd[c] # NoFd => fd'[c] = fd[c]
    <3>1. CASE UNCHANGED <<client, registered>>
      BY <3>1 DEF client
    <3>2. CASE ~UNCHANGED <<client, registered>>
      <4> DEFINE c == Head(backlog)
      <4>1. PICK f \in Fds : fd' = [fd EXCEPT ![c] = f]
        BY <1>2, <3>2 DEF AcceptClient
      <4>2. backlog # <<>> /\ Len(backlog) \in Nat \ {0} /\ c = backlog[1] /\ c \in Clients
        <5>1. backlog # <<>>
          BY <1>2 DEF AcceptClient, PathInv, Waiting
        <5> QED BY <5>1 DEF PathInv, TypeOK
      <4>3. conn[c] = "backlog"
        BY <4>2 DEF PathInv, Waiting
      <4>4. fd[c] = NoFd
        BY <4>2, <4>3 DEF PathInv, Waiting
      <4> HIDE DEF c
      <4> QED BY <4>1, <4>2, <4>4 DEF PathInv, TypeOK
    <3> QED BY <3>1, <3>2
  <2>3. Used' = Used
    BY <2>1 DEF pool, Used, Pool!Pending
  <2> QED BY <2>1, <2>2, <2>3, CleanQuiet
<1>3. CASE ReadEvent
  <2>1. Used' = Used /\ Used \subseteq Tasks
    BY <1>3, UsedTasks DEF ReadEvent, pool, Used, Pool!Pending, PathInv
  <2>2. \A t \in Used : job'[t] = [job[t] EXCEPT !.clean = FALSE] /\ job[t] \in Jobs
    BY <1>3, <2>1, PathTypes DEF ReadEvent, Disturb
  <2>3. \A t \in Used : job'[t].clean = FALSE
    BY <2>2 DEF Jobs
  <2> QED BY <1>3, <2>1, <2>3 DEF CleanInv, ReadEvent
<1>4. CASE ReadRequest \/ ReadEnd \/ HandleDefault
  <2>1. Used' = Used /\ job' = job /\ mpc' # "add" /\ mpc \notin {"wait", "next"}
    BY <1>4 DEF ReadRequest, ReadEnd, HandleDefault, pool, Used, Pool!Pending
  <2> QED BY <2>1, CleanBusy DEF CleanInv
<1>5. CASE HandleRequest
  <2>1. Used' = Used /\ job' = job /\ mpc \notin {"wait", "next"}
    BY <1>5 DEF HandleRequest, pool, Used, Pool!Pending
  <2>2. buf'.fd = cur' /\ buf'.as = Layout(sel')
    BY <1>5 DEF HandleRequest, StoreFd, PathInv, TypeOK
  <2> QED BY <2>1, <2>2, CleanBusy DEF CleanInv, Layout
<1>6. CASE AddTask
  <2>1. PICK t \in Tasks :
          /\ t \notin Used
          /\ Pool!Accept(t)
          /\ job' = [job EXCEPT ![t] = [NoJob EXCEPT !.kind = sel, !.by = Owner(cur),
                                                     !.clean = buf.kind = sel]]
    BY <1>6 DEF AddTask
  <2>2. /\ mpc = "add" /\ mpc' = "next"
        /\ UNCHANGED <<client, buf>>
    BY <1>6 DEF AddTask, Added
  <2>3. Used' = Used \cup {t} /\ Used \subseteq Tasks
    BY <2>1, AcceptPool, UsedTasks DEF PathInv
  <2>4. \A u \in Used : job'[u] = job[u] /\ ~job[u].clean
    BY <2>1, <2>2, <2>3, CleanBusy DEF PathInv, TypeOK
  <2>5. Owner(cur) \in Clients /\ fd[Owner(cur)] = cur /\ cur # NoFd
    <3>1. cur \in Fds /\ \E c \in Clients : fd[c] = cur
      BY <2>2 DEF PathInv, Watched, TypeOK
    <3> QED BY <3>1, OwnerIs DEF Fds, NoFd
  <2>6. job'[t].by = Owner(cur) /\ job'[t].kind = sel /\ job'[t].step = 1
    BY <2>1 DEF PathInv, TypeOK, NoJob
  <2>7. Clean(t)'
    BY <2>2, <2>5, <2>6 DEF Clean, CleanInv, client, Layout
  <2> QED BY <2>2, <2>3, <2>4, <2>7 DEF CleanInv
<1> QED BY <1>1, <1>2, <1>3, <1>4, <1>5, <1>6 DEF Main

(* What a handler may do to its own entry and to the others'.              *)
LEMMA CleanHandler ==
  ASSUME PathInv, CleanInv, NEW t \in Used, Used' \subseteq Used,
         UNCHANGED <<fd, main>>,
         buf'.fd = buf.fd, buf'.as = buf.as,
         \A u \in Used \ {t} : job'[u] = job[u] \/ job'[u] = [job[u] EXCEPT !.clean = FALSE],
         t \in Used' /\ job'[t].clean => job[t].clean,
         t \in Used' => job'[t].by = job[t].by /\ job'[t].kind = job[t].kind,
         t \in Used' /\ Clean(t) /\ job[t].kind \in Copies => job'[t].fd = buf.fd
  PROVE  CleanInv'
<1>1. mpc' = mpc /\ cur' = cur /\ sel' = sel /\ fd' = fd
  BY DEF main
<1>2. \A u \in Used : job[u] \in Jobs
  BY PathTypes, UsedTasks DEF PathInv
<1>3. ASSUME NEW u \in Used', u # t, job'[u].clean PROVE Clean(u)'
  <2>1. job'[u] = job[u] /\ job[u].clean
    BY <1>2, <1>3 DEF Jobs
  <2>2. Clean(u)
    BY <1>3, <2>1 DEF CleanInv
  <2> QED BY <1>1, <2>1, <2>2 DEF Clean
<1>4. ASSUME t \in Used', job'[t].clean PROVE Clean(t)'
  <2>1. Clean(t)
    BY <1>4 DEF CleanInv
  <2> QED BY <1>1, <1>4, <2>1 DEF Clean
<1> QED BY <1>1, <1>3, <1>4 DEF CleanInv

LEMMA AdvanceJob ==
  ASSUME PathInv, NEW t \in running, NEW n \in {1, 2}, Advance(t, n)
  PROVE  /\ Used' \subseteq Used
         /\ \A u \in Used \ {t} : job'[u] = job[u]
         /\ t \in Used' => /\ job'[t].by = job[t].by /\ job'[t].kind = job[t].kind
                           /\ job'[t].fd = job[t].fd /\ job'[t].clean = job[t].clean
<1>1. t \in Used /\ Used \subseteq Tasks /\ job \in [Tasks -> Jobs]
  BY PathTypes, UsedTasks DEF PathInv
<1>2. CASE Pool!End(t) /\ job' = [job EXCEPT ![t] = NoJob]
  <2>1. Used' = Used \ {t}
    BY <1>2, EndPool
  <2> QED BY <1>1, <1>2, <2>1
<1>3. CASE job' = [job EXCEPT ![t].step = @ + n] /\ UNCHANGED pool
  <2>1. Used' = Used
    BY <1>3 DEF pool, Used, Pool!Pending
  <2>2. job[t] \in Jobs /\ job'[t] = [job[t] EXCEPT !.step = job[t].step + n]
    BY <1>1, <1>3
  <2> QED BY <1>1, <1>3, <2>1, <2>2 DEF Jobs
<1> QED BY <1>2, <1>3 DEF Advance

(* A handler that copies has done so when it does anything else.           *)
LEMMA CopyDone ==
  ASSUME PathInv, NEW t \in running, job[t].kind \in Copies, Clean(t),
         Program[job[t].kind][job[t].step] # "copy"
  PROVE  job[t].fd = buf.fd
<1>1. t \in Used /\ t \in Tasks /\ AtStep(t) /\ job[t] \in Jobs
  BY PathTypes, UsedTasks DEF PathInv, Programmed
<1>2. job[t].step \in 1 .. Len(Program[job[t].kind])
  BY <1>1, ProgramLen DEF AtStep, Jobs
<1>3. job[t].step # 1
  BY <1>2, CopyFirst
<1>4. job[t].step > 1
  BY <1>1, <1>3 DEF Jobs
<1> QED BY <1>4 DEF Clean

LEMMA CleanHandlers ==
  ASSUME PathInv, CleanInv, NEW t \in Tasks, Handler(t)
  PROVE  CleanInv'
<1>1. t \in running /\ t \in Used /\ job \in [Tasks -> Jobs] /\ Used \subseteq Tasks
  BY UsedTasks, PathTypes DEF PathInv, Handler, Copy, Mark, GiveUp, SendFile, Missing, Ack, At
<1>2. CASE SendFile(t) \/ Missing(t) \/ Ack(t)
  <2>1. /\ Advance(t, 1) \/ Advance(t, 2)
        /\ Program[job[t].kind][job[t].step] # "copy"
        /\ UNCHANGED <<main, buf>>
    BY <1>2 DEF SendFile, Missing, Ack, At
  <2>2. fd' = fd
    BY <1>2 DEF SendFile, Missing, Ack, Answer, client
  <2>3. Clean(t) /\ job[t].kind \in Copies => job[t].fd = buf.fd
    BY <1>1, <2>1, CopyDone
  <2> QED BY <1>1, <2>1, <2>2, <2>3, AdvanceJob, CleanHandler
<1>3. CASE Copy(t)
  <2>1. /\ job' = [job EXCEPT ![t].step = 2, ![t].fd = Seen(job[t].kind)]
        /\ UNCHANGED <<client, main, buf, pool>>
    BY <1>3 DEF Copy
  <2> DEFINE f == Seen(job[t].kind)
  <2>2. job'[t] = [job[t] EXCEPT !.step = 2, !.fd = f] /\ \A u \in Used \ {t} : job'[u] = job[u]
    BY <1>1, <2>1
  <2>3. Clean(t) => f = buf.fd
    BY DEF Clean, Seen
  <2> HIDE DEF f
  <2>4. /\ job'[t].by = job[t].by /\ job'[t].kind = job[t].kind
        /\ job'[t].clean = job[t].clean /\ job'[t].fd = f
    BY <1>1, <2>2 DEF Jobs
  <2>5. Used' = Used
    BY <2>1 DEF pool, Used, Pool!Pending
  <2> QED BY <1>1, <2>1, <2>2, <2>3, <2>4, <2>5, CleanHandler DEF client
<1>4. CASE Mark(t)
  <2>1. /\ Program[job[t].kind][job[t].step] = "mark"
        /\ buf' = [buf EXCEPT !.kind = job[t].kind]
        /\ job' = [u \in Tasks |-> CASE u = t -> [job[t] EXCEPT !.step = 2]
                                   [] u \in Used \ {t} -> [job[u] EXCEPT !.clean = FALSE]
                                   [] OTHER -> job[u]]
        /\ UNCHANGED <<client, main, pool>>
    BY <1>4 DEF Mark, At
  <2>2. /\ job'[t] = [job[t] EXCEPT !.step = 2]
        /\ \A u \in Used \ {t} : job'[u] = [job[u] EXCEPT !.clean = FALSE]
    BY <1>1, <2>1
  <2>3. /\ job'[t].by = job[t].by /\ job'[t].kind = job[t].kind
        /\ job'[t].clean = job[t].clean
    BY <1>1, <2>2 DEF Jobs
  <2>4. job[t].kind \notin Copies
    <3>1. job[t].step \in 1 .. Len(Program[job[t].kind])
      BY <1>1, ProgramLen DEF PathInv, Programmed, AtStep, Jobs
    <3> QED BY <2>1, <3>1, CopyFirst
  <2>5. buf'.fd = buf.fd /\ buf'.as = buf.as
    BY <2>1, PathTypes DEF Bufs
  <2>6. Used' = Used
    BY <2>1 DEF pool, Used, Pool!Pending
  <2> QED BY <1>1, <2>1, <2>2, <2>3, <2>4, <2>5, <2>6, CleanHandler DEF client
<1>5. CASE GiveUp(t)
  <2>1. Used' = Used \ {t} /\ UNCHANGED <<client, main>>
    BY <1>5, EndPool DEF GiveUp
  <2>2. buf'.fd = buf.fd /\ buf'.as = buf.as
    BY <1>5, PathTypes DEF GiveUp, Bufs
  <2>3. \A u \in Used \ {t} : job'[u] = job[u] \/ job'[u] = [job[u] EXCEPT !.clean = FALSE]
    BY <1>1, <1>5 DEF GiveUp
  <2> QED BY <1>1, <2>1, <2>2, <2>3, CleanHandler DEF client
<1> QED BY <1>2, <1>3, <1>4, <1>5 DEF Handler

LEMMA StepClean == PathInv /\ CleanInv /\ [Next]_vars => CleanInv'
<1> SUFFICES ASSUME PathInv, CleanInv, [Next]_vars PROVE CleanInv'
  OBVIOUS
<1>1. ASSUME NEW c \in Clients, Arrive(c) \/ Close(c) \/ \E k \in Kinds : Send(c, k)
      PROVE  CleanInv'
  BY <1>1, CleanQuiet DEF Arrive, Close, Send, main, pool, Used, Pool!Pending
<1>2. CASE StartTask
  BY <1>2, StartPool, CleanQuiet DEF StartTask, main, client
<1>3. CASE UNCHANGED vars
  BY <1>3, CleanQuiet DEF vars, client, main, pool, Used, Pool!Pending
<1> QED BY <1>1, <1>2, <1>3, CleanMain, CleanHandlers DEF Next

(* A handler answers the client that asked as long as nobody has written   *)
(* the shared buffer since its task was queued, in every interleaving of   *)
(* main and the handlers and however descriptors are reused.               *)
THEOREM RightClient == Spec => []RightIfUndisturbed
<1>1. Init => PathInv /\ CleanInv
  BY InitPath, InitClean
<1>2. PathInv /\ CleanInv /\ [Next]_vars => PathInv' /\ CleanInv'
  BY StepPath, StepClean
<1>3. PathInv /\ CleanInv => RightIfUndisturbed
  <2> SUFFICES ASSUME PathInv, CleanInv, NEW t \in Tasks, Answering(t), job[t].clean
               PROVE  Target(t) = job[t].by
    BY DEF RightIfUndisturbed
  <2>1. t \in running /\ t \in Used /\ Program[job[t].kind][job[t].step] = "send"
    BY UsedTasks DEF Answering, At, PathInv
  <2>2. Clean(t)
    BY <2>1 DEF CleanInv
  <2>3. Fd(t) = buf.fd
    BY <2>1, <2>2, CopyDone DEF Fd, Seen, Clean
  <2>4. buf.fd \in Fds
    BY <2>2, PathTypes DEF Clean, Bufs
  <2>5. Owner(buf.fd) \in Clients /\ fd[Owner(buf.fd)] = buf.fd
    BY <2>2, <2>4, OwnerIs DEF Clean
  <2>6. Owner(buf.fd) = job[t].by
    BY <2>2, <2>5 DEF Clean, PathInv, Watched
  <2> QED BY <2>3, <2>6 DEF Target
<1> QED BY <1>1, <1>2, <1>3, PTL DEF Spec

-----------------------------------------------------------------------------
(* main's read.  Where an event is under way there is something to read,   *)
(* or a handler has read it.                                               *)

Due(f)   == (\E e \in batch : e.fd = f) \/ (mpc = "read" /\ f = cur)
Promised == \A c \in Clients : Due(fd[c]) => Input(c) \/ fd[c] \in robbed

LEMMA InitPromised == Init => Promised
BY DEF Init, Promised, Due

(* A due descriptor is watched.                                            *)
LEMMA DueWatched ==
  ASSUME PathInv, NEW c \in Clients, Due(fd[c])
  PROVE  fd[c] \in registered /\ fd[c] \in Fds
<1>1. fd[c] \in Fds \cup {NoFd} /\ fd[c] # Listen /\ registered \subseteq Fds
  BY DEF PathInv, TypeOK, Fds, Listen, NoFd
<1>2. fd[c] \in registered \cup {Listen}
  BY DEF Due, PathInv, Watched
<1> QED BY <1>1, <1>2

LEMMA PromisedKept ==
  ASSUME PathInv, Promised, fd' = fd, batch' \subseteq batch, robbed \subseteq robbed',
         mpc' = "read" => mpc = "read" /\ cur' = cur,
         \A c \in Clients : Due(fd[c]) /\ Input(c) => Input(c)' \/ fd[c] \in robbed'
  PROVE  Promised'
BY DEF Promised, Due

LEMMA PromisedMain ==
  ASSUME PathInv, Promised, Main
  PROVE  Promised'
<1>1. CASE EpollWait
  <2> SUFFICES ASSUME NEW c \in Clients, Due(fd[c])' PROVE Input(c)'
    BY DEF Promised
  <2>1. fd' = fd /\ wire' = wire /\ fin' = fin /\ mpc' = "next"
    BY <1>1 DEF EpollWait, client
  <2>2. PICK e \in batch' : e.fd = fd[c]
    BY <2>1 DEF Due
  <2>3. fd[c] \in ready /\ Readable(fd[c])
    BY <1>1, <2>2 DEF EpollWait
  <2>4. fd[c] \in Fds
    BY <2>3 DEF PathInv, TypeOK, Fds, Listen, NoFd
  <2>5. Owner(fd[c]) # Nobody /\ Input(Owner(fd[c]))
    BY <2>3, <2>4 DEF Readable, Fds, Listen
  <2>6. Owner(fd[c]) = c
    BY <2>4, <2>5, OwnerIs DEF PathInv, Watched, Fds, NoFd
  <2> QED BY <2>1, <2>5, <2>6 DEF Input
<1>2. CASE BatchDone \/ SkipEvent \/ HandleRequest \/ HandleDefault \/ AddTask
  BY <1>2, PromisedKept DEF BatchDone, SkipEvent, HandleRequest, HandleDefault, AddTask, Added,
     client, Input
<1>3. CASE AcceptClient
  <2>1. /\ UNCHANGED <<wire, fin, robbed>> /\ mpc' = "next" /\ batch' \subseteq batch
    BY <1>3 DEF AcceptClient, client
  <2> SUFFICES ASSUME NEW c \in Clients, Due(fd[c])', ~(fd'[c] = fd[c])
               PROVE  FALSE
    BY <2>1 DEF Promised, Due, Input
  <2>2. PICK f \in {g \in Fds : Owner(g) = Nobody} : fd' = [fd EXCEPT ![Head(backlog)] = f]
    BY <1>3 DEF AcceptClient, client
  <2>3. fd'[c] = f
    BY <2>2 DEF PathInv, TypeOK
  <2>4. f \in registered
    BY <2>1, <2>2, <2>3 DEF Due, PathInv, Watched, Fds, Listen
  <2>5. \E d \in Clients : fd[d] = f
    BY <2>4 DEF PathInv, Watched
  <2> QED BY <2>2, <2>5, OwnerIs
<1>4. CASE ReadEvent
  <2>1. /\ fd' = fd /\ wire' = wire /\ fin' = fin /\ robbed' = robbed
        /\ batch' \subseteq batch /\ \E e \in batch : e.fd = cur'
    BY <1>4 DEF ReadEvent, client
  <2>2. \A c \in Clients : Due(fd[c])' => Due(fd[c])
    BY <2>1 DEF Due
  <2> QED BY <2>1, <2>2 DEF Promised, Input
<1>5. CASE ReadRequest
  <2>1. mpc = "read" /\ mpc' = "switch" /\ batch' = batch /\ fd' = fd /\ fin' = fin
        /\ robbed' = robbed /\ wire' = [wire EXCEPT ![Owner(cur)] = Tail(@)]
    BY <1>5 DEF ReadRequest
  <2>2. Owner(cur) \in Clients /\ fd[Owner(cur)] = cur
    BY <2>1, ReadOwner
  <2>3. \A c \in Clients : Due(fd[c])' => Due(fd[c]) /\ wire'[c] = wire[c]
    BY <2>1, <2>2 DEF Due, PathInv, TypeOK, Watched
  <2> QED BY <2>1, <2>3 DEF Promised, Input
<1>6. CASE ReadEnd
  <2>0. mpc = "read"
    BY <1>6 DEF ReadEnd
  <2>2. PICK o \in Clients : o = Owner(cur)
    BY <2>0, ReadOwner
  <2>1. mpc' = "next" /\ batch' = batch /\ wire' = wire /\ robbed' = robbed
        /\ fd' = [fd EXCEPT ![o] = NoFd] /\ fin' = [fin EXCEPT ![o] = "no"]
    BY <1>6, <2>2 DEF ReadEnd
  <2>3. fd'[o] = NoFd /\ \A c \in Clients \ {o} : fd'[c] = fd[c] /\ fin'[c] = fin[c]
    BY <2>1, <2>2 DEF PathInv, TypeOK
  <2>4. ~Due(fd[o])'
    <3>1. \A e \in batch : e.fd \in Fds \cup {Listen}
      BY DEF PathInv, TypeOK
    <3>2. \A e \in batch : e.fd # NoFd
      BY <3>1 DEF Fds, Listen, NoFd
    <3> QED BY <2>1, <2>3, <3>2 DEF Due
  <2>5. \A c \in Clients \ {o} : Due(fd[c])' => Due(fd[c])
    BY <2>1, <2>3 DEF Due
  <2>6. \A c \in Clients \ {o} : Input(c) => Input(c)'
    BY <2>1, <2>3 DEF Input
  <2> SUFFICES ASSUME NEW c \in Clients, Due(fd[c])' PROVE Input(c)' \/ (fd[c] \in robbed)'
    BY DEF Promised
  <2>7. c # o /\ Due(fd[c]) /\ fd'[c] = fd[c]
    BY <2>3, <2>4, <2>5
  <2> QED BY <2>1, <2>6, <2>7 DEF Promised
<1> QED BY <1>1, <1>2, <1>3, <1>4, <1>5, <1>6 DEF Main

LEMMA PromisedHandler ==
  ASSUME PathInv, Promised, NEW t \in Tasks, Handler(t)
  PROVE  Promised'
<1>1. CASE Copy(t) \/ Mark(t) \/ GiveUp(t) \/ Missing(t)
  BY <1>1, PromisedKept DEF Copy, Mark, GiveUp, Missing, client, main, Input
<1>2. CASE SendFile(t)
  <2> DEFINE c == Owner(Fd(t))
  <2>1. UNCHANGED <<fd, main, robbed>> /\ Answer(t, Fd(t))
    BY <1>2 DEF SendFile, Answer
  <2>2. \/ UNCHANGED <<wire, fin>>
        \/ /\ wire' = [wire EXCEPT ![c] = <<"ack">>] /\ wire[c] = <<>>
           /\ fin' = fin
        \/ /\ fin' = [fin EXCEPT ![c] = "reset"]
           /\ wire' = [wire EXCEPT ![c] = <<>>]
    BY <2>1, Zenon DEF Answer
  <2> HIDE DEF c
  <2>3. \A d \in Clients : Input(d) => Input(d)'
    <3>1. <<"ack">> # <<>>
      OBVIOUS
    <3> QED BY <2>2, <3>1 DEF Input, PathInv, TypeOK
  <2> QED BY <2>1, <2>3, PromisedKept DEF main
<1>3. CASE Ack(t)
  <2> DEFINE c == Owner(Seen(job[t].kind))
  <2>1. UNCHANGED <<fd, fin, main>>
    BY <1>3 DEF Ack
  <2>2. \/ UNCHANGED <<wire, robbed>>
        \/ /\ wire' = [wire EXCEPT ![c] = <<>>]
           /\ robbed' = robbed \cup ({fd[c]} \cap ({cur} \cup {e.fd : e \in batch}))
    BY <1>3 DEF Ack
  <2> HIDE DEF c
  <2>3. \A d \in Clients : Due(fd[d]) /\ Input(d) => Input(d)' \/ fd[d] \in robbed'
    BY <2>1, <2>2 DEF Input, Due, PathInv, TypeOK
  <2>4. robbed \subseteq robbed'
    BY <2>2
  <2> QED BY <2>1, <2>3, <2>4, PromisedKept DEF main
<1> QED BY <1>1, <1>2, <1>3 DEF Handler

LEMMA StepPromised == PathInv /\ Promised /\ [Next]_vars => Promised'
<1> SUFFICES ASSUME PathInv, Promised, [Next]_vars PROVE Promised'
  OBVIOUS
<1>1. ASSUME NEW c \in Clients, Arrive(c) \/ Close(c) PROVE Promised'
  BY <1>1, PromisedKept DEF Arrive, Close, main, Input, PathInv, TypeOK
<1>2. ASSUME NEW c \in Clients, NEW k \in Kinds, Send(c, k) PROVE Promised'
  <2>1. wire' = [wire EXCEPT ![c] = <<k>>] /\ UNCHANGED <<fd, fin, main, robbed>>
    BY <1>2 DEF Send
  <2>2. \A d \in Clients : Input(d) => Input(d)'
    BY <2>1 DEF Input, PathInv, TypeOK
  <2> QED BY <2>1, <2>2, PromisedKept DEF main
<1>3. CASE StartTask \/ UNCHANGED vars
  BY <1>3, PromisedKept DEF StartTask, vars, client, main, Input
<1> QED BY <1>1, <1>2, <1>3, PromisedMain, PromisedHandler DEF Next

(* main waits in read, with every client waiting for it, only where a      *)
(* handler has read the message of the event that brought it there.        *)
THEOREM BlockedByHandler == Spec => []BlocksOnlyRobbed
<1>1. Init => PathInv /\ Promised
  BY InitPath, InitPromised
<1>2. PathInv /\ Promised /\ [Next]_vars => PathInv' /\ Promised'
  BY StepPath, StepPromised
<1>3. PathInv /\ Promised => BlocksOnlyRobbed
  <2> SUFFICES ASSUME PathInv, Promised, mpc = "read", ~Readable(cur) PROVE cur \in robbed
    BY DEF BlocksOnlyRobbed
  <2>1. Owner(cur) \in Clients /\ fd[Owner(cur)] = cur /\ cur # Listen
    BY ReadOwner DEF Fds, Listen
  <2>2. ~Input(Owner(cur))
    BY <2>1, RequestAssumption DEF Readable
  <2> QED BY <2>1, <2>2 DEF Promised, Due
<1> QED BY <1>1, <1>2, <1>3, PTL DEF Spec
=============================================================================
