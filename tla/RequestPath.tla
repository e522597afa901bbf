----------------------------- MODULE RequestPath -----------------------------
(***************************************************************************)
(* The way of a request: clients, the listening socket and epoll, main's   *)
(* event loop (main.c, server_socket_operation.c), handle_request          *)
(* (accecc_of_service.c) and the handlers in the pool.  The thread pool is *)
(* the TaskQueue that ThreadPool.tla is shown to implement.                *)
(*                                                                         *)
(* Every task's argument is the address of szRecvBuff, one buffer in       *)
(* main's stack frame that main clears and fills for each readable event,  *)
(* so a handler sees what is there when it looks: `buf'.  A handler is the *)
(* steps in which it uses the buffer and the descriptor, see Program; how  *)
(* it makes its answer is the matter of Accounts, PageCache and NewsIndex. *)
(*                                                                         *)
(* The structures have four layouts, each with the descriptor at a place   *)
(* of its own; a handler that finds another layout in the buffer takes     *)
(* zero or text for the descriptor.                                        *)
(*                                                                         *)
(* Clients, TCP and epoll are external.  A client has one request          *)
(* outstanding, acknowledges a file after it has come, and closes when it  *)
(* is waiting for nothing.                                                 *)
(***************************************************************************)
EXTENDS Integers, Sequences, FiniteSets

CONSTANTS
  Clients,     \* connections
  Requests,    \* bound of the model: the requests one client sends
  Kinds,       \* the kinds of request the clients send
  FdMax,       \* descriptors left for clients
  EpollMax,    \* EPOLL_MAX
  Tasks,       \* labels of queued and running tasks
  QueueMax,    \* que_max of the pool
  ThreadMax,   \* threads of the pool
  Nobody,      \* no client
  Faults       \* environment events that may happen, see FaultKinds

FaultKinds ==
  { "epoll_ctl",  \* EPOLL_CTL_ADD fails
    "hasty",      \* a client closes while it waits for an answer
    "reset" }     \* a client that has closed answers what comes with a reset

(* The requests, and what each handler does with its argument.  "copy":    *)
(* copies it; "mark": writes nPackType into it; "send": answers, to the    *)
(* descriptor in the copy or else in the buffer; "ack": reads from the     *)
(* descriptor in the buffer.                                               *)
Replies == {"varify", "register", "login"}
Copies  == {"old", "picture", "update"}
Acked   == {"news", "old"}

Files   == <<"send", "ack", "send", "ack", "send", "ack">>
Program ==
  [varify |-> <<"send">>, register |-> <<"send">>, login |-> <<"send">>,
   news |-> <<"mark">> \o Files,   old |-> <<"copy">> \o Files,
   search |-> <<"mark", "send">>,  video |-> <<"mark", "send">>,
   picture |-> <<"copy", "send">>, update |-> <<"copy", "send", "send">>]
AllKinds == DOMAIN Program

ASSUME RequestAssumption ==
  /\ Requests \in Nat /\ FdMax \in Nat /\ EpollMax \in Nat
  /\ QueueMax \in Nat \ {0} /\ ThreadMax \in Nat \ {0}
  /\ Kinds \subseteq AllKinds
  /\ Nobody \notin Clients
  /\ Faults \subseteq FaultKinds

Fds    == 1 .. FdMax
Listen == 0            \* the listening socket
NoFd   == -1           \* what is not the descriptor of a client

VARIABLES
  conn, fd, wire, fin,     \* per client: state, descriptor in the server,
                           \* messages under way, how it has closed
  asked, waits,            \* per client: requests sent, waiting for an answer
  backlog,                 \* connections the server has not accepted
  registered, ready,       \* epoll: interest and ready list
  batch,                   \* ep_even: events main has not handled yet
  mpc, cur, sel,           \* main: place, descriptor, handler selected
  ep_num,
  buf,                     \* szRecvBuff
  pending, running,        \* the pool, see TaskQueue
  job,                     \* per task
  robbed                   \* history: descriptors of events under way whose input
                           \* a handler has read

client == <<conn, fd, wire, fin, asked, waits, backlog>>
main   == <<batch, mpc, cur, sel, ep_num>>
pool   == <<pending, running>>
vars   == <<client, registered, ready, main, buf, pool, job, robbed>>

Pool == INSTANCE TaskQueue

(* as: the layout that the descriptor in the buffer was stored in.         *)
Layout(k) == IF k \in Replies THEN k ELSE "net"
Zero      == [kind |-> "zero", fd |-> NoFd, as |-> "none"]
NoJob     == [kind |-> "none", by |-> Nobody, fd |-> NoFd, step |-> 1, clean |-> TRUE]

TypeOK ==
  /\ conn \in [Clients -> {"out", "backlog", "open", "closed"}]
  /\ fd \in [Clients -> Fds \cup {NoFd}]
  /\ wire \in [Clients -> {<<>>} \cup {<<k>> : k \in Kinds \cup {"ack"}}]
  /\ fin \in [Clients -> {"no", "fin", "reset"}]
  /\ asked \in [Clients -> 0 .. Requests]
  /\ waits \in [Clients -> BOOLEAN]
  /\ backlog \in Seq(Clients)
  /\ registered \subseteq Fds
  /\ ready \subseteq Fds \cup {Listen}
  /\ batch \subseteq [fd : Fds \cup {Listen}, exact : BOOLEAN]
  /\ mpc \in {"wait", "next", "read", "switch", "add"}
  /\ cur \in Fds \cup {NoFd}
  /\ sel \in {"none"} \cup AllKinds
  /\ ep_num \in 0 .. EpollMax
  /\ buf \in [kind : {"zero", "ack", "failed"} \cup AllKinds, fd : Fds \cup {NoFd},
              as : {"none", "net"} \cup Replies]
  /\ Pool!TypeOK
  /\ job \in [Tasks -> [kind : {"none"} \cup AllKinds,
                        by : Clients \cup {Nobody}, fd : Fds \cup {NoFd},
                        step : 1 .. 7, clean : BOOLEAN]]
  /\ robbed \subseteq Fds

Init ==
  /\ conn = [c \in Clients |-> "out"]
  /\ fd = [c \in Clients |-> NoFd]
  /\ wire = [c \in Clients |-> <<>>]
  /\ fin = [c \in Clients |-> "no"]
  /\ asked = [c \in Clients |-> 0]
  /\ waits = [c \in Clients |-> FALSE]
  /\ backlog = <<>>
  /\ registered = {} /\ ready = {} /\ batch = {}
  /\ mpc = "wait" /\ cur = NoFd /\ sel = "none" /\ ep_num = 0
  /\ buf = Zero
  /\ Pool!Init
  /\ job = [t \in Tasks |-> NoJob]
  /\ robbed = {}

(* The client behind a descriptor.                                         *)
Owner(f) == IF \E c \in Clients : fd[c] = f /\ f # NoFd
              THEN CHOOSE c \in Clients : fd[c] = f
              ELSE Nobody

Input(c)    == wire[c] # <<>> \/ fin[c] # "no"
Readable(f) == IF f = Listen THEN backlog # <<>>
                             ELSE Owner(f) # Nobody /\ Input(Owner(f))
Edge(c)     == ready' = ready \cup ({fd[c]} \cap registered)

-----------------------------------------------------------------------------
(* Clients and the network.                                                *)

Arrive(c) ==
  /\ conn[c] = "out"
  /\ conn' = [conn EXCEPT ![c] = "backlog"]
  /\ backlog' = Append(backlog, c)
  /\ ready' = ready \cup {Listen}
  /\ UNCHANGED <<fd, wire, fin, asked, waits, registered, main, buf, pool, job, robbed>>

Send(c, k) ==
  /\ conn[c] = "open" /\ fin[c] = "no" /\ ~waits[c]
  /\ asked[c] < Requests /\ wire[c] = <<>>
  /\ wire' = [wire EXCEPT ![c] = <<k>>]
  /\ asked' = [asked EXCEPT ![c] = @ + 1]
  /\ waits' = [waits EXCEPT ![c] = TRUE]
  /\ Edge(c)
  /\ UNCHANGED <<conn, fd, fin, backlog, registered, main, buf, pool, job, robbed>>

Close(c) ==
  /\ conn[c] = "open" /\ fin[c] = "no"
  /\ (~waits[c] /\ wire[c] = <<>>) \/ "hasty" \in Faults
  /\ fin' = [fin EXCEPT ![c] = "fin"]
  /\ Edge(c)
  /\ UNCHANGED <<conn, fd, wire, asked, waits, backlog, registered, main, buf, pool,
                 job, robbed>>

-----------------------------------------------------------------------------
(* main.                                                                   *)

(* epoll_wait: an edge is reported once, and only if there is something to *)
(* read by then.  A reset comes with EPOLLERR and EPOLLHUP, so that events *)
(* is not EPOLLIN exactly.                                                 *)
EpollWait ==
  /\ mpc = "wait"
  /\ \E f \in ready : Readable(f)
  /\ batch' = {[fd |-> f, exact |-> f = Listen \/ fin[Owner(f)] # "reset"] :
                 f \in {g \in ready : Readable(g)}}
  /\ ready' = {}
  /\ robbed' = {}
  /\ mpc' = "next"
  /\ UNCHANGED <<client, registered, cur, sel, ep_num, buf, pool, job>>

BatchDone ==
  /\ mpc = "next" /\ batch = {}
  /\ mpc' = "wait"
  /\ UNCHANGED <<client, registered, ready, batch, cur, sel, ep_num, buf, pool, job, robbed>>

(* Events with anything but EPOLLIN, and connections beyond EPOLL_MAX.     *)
RoomUnchecked == TRUE                                             \* mutant
Room          == ep_num < EpollMax

SkipEvent ==
  /\ mpc = "next"
  /\ \E e \in batch :
       /\ (e.fd = Listen /\ ~Room) \/ ~e.exact
       /\ batch' = batch \ {e}
  /\ UNCHANGED <<client, registered, ready, mpc, cur, sel, ep_num, buf, pool, job, robbed>>

(* accept_client, which counts the client before it looks at accept's      *)
(* result: without a free descriptor accept fails and the connection stays *)
(* where it is; when add_socket fails the descriptor stays open.           *)
NotCounted(n) == n                                                \* mutant
Counted(n)    == n + 1

AcceptClient ==
  /\ mpc = "next"
  /\ \E e \in batch : e.fd = Listen /\ batch' = batch \ {e}
  /\ Room
  /\ ep_num' = Counted(ep_num)
  /\ LET free == {f \in Fds : Owner(f) = Nobody} IN
     \/ /\ free = {}
        /\ UNCHANGED <<client, registered>>
     \/ /\ \E f \in free :
             LET c == Head(backlog) IN
             /\ \A g \in free : f <= g
             /\ conn' = [conn EXCEPT ![c] = "open"]
             /\ fd' = [fd EXCEPT ![c] = f]
             /\ backlog' = Tail(backlog)
             /\ \/ registered' = registered \cup {f}
                \/ "epoll_ctl" \in Faults /\ UNCHANGED registered
        /\ UNCHANGED <<wire, fin, asked, waits>>
  /\ UNCHANGED <<ready, mpc, cur, sel, buf, pool, job, robbed>>

(* What is in the buffer changes under the tasks that point to it.         *)
Disturb(ts) == job' = [t \in Tasks |-> IF t \in ts THEN [job[t] EXCEPT !.clean = FALSE]
                                                   ELSE job[t]]
Used == Pool!Pending \cup running

ReadEvent ==
  /\ mpc = "next"
  /\ \E e \in batch : /\ e.fd # Listen /\ e.exact
                      /\ batch' = batch \ {e}
                      /\ cur' = e.fd
  /\ buf' = Zero
  /\ Disturb(Used)
  /\ mpc' = "read"
  /\ UNCHANGED <<client, registered, ready, sel, ep_num, pool, robbed>>

(* read blocks until there is something; a message comes whole.            *)
ReadRequest ==
  /\ mpc = "read"
  /\ LET c == Owner(cur) IN
       /\ wire[c] # <<>>
       /\ buf' = [Zero EXCEPT !.kind = Head(wire[c])]
       /\ wire' = [wire EXCEPT ![c] = Tail(@)]
  /\ mpc' = "switch"
  /\ UNCHANGED <<conn, fd, fin, asked, waits, backlog, registered, ready, batch, cur,
                 sel, ep_num, pool, job, robbed>>

GoneIfReset(c) == fin[c] = "reset"                                \* mutant
Gone(c)        == fin[c] # "no"

ReadEnd ==
  /\ mpc = "read"
  /\ LET c == Owner(cur) IN
       /\ wire[c] = <<>> /\ Gone(c)
       /\ conn' = [conn EXCEPT ![c] = "closed"]
       /\ fd' = [fd EXCEPT ![c] = NoFd]
       /\ fin' = [fin EXCEPT ![c] = "no"]
       /\ asked' = [asked EXCEPT ![c] = 0]
       /\ waits' = [waits EXCEPT ![c] = FALSE]
  /\ registered' = registered \ {cur}
  /\ ready' = ready \ {cur}
  /\ ep_num' = ep_num - 1
  /\ cur' = NoFd
  /\ mpc' = "next"
  /\ UNCHANGED <<wire, backlog, batch, sel, buf, pool, job, robbed>>

(* handle_request: the switch and the store of nClientFd or clifd.         *)
ForgetFd(b) == b                                                  \* mutant
StoreFd(b)  == [b EXCEPT !.fd = cur, !.as = Layout(b.kind)]

HandleRequest ==
  /\ mpc = "switch"
  /\ buf.kind \in AllKinds
  /\ sel' = buf.kind
  /\ buf' = StoreFd(buf)
  /\ mpc' = "add"
  /\ UNCHANGED <<client, registered, ready, batch, cur, ep_num, pool, job, robbed>>

AddedReadAgain == "read"                                          \* mutant
Added          == "next"

HandleDefault ==
  /\ mpc = "switch"
  /\ buf.kind \notin AllKinds
  /\ cur' = NoFd
  /\ mpc' = "next"
  /\ UNCHANGED <<client, registered, ready, batch, sel, ep_num, buf, pool, job, robbed>>

(* thread_task_add, which blocks while the queue is full.  `clean': the    *)
(* buffer holds this request, and nobody has written it since.             *)
AddTask ==
  /\ mpc = "add"
  /\ Tasks \ Used # {}
  /\ LET t == CHOOSE u \in Tasks : u \notin Used IN
       /\ Pool!Accept(t)
       /\ job' = [job EXCEPT ![t] = [NoJob EXCEPT !.kind = sel, !.by = Owner(cur),
                                                  !.clean = buf.kind = sel]]
  /\ cur' = IF Added = "read" THEN cur ELSE NoFd
  /\ sel' = "none"
  /\ mpc' = Added
  /\ UNCHANGED <<client, registered, ready, batch, ep_num, buf, robbed>>

-----------------------------------------------------------------------------
(* The handlers.  Seen(k) is what the descriptor field of kind k holds.    *)

Seen(k) == IF buf.as = Layout(k) THEN buf.fd ELSE NoFd

At(t, op) == t \in running /\ Program[job[t].kind][job[t].step] = op
LastSend(t) ==
  \A i \in job[t].step + 1 .. Len(Program[job[t].kind]) : Program[job[t].kind][i] # "send"

(* n steps on, or the end of the task.                                     *)
Advance(t, n) ==
  IF job[t].step + n > Len(Program[job[t].kind])
    THEN Pool!End(t) /\ job' = [job EXCEPT ![t] = NoJob]
    ELSE job' = [job EXCEPT ![t].step = @ + n] /\ UNCHANGED pool

(* An answer written to descriptor f: to the client that owns it, if any.  *)
(* One that has closed may answer with a reset, which drops its input.     *)
Answer(t, f) ==
  LET c == Owner(f)
  IN /\ IF c = Nobody THEN UNCHANGED <<wire, fin, waits, ready>>
        ELSE \/ /\ fin[c] = "no"
                /\ waits' = [waits EXCEPT ![c] = @ /\ ~LastSend(t)]
                /\ wire' = IF job[t].kind \in Acked /\ wire[c] = <<>>
                             THEN [wire EXCEPT ![c] = <<"ack">>] ELSE wire
                /\ IF wire' = wire THEN UNCHANGED ready ELSE Edge(c)
                /\ UNCHANGED fin
             \/ /\ fin[c] # "no"
                /\ UNCHANGED <<wire, fin, waits, ready>>
             \/ /\ fin[c] = "fin" /\ "reset" \in Faults
                /\ fin' = [fin EXCEPT ![c] = "reset"]
                /\ wire' = [wire EXCEPT ![c] = <<>>]
                /\ Edge(c)
                /\ UNCHANGED waits
     /\ UNCHANGED <<conn, fd, asked, backlog>>

StartTask ==
  /\ Pool!Start
  /\ UNCHANGED <<client, registered, ready, main, buf, job, robbed>>

Copy(t) ==
  /\ At(t, "copy")
  /\ job' = [job EXCEPT ![t].step = 2, ![t].fd = Seen(job[t].kind)]
  /\ UNCHANGED <<client, registered, ready, main, buf, pool, robbed>>

(* nPackType, and text in front of where any layout has the descriptor.    *)
Mark(t) ==
  /\ At(t, "mark")
  /\ buf' = [buf EXCEPT !.kind = job[t].kind]
  /\ job' = [u \in Tasks |-> CASE u = t -> [job[t] EXCEPT !.step = 2]
                              [] u \in Used \ {t} -> [job[u] EXCEPT !.clean = FALSE]
                              [] OTHER -> job[u]]
  /\ UNCHANGED <<client, registered, ready, main, pool, robbed>>

(* A file or the web fails and the handler returns without an answer;      *)
(* push_client_current_news writes FAILED into the buffer first.           *)
GiveUp(t) ==
  /\ At(t, "send") /\ job[t].step = 2
  /\ job[t].kind \in {"news", "search", "video", "update"}
  /\ Pool!End(t)
  /\ IF job[t].kind = "news"
       THEN /\ buf' = [buf EXCEPT !.kind = "failed"]
            /\ job' = [u \in Tasks |-> CASE u = t -> NoJob
                                        [] u \in Used \ {t} -> [job[u] EXCEPT !.clean = FALSE]
                                        [] OTHER -> job[u]]
       ELSE /\ job' = [job EXCEPT ![t] = NoJob]
            /\ UNCHANGED buf
  /\ UNCHANGED <<client, registered, ready, main, robbed>>

(* Where a task sends.                                                     *)
Fd(t) == IF job[t].kind \in Copies THEN job[t].fd ELSE Seen(job[t].kind)

SendFile(t) ==
  /\ At(t, "send")
  /\ Answer(t, Fd(t))
  /\ Advance(t, 1)
  /\ UNCHANGED <<registered, main, buf, robbed>>

(* search_old_news goes on to the next file when there is none.            *)
Missing(t) ==
  /\ At(t, "send") /\ job[t].kind = "old"
  /\ Advance(t, 2)
  /\ UNCHANGED <<client, registered, ready, main, buf, robbed>>

(* The read of an acknowledgement, of which only the end is used.          *)
Ack(t) ==
  /\ At(t, "ack")
  /\ LET c == Owner(Seen(job[t].kind)) IN
       \/ /\ c # Nobody => wire[c] = <<>> /\ fin[c] # "no"
          /\ UNCHANGED <<wire, robbed>>
       \/ /\ c # Nobody /\ wire[c] # <<>>
          /\ wire' = [wire EXCEPT ![c] = <<>>]
          /\ robbed' = robbed \cup ({fd[c]} \cap ({cur} \cup {e.fd : e \in batch}))
  /\ Advance(t, 1)
  /\ UNCHANGED <<conn, fd, fin, asked, waits, backlog, registered, ready, main, buf>>

-----------------------------------------------------------------------------
Main ==
  \/ EpollWait \/ BatchDone \/ SkipEvent \/ AcceptClient
  \/ ReadEvent \/ ReadRequest \/ ReadEnd
  \/ HandleRequest \/ HandleDefault \/ AddTask

Handler(t) ==
  \/ Copy(t) \/ Mark(t) \/ GiveUp(t) \/ SendFile(t) \/ Missing(t) \/ Ack(t)

Next ==
  \/ \E c \in Clients : Arrive(c) \/ Close(c) \/ \E k \in Kinds : Send(c, k)
  \/ Main
  \/ StartTask
  \/ \E t \in Tasks : Handler(t)

Spec == Init /\ [][Next]_vars

(* main runs, and so do the handlers; StartTask stands for a pool that     *)
(* leaves no task behind (see ThreadPool, NoStrandedTask).                 *)
FairSpec ==
  /\ Spec
  /\ WF_vars(Main)
  /\ WF_vars(StartTask)
  /\ \A t \in Tasks : WF_vars(Handler(t))

-----------------------------------------------------------------------------
(* Properties.                                                             *)

(* ep_num never undercounts the sockets epoll watches, whatever fails, so  *)
(* that EPOLL_MAX limits them.                                             *)
SlotsCounted == Cardinality(registered) <= ep_num

(* Where the next answer of a running task goes.                           *)
Answering(t) == At(t, "send")
Target(t)    == Owner(Fd(t))

(* While nobody has touched szRecvBuff since the request was queued, the   *)
(* answer goes to the client that asked, also when descriptors are reused. *)
RightIfUndisturbed ==
  \A t \in Tasks : Answering(t) /\ job[t].clean => Target(t) = job[t].by

(* main is never left waiting in read for a client, all others with it,    *)
(* unless a handler has read that client's message in its place.           *)
BlocksOnlyRobbed ==
  mpc = "read" /\ ~Readable(cur) => cur \in robbed

(* A watched socket whose client has closed is closed and its slot freed.  *)
ClosedIsFreed ==
  \A c \in Clients :
    (conn[c] = "open" /\ fd[c] \in registered /\ fin[c] = "fin") ~> conn[c] = "closed"

(* deal_varify_code.c:30, the reply is for the client: no other gets it.   *)
RightReply ==
  \A t \in Tasks : Answering(t) /\ job[t].kind = "varify" =>
    Target(t) \in {job[t].by, Nobody}

(* main.c:74 logs ep_num as the number of connections.                     *)
ConnectingCounted ==
  mpc = "next" => ep_num = Cardinality(registered)
=============================================================================
