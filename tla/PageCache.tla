------------------------------ MODULE PageCache ------------------------------
(***************************************************************************)
(* News pages and pictures kept on disk: search_news_for_client and        *)
(* deal_picture_request, with get_web_response, which fetches a file, and  *)
(* send_text_file and send_binary_file, which send it.                     *)
(*                                                                         *)
(* A file is a sequence of pieces.  A page is fetched into a temporary     *)
(* file, whose text is appended to the cached file through stdio; a        *)
(* picture is fetched into the cached file itself.  The temporary file is  *)
(* opened without truncation and removed at the end, so that two fetches   *)
(* of a page write the same pieces to one file, or, when one is removed,   *)
(* to a file that has no name any more.                                    *)
(*                                                                         *)
(* Grain.  Each fopen, open, remove, write of what recv returned, flush of *)
(* a stdio buffer and turn of a send loop is a step.                       *)
(*                                                                         *)
(* The web, the file system and the clients are external.  A url has its   *)
(* own file here (two with the same last segment share one).               *)
(***************************************************************************)
EXTENDS Naturals, Sequences, FiniteSets

CONSTANTS
  Workers,     \* pool threads
  Pages,       \* pages that may be asked for
  Pictures,    \* pictures that may be asked for
  FileLen,     \* pieces of each
  FilesMax,    \* bound of the model: how many of them come into play; what
               \* is done to one file depends on no other
  BlockLen,    \* pieces in a stdio buffer, and in the buffer of a sender
  Faults       \* the environment events that may happen, see FaultKinds

FaultKinds ==
  { "web",      \* a fetch fails, or ends early
    "short",    \* regular_match finds nothing more before the end of the page
    "sigpipe",  \* the client is gone when the handler writes to it
    "crash" }   \* the process ends; the operator starts it again

ASSUME PageAssumption ==
  /\ IsFiniteSet(Workers)
  /\ Pages \cap Pictures = {} /\ Pages \cup Pictures # {}
  /\ FilesMax \in Nat /\ FileLen \in Nat \ {0} /\ BlockLen \in Nat \ {0}
  /\ Faults \subseteq FaultKinds

Files  == Pages \cup Pictures
Pieces == 1 .. FileLen
Whole  == [i \in Pieces |-> i]
NoFile == <<0>>              \* not the contents of any file
NoTemp == FileLen + 1        \* not the length of any file

VARIABLES
  up,        \* the process runs
  store,     \* Txt/ and Jpg/: the contents of the cached file, or NoFile
  temp,      \* the length of a page's temporary file, or NoTemp
  pc, job,   \* per worker: where it is, its handler's locals
  hurt,      \* history: files that were not filled to the end
  mixed,     \* history: files filled by a handler while another was at it
  litter     \* history: pages whose temporary file was left behind

history == <<hurt, mixed, litter>>
vars    == <<up, store, temp, pc, job, history>>

PCs == {"idle", "dead", "begin", "fetch", "download", "open", "append", "flush",
        "reopen", "head", "send", "spin", "sent", "remove"}

(* file: what is asked for.  fetched: it was not cached.  pos: pieces      *)
(* downloaded, or flushed.  linked: the temporary file it writes still has *)
(* its name.  text: pieces of text to write.  declared, got: nFileLen and  *)
(* what has been sent.  solo is history: no other request for the file ran *)
(* meanwhile.                                                              *)
NoJob == [file |-> CHOOSE f \in Files : TRUE, fetched |-> FALSE, pos |-> 0,
          linked |-> FALSE, text |-> 0, declared |-> 0, got |-> <<>>, solo |-> FALSE]

MaxLen == FileLen * Cardinality(Workers)

TypeOK ==
  /\ up \in BOOLEAN
  /\ \A f \in Files : store[f] = NoFile \/
       (store[f] \in Seq(Pieces) /\ Len(store[f]) <= IF f \in Pages THEN MaxLen ELSE FileLen)
  /\ temp \in [Pages -> 0 .. NoTemp]
  /\ pc \in [Workers -> PCs]
  /\ \A w \in Workers :
       /\ job[w].file \in Files
       /\ job[w].pos \in 0 .. FileLen /\ job[w].text \in 0 .. FileLen
       /\ job[w].declared \in 0 .. MaxLen
       /\ job[w].got \in Seq(Pieces)
  /\ hurt \subseteq Files
  /\ mixed \subseteq Files
  /\ litter \subseteq Pages

Init ==
  /\ up = TRUE
  /\ store = [f \in Files |-> NoFile]
  /\ temp = [f \in Pages |-> NoTemp]
  /\ pc = [w \in Workers |-> "idle"]
  /\ job = [w \in Workers |-> NoJob]
  /\ hurt = {} /\ mixed = {} /\ litter = {}

At(w, l)      == up /\ pc[w] = l
Goto(w, l, j) == /\ pc' = [pc EXCEPT ![w] = l]
                 /\ job' = [job EXCEPT ![w] = j]
                 /\ UNCHANGED up
Leave(w)      == Goto(w, "idle", NoJob)

File(w)   == job[w].file
Text(w)   == File(w) \in Pages
Cached(f) == store[f] # NoFile
Asks(w, f) == pc[w] \notin {"idle", "dead"} /\ File(w) = f

(* Between fopen of the cached file, which was not there, and the end of   *)
(* filling it.                                                             *)
Filling(w) == pc[w] \in {"fetch", "download", "open", "append", "flush"}

(* What a step that fills w's file means for the history.                  *)
Fills(w, short) ==
  /\ hurt' = IF short THEN hurt \cup {File(w)} ELSE hurt
  /\ mixed' = IF \E v \in Workers \ {w} : Filling(v) /\ File(v) = File(w)
                THEN mixed \cup {File(w)} ELSE mixed
  /\ UNCHANGED litter

-----------------------------------------------------------------------------
(* The handler starts: fopen of the cached file.                           *)
InPlay(g) == Cached(g) \/ (g \in Pages /\ temp[g] # NoTemp) \/ \E v \in Workers : Asks(v, g)

Request(w, f) ==
  /\ At(w, "idle")
  /\ Cardinality({g \in Files : InPlay(g)} \cup {f}) <= FilesMax
  /\ pc' = [pc EXCEPT ![w] = "begin"]
  /\ job' = [v \in Workers |->
               IF v = w THEN [NoJob EXCEPT !.file = f, !.solo = \A u \in Workers : ~Asks(u, f)]
               ELSE [job[v] EXCEPT !.solo = @ /\ ~Asks(v, f)]]
  /\ UNCHANGED <<up, store, temp, history>>

HitIfWhole(f) == store[f] = Whole                                 \* mutant
Hit(f)        == Cached(f)

Begin(w) ==
  /\ At(w, "begin")
  /\ IF Hit(File(w)) THEN Goto(w, "head", job[w])
                     ELSE Goto(w, "fetch", [job[w] EXCEPT !.fetched = TRUE])
  /\ UNCHANGED <<store, temp, history>>

(* No answer from the web: a page gets no reply, a picture an error.       *)
FetchFails(w) ==
  /\ "web" \in Faults
  /\ At(w, "fetch")
  /\ Leave(w)
  /\ UNCHANGED <<store, temp, history>>

(* get_web_response: the first answer, and the open of the file.           *)
FetchOpen(w) ==
  /\ At(w, "fetch")
  /\ Goto(w, "download", [job[w] EXCEPT !.linked = TRUE])
  /\ IF Text(w)
       THEN /\ temp' = [temp EXCEPT ![File(w)] = IF @ = NoTemp THEN 0 ELSE @]
            /\ UNCHANGED <<store, history>>
       ELSE /\ store' = [store EXCEPT ![File(w)] = IF @ = NoFile THEN <<>> ELSE @]
            /\ Fills(w, FALSE)
            /\ UNCHANGED temp

(* A write of what came, at the writer's own offset.                       *)
Download(w) ==
  /\ At(w, "download")
  /\ job[w].pos < FileLen
  /\ LET n == job[w].pos + 1 IN
       /\ Goto(w, "download", [job[w] EXCEPT !.pos = n])
       /\ IF Text(w)
            THEN /\ temp' = IF job[w].linked /\ n > temp[File(w)]
                              THEN [temp EXCEPT ![File(w)] = n] ELSE temp
                 /\ UNCHANGED <<store, history>>
            ELSE /\ store' = IF n > Len(store[File(w)])
                               THEN [store EXCEPT ![File(w)] = Append(@, n)] ELSE store
                 /\ Fills(w, FALSE)
                 /\ UNCHANGED temp

(* The end of the answer, be it the end of the file or not.                *)
Downloaded(w) ==
  /\ At(w, "download")
  /\ job[w].pos = FileLen \/ "web" \in Faults
  /\ Goto(w, IF Text(w) THEN "open" ELSE "reopen", job[w])
  /\ Fills(w, job[w].pos < FileLen)
  /\ UNCHANGED <<store, temp>>

-----------------------------------------------------------------------------
(* search_news_for_client with a page it has fetched.                      *)

(* open by name and mmap: nothing to map without the file, or when it is   *)
(* empty.                                                                  *)
Open(w) ==
  /\ At(w, "open")
  /\ Goto(w, "append", [job[w] EXCEPT
            !.text = IF temp[File(w)] = NoTemp THEN 0 ELSE temp[File(w)]])
  /\ UNCHANGED <<store, temp, history>>

(* fopen with "a+" creates the cached file; then the first match reads the *)
(* mapping.                                                                *)
CreateCached(w) == store' = [store EXCEPT ![File(w)] = IF @ = NoFile THEN <<>> ELSE @]

AppendOpen(w) ==
  /\ At(w, "append") /\ job[w].text > 0
  /\ CreateCached(w)
  /\ \E n \in 1 .. job[w].text :
       /\ n < job[w].text => "short" \in Faults
       /\ Goto(w, "flush", [job[w] EXCEPT !.text = n, !.pos = 0])
       /\ Fills(w, n < FileLen)
  /\ UNCHANGED temp

(* The process ends, whatever its threads are doing.                       *)
Stop(lost) ==
  /\ up' = FALSE
  /\ hurt' = hurt \cup lost \cup
       {f \in Files : \E w \in Workers : /\ File(w) = f
                                        /\ \/ pc[w] = "flush"
                                           \/ pc[w] = "download" /\ f \in Pictures}
  /\ litter' = {f \in Pages : temp[f] # NoTemp}
  /\ pc' = [w \in Workers |-> "idle"]
  /\ job' = [w \in Workers |-> NoJob]
  /\ UNCHANGED mixed

AppendCrash(w) ==
  /\ At(w, "append") /\ job[w].text = 0
  /\ CreateCached(w)
  /\ Stop({File(w)})
  /\ UNCHANGED temp

(* stdio hands over whole blocks, and fclose the rest.                     *)
Rewritten(old, new) == new                                        \* mutant
Appended(old, new)  == old \o new

Flush(w) ==
  /\ At(w, "flush")
  /\ LET from == job[w].pos
         to   == IF from + BlockLen < job[w].text THEN from + BlockLen ELSE job[w].text
     IN /\ store' = [store EXCEPT ![File(w)] =
                       Appended(@, [i \in 1 .. to - from |-> from + i])]
        /\ IF to = job[w].text
             THEN Goto(w, "reopen", [job[w] EXCEPT !.pos = 0, !.text = 0])
             ELSE Goto(w, "flush", [job[w] EXCEPT !.pos = to])
  /\ Fills(w, FALSE)
  /\ UNCHANGED temp

Reopen(w) ==
  /\ At(w, "reopen")
  /\ Goto(w, "head", [job[w] EXCEPT !.pos = 0])
  /\ UNCHANGED <<store, temp, history>>

-----------------------------------------------------------------------------
(* send_text_file and send_binary_file: the length by ftell, then blocks;  *)
(* a text ends when exactly nFileLen have been sent, a picture when there  *)
(* is nothing more to read.                                                *)

TellLong(f)  == Len(store[f]) + 1                                 \* mutant
TellShort(f) == Len(store[f]) - 1                                 \* mutant
Tell(f)      == Len(store[f])

SendHead(w) ==
  /\ At(w, "head")
  /\ Goto(w, "send", [job[w] EXCEPT !.declared = Tell(File(w))])
  /\ UNCHANGED <<store, temp, history>>

Block(s, n) == SubSeq(s, n + 1, IF n + BlockLen < Len(s) THEN n + BlockLen ELSE Len(s))

SendBlock(w) ==
  /\ At(w, "send")
  /\ LET block == Block(store[File(w)], Len(job[w].got))
         j     == [job[w] EXCEPT !.got = @ \o block]
     IN Goto(w, CASE Text(w) /\ Len(j.got) = j.declared -> "sent"
                  [] Text(w) /\ Len(j.got) # j.declared /\ block = <<>> -> "spin"
                  [] ~Text(w) /\ block = <<>> -> "sent"
                  [] OTHER -> "send",
             j)
  /\ UNCHANGED <<store, temp, history>>

(* handle_pipe ends the thread inside a write.                             *)
SendSigPipe(w) ==
  /\ "sigpipe" \in Faults
  /\ \/ At(w, "head") \/ At(w, "send")
     \/ At(w, "fetch") /\ ~Text(w) /\ "web" \in Faults
  /\ Goto(w, "dead", NoJob)
  /\ litter' = IF Text(w) /\ job[w].fetched /\ temp[File(w)] # NoTemp
                 THEN litter \cup {File(w)} ELSE litter
  /\ UNCHANGED <<store, temp, hurt, mixed>>

(* After its own fetch of a page a handler removes the temporary file,     *)
(* whoever writes or is about to open it.                                  *)
Unremoved(f) == UNCHANGED temp                                    \* mutant
Removed(f)   == temp' = [temp EXCEPT ![f] = NoTemp]

End(w) ==
  /\ At(w, "sent")
  /\ IF Text(w) /\ job[w].fetched
       THEN /\ Removed(File(w))
            /\ pc' = [pc EXCEPT ![w] = "idle"]
            /\ job' = [v \in Workers |->
                 IF v = w THEN NoJob
                 ELSE [job[v] EXCEPT !.linked = @ /\ File(v) # File(w)]]
            /\ UNCHANGED up
       ELSE Leave(w) /\ UNCHANGED temp
  /\ UNCHANGED <<store, history>>

Crash ==
  /\ "crash" \in Faults /\ up
  /\ Stop({})
  /\ UNCHANGED <<store, temp>>

Restart ==
  /\ ~up /\ up' = TRUE
  /\ UNCHANGED <<store, temp, pc, job, history>>

-----------------------------------------------------------------------------
Step(w) ==
  \/ Begin(w) \/ FetchFails(w) \/ FetchOpen(w) \/ Download(w) \/ Downloaded(w)
  \/ Open(w) \/ AppendOpen(w) \/ AppendCrash(w) \/ Flush(w) \/ Reopen(w)
  \/ SendHead(w) \/ SendBlock(w) \/ End(w)

Next ==
  \/ \E w \in Workers : Step(w) \/ SendSigPipe(w) \/ \E f \in Files : Request(w, f)
  \/ Crash \/ Restart

Spec == Init /\ [][Next]_vars

-----------------------------------------------------------------------------
(* Properties.                                                             *)

(* search_news_operation.c:28-104 and deal_news_request_operation.c:80-131 *)
(* leave a file in the cache that is the whole file, once, unless it was   *)
(* cut short or two handlers that had not found it filled it: a handler    *)
(* that finds half of it there never adds to it.                           *)
CachedOnce ==
  \A f \in Files \ (hurt \cup mixed) :
    store[f] \in {NoFile, Whole} \/ \E w \in Workers : Filling(w) /\ File(w) = f

(* search_news_operation.c:70-103: handlers that fill one page together    *)
(* may cross their blocks, but lose none of each other's: when they are    *)
(* done every piece is there as many times.                                *)
Count(s, i) == Cardinality({k \in DOMAIN s : s[k] = i})
NothingLost ==
  \A f \in Pages \ hurt :
    \/ store[f] = NoFile
    \/ \E w \in Workers : pc[w] = "flush" /\ File(w) = f
    \/ \A i \in Pieces : Count(store[f], i) = Count(store[f], 1)

(* send_file_operation.c:12-120: as long as one handler fills a file,      *)
(* every reply is a beginning of it, and a text as long as its header      *)
(* says, even while the file is being filled; the reply to a request that  *)
(* had the file to itself is the whole file.                               *)
RepliesSound ==
  \A w \in Workers : pc[w] = "sent" /\ File(w) \notin hurt \cup mixed =>
    /\ job[w].got = SubSeq(Whole, 1, Len(job[w].got))
    /\ Text(w) => Len(job[w].got) = job[w].declared
    /\ job[w].solo => job[w].got = Whole /\ job[w].declared = FileLen

(* send_file_operation.c:54 and search_news_operation.c:61-77: only when   *)
(* another request for the same page ran meanwhile does a thread hang in   *)
(* the send loop, or map less than it has fetched.  (Without any text in   *)
(* what it fetched, a request alone ends the process too: AppendCrash.)    *)
UndisturbedServed ==
  \A w \in Workers : job[w].solo =>
    /\ pc[w] # "spin"
    /\ pc[w] = "append" => job[w].text >= job[w].pos

(* search_news_operation.c:112: a temporary file is there only while a     *)
(* handler will still remove it, or one died or was stopped before it did; *)
(* a handler never makes one that another's remove should have taken.      *)
TempRemoved ==
  \A f \in Pages \ litter : temp[f] # NoTemp =>
    \E w \in Workers : /\ File(w) = f /\ job[w].fetched
                       /\ pc[w] \notin {"idle", "dead", "begin", "fetch"}
=============================================================================
