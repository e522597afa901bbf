------------------------------ MODULE NewsIndex ------------------------------
(***************************************************************************)
(* The index of known news and the title files of the day.  Every thread   *)
(* that runs update_all_news - pool workers for clients, and the updater   *)
(* thread of thread_time_update_func - matches the items of a page, looks  *)
(* each one up in the global hash table, pushes it if it is new and writes *)
(* it to the day's file.  On a new day the updater destroys the table.     *)
(* Nothing is locked.                                                      *)
(*                                                                         *)
(* Grain: one read or write of a link of a chain is a step.  Cells of the  *)
(* heap are not used again, so that every access through a stale pointer   *)
(* meets a freed cell; such an access, like any undefined behaviour, may   *)
(* do anything, and the model stops there (phase "undefined").  The two    *)
(* title files (Txt and Jpg) are one, and a page is the items the regular  *)
(* expressions find in it.  A line goes to the stdio buffer of the thread  *)
(* that prints it, and to the file when the buffer is full, is flushed by  *)
(* send_text_file's fseek, or is closed.                                   *)
(***************************************************************************)
EXTENDS Integers, Sequences, FiniteSets

CONSTANTS
  Urls,
  HashLen,      \* HASH_LEN
  Hash,         \* Urls -> buckets
  BatchMax,     \* length of hash_del's array, 5
  Workers,      \* pool threads that update for clients
  Updater,      \* the updater thread
  PageMax,      \* bound of the model: new items of a page
  UpdateMax,    \* bound of the model: updates
  Calendar,     \* bound of the model: the days, in order, as <<month, day>>
  RestartMax,   \* bound of the model: restarts
  Blacklist,    \* urls add_blacklist.sh removes from the file
  SigPipe       \* a client may be gone when it is sent the files

ASSUME IndexAssumption ==
  /\ Urls # {}
  /\ HashLen \in Nat \ {0} /\ BatchMax \in Nat \ {0}
  /\ Hash \in [Urls -> 0 .. HashLen - 1]
  /\ Updater \notin Workers
  /\ PageMax \in Nat /\ UpdateMax \in Nat /\ RestartMax \in Nat
  /\ Calendar \in Seq((1 .. 12) \X (1 .. 31)) /\ Calendar # <<>>
  /\ Blacklist \subseteq Urls
  /\ SigPipe \in BOOLEAN

Procs   == Workers \cup {Updater}
Buckets == 0 .. HashLen - 1
Cells   == 1 .. PageMax * (UpdateMax + 1)
Null    == 0                       \* no cell; as a slot, the head of the bucket
Days    == 1 .. Len(Calendar)
Blank   == <<>>                    \* pGblCurTextFile between memset and sprintf

(* The file name of a day: its numbers one after the other, not padded.    *)
Decimal(n) == IF n < 10 THEN <<n>> ELSE <<n \div 10, n % 10>>
Title(d)   == Decimal(Calendar[d][1]) \o Decimal(Calendar[d][2])
Titles     == {Title(d) : d \in Days}

VARIABLES
  table,      \* the bucket heads
  heap,       \* per cell
  name,       \* pGblCurTextFile
  date,       \* the day of the clock
  created,    \* title files that exist
  saved,      \* per title file and url: its lines, up to 2
  out,        \* per thread and url: lines in the buffer of its file, up to 2
  lost,       \* history: urls whose line went to a file that sed had replaced,
              \* or died in the buffer of a thread that SIGPIPE ended
  pc,
  url, ptr,   \* per thread: the item, and thash, *tthash or xhash
  new,        \* per thread: the cell it links
  file,       \* per thread: the title file it has open, Blank if replaced
  left,       \* per thread: items its page still has
  bucket, arr,         \* destroy_hash_table: i and the array of cells to free
  updates, restarts,   \* counters of the bounds
  phase

globals == <<name, date, created>>
files   == <<saved, out, lost>>
counts  == <<updates, restarts>>
destroy == <<bucket, arr>>
vars    == <<table, heap, globals, files, pc, url, ptr, new, file, left, destroy,
             counts, phase>>

AnyUrl  == CHOOSE u \in Urls : TRUE
NoLines == [u \in Urls |-> 0]
Free   == [st |-> "unused", url |-> AnyUrl, next |-> Null]

TypeOK ==
  /\ table \in [Buckets -> Cells \cup {Null}]
  /\ heap \in [Cells -> [st : {"unused", "live", "freed"}, url : Urls,
                         next : Cells \cup {Null}]]
  /\ name \in Titles \cup {Blank} /\ date \in Days /\ created \subseteq Titles
  /\ saved \in [Titles -> [Urls -> 0 .. 2]]
  /\ out \in [Procs -> [Urls -> 0 .. 2]]
  /\ lost \subseteq Urls
  /\ pc \in [Procs -> {"idle", "stamp", "check", "destroy", "collect", "reset", "open",
                       "match", "head", "compare", "alloc", "walk", "link", "write",
                       "close", "blacklist"}]
  /\ url \in [Procs -> Urls]
  /\ ptr \in [Procs -> Cells \cup {Null}]
  /\ new \in [Procs -> Cells \cup {Null}]
  /\ file \in [Procs -> Titles \cup {Blank}]
  /\ left \in [Procs -> 0 .. PageMax]
  /\ bucket \in 0 .. HashLen
  /\ arr \in Seq(Cells) /\ Len(arr) <= BatchMax
  /\ updates \in 0 .. UpdateMax /\ restarts \in 0 .. RestartMax
  /\ phase \in {"run", "undefined"}

Init ==
  /\ table = [b \in Buckets |-> Null]
  /\ heap = [c \in Cells |-> Free]
  /\ name = Blank /\ date = 1 /\ created = {}
  /\ saved = [f \in Titles |-> NoLines]
  /\ out = [p \in Procs |-> NoLines]
  /\ lost = {}
  /\ pc = [p \in Procs |-> "idle"]
  /\ url = [p \in Procs |-> AnyUrl]
  /\ ptr = [p \in Procs |-> Null] /\ new = [p \in Procs |-> Null]
  /\ file = [p \in Procs |-> Blank] /\ left = [p \in Procs |-> 0]
  /\ bucket = 0 /\ arr = <<>>
  /\ updates = 0 /\ restarts = 0
  /\ phase = "run"

At(p, l)   == phase = "run" /\ pc[p] = l
Goto(p, l) == pc' = [pc EXCEPT ![p] = l]

(* An access through a pointer that is not valid.                          *)
Undefined ==
  /\ phase' = "undefined"
  /\ UNCHANGED <<table, heap, globals, files, pc, url, ptr, new, file, left, destroy,
                 counts>>

Live(c) == heap[c].st = "live"

-----------------------------------------------------------------------------
(* The clock, and a crash after which the operator starts the server again.*)

NewDay ==
  /\ date < Len(Calendar)
  /\ date' = date + 1
  /\ UNCHANGED <<table, heap, name, created, files, pc, url, ptr, new, file, left,
                 destroy, counts, phase>>

(* A start of the process: hash_init, the globals zero.  Nothing reads the *)
(* title files into the table: collect_string_into_hash has no caller.     *)
Restart ==
  /\ restarts < RestartMax
  /\ restarts' = restarts + 1
  /\ table' = [b \in Buckets |-> Null]
  /\ heap' = [c \in Cells |-> Free]
  /\ name' = Blank
  /\ pc' = [p \in Procs |-> "idle"]
  /\ url' = [p \in Procs |-> AnyUrl]
  /\ ptr' = [p \in Procs |-> Null] /\ new' = [p \in Procs |-> Null]
  /\ file' = [p \in Procs |-> Blank] /\ left' = [p \in Procs |-> 0]
  /\ out' = [p \in Procs |-> NoLines]
  /\ bucket' = 0 /\ arr' = <<>>
  /\ phase' = "run"
  /\ UNCHANGED <<date, created, saved, lost, updates>>

-----------------------------------------------------------------------------
(* thread_time_update_func.                                                *)

(* memset of the names, then sprintf with the day of the clock.            *)
Wake ==
  /\ At(Updater, "idle") /\ updates < UpdateMax
  /\ updates' = updates + 1
  /\ name' = Blank
  /\ Goto(Updater, "stamp")
  /\ UNCHANGED <<table, heap, date, created, files, url, ptr, new, file, left,
                 destroy, restarts, phase>>

Stamp ==
  /\ At(Updater, "stamp")
  /\ name' = Title(date)
  /\ Goto(Updater, "check")
  /\ UNCHANGED <<table, heap, date, created, files, url, ptr, new, file, left,
                 destroy, counts, phase>>

(* No title file yet means a new day.                                      *)
Check ==
  /\ At(Updater, "check")
  /\ Goto(Updater, IF name \in created THEN "open" ELSE "destroy")
  /\ UNCHANGED <<table, heap, globals, files, url, ptr, new, file, left, destroy,
                 counts, phase>>

(* destroy_hash_table collects the cells of a chain in an array and frees  *)
(* them when it is full and at the end of the chain.                       *)
DestroyBucket ==
  /\ At(Updater, "destroy")
  /\ IF bucket = HashLen
       THEN Goto(Updater, "reset") /\ UNCHANGED <<bucket, ptr>>
       ELSE IF table[bucket] = Null
       THEN bucket' = bucket + 1 /\ UNCHANGED <<pc, ptr>>
       ELSE /\ ptr' = [ptr EXCEPT ![Updater] = table[bucket]]
            /\ Goto(Updater, "collect")
            /\ UNCHANGED bucket
  /\ UNCHANGED <<table, heap, globals, files, url, new, file, left, arr, counts,
                 phase>>

Collected == {arr[k] : k \in DOMAIN arr}

NotLastFreed == {arr[k] : k \in 1 .. Len(arr) - 1}                \* mutant
Freed        == Collected

LateFlush(x) == Len(arr) > BatchMax \/ x = Null                  \* mutant
Flush(x)     == Len(arr) = BatchMax \/ x = Null

Collect ==
  /\ At(Updater, "collect")
  /\ LET x == ptr[Updater] IN
     /\ heap' = IF Flush(x)
                  THEN [c \in Cells |-> IF c \in Freed
                                          THEN [Free EXCEPT !.st = "freed"] ELSE heap[c]]
                  ELSE heap
     /\ IF x = Null
          THEN /\ arr' = <<>>
               /\ bucket' = bucket + 1
               /\ Goto(Updater, "destroy")
               /\ UNCHANGED ptr
          ELSE /\ arr' = Append(IF Flush(x) THEN <<>> ELSE arr, x)
               /\ ptr' = [ptr EXCEPT ![Updater] = heap[x].next]
               /\ UNCHANGED <<pc, bucket>>
  /\ UNCHANGED <<table, globals, files, url, new, file, left, counts, phase>>

HeadsKept == table                                                \* mutant
NoHeads   == [b \in Buckets |-> Null]

DestroyReset ==
  /\ At(Updater, "reset")
  /\ table' = NoHeads
  /\ bucket' = 0
  /\ Goto(Updater, "open")
  /\ UNCHANGED <<heap, globals, files, url, ptr, new, file, left, arr, counts, phase>>

(* system("./script/add_blacklist.sh ..."): sed -i writes a new file in    *)
(* the place of the old one; who has that open writes to nothing.          *)
RunBlacklist ==
  /\ At(Updater, "blacklist")
  /\ saved' = [saved EXCEPT ![name] =
                 [u \in Urls |-> IF u \in Blacklist THEN 0 ELSE @[u]]]
  /\ file' = [p \in Procs |-> IF file[p] = name THEN Blank ELSE file[p]]
  /\ Goto(Updater, "idle")
  /\ UNCHANGED <<table, heap, globals, out, lost, url, ptr, new, left, destroy, counts,
                 phase>>

-----------------------------------------------------------------------------
(* update_all_news.                                                        *)

(* A client asks for an update.  (When nothing came from the web server    *)
(* the function returns early, as if this had not happened.)               *)
Request(w) ==
  /\ At(w, "idle") /\ updates < UpdateMax
  /\ updates' = updates + 1
  /\ Goto(w, "open")
  /\ UNCHANGED <<table, heap, globals, files, url, ptr, new, file, left, destroy,
                 restarts, phase>>

(* fopen(pGblCurTextFile, "a+"), not tested; then the first loop, whose    *)
(* counter is not initialised: it makes any number of turns.               *)
Open(p) ==
  /\ At(p, "open")
  /\ name # Blank
  /\ file' = [file EXCEPT ![p] = name]
  /\ created' = created \cup {name}
  /\ \E n \in 0 .. PageMax : left' = [left EXCEPT ![p] = n]
  /\ Goto(p, "match")
  /\ UNCHANGED <<table, heap, name, date, files, url, ptr, new, destroy, counts,
                 phase>>

OpenBlank(p) ==
  /\ At(p, "open") /\ name = Blank
  /\ Undefined

(* regular_match finds an item, or none any more; it returns the place in  *)
(* the page to go on from.                                                 *)
StayedAt(n) == n                                                  \* mutant
GoneOn(n)   == n - 1

Match(p) ==
  /\ At(p, "match") /\ left[p] > 0
  /\ \E u \in Urls : url' = [url EXCEPT ![p] = u]
  /\ left' = [left EXCEPT ![p] = GoneOn(@)]
  /\ Goto(p, "head")
  /\ UNCHANGED <<table, heap, globals, files, ptr, new, file, destroy, counts, phase>>

MatchEnds(p) ==
  /\ At(p, "match") /\ left[p] = 0
  /\ Goto(p, "close")
  /\ UNCHANGED <<table, heap, globals, files, url, ptr, new, file, left, destroy,
                 counts, phase>>

(* hash_search.                                                            *)
SearchHead(p) ==
  /\ At(p, "head")
  /\ ptr' = [ptr EXCEPT ![p] = table[Hash[url[p]]]]
  /\ Goto(p, "compare")
  /\ UNCHANGED <<table, heap, globals, files, url, new, file, left, destroy, counts,
                 phase>>

FoundNothing(p) == FALSE                                          \* mutant
Found(p)        == heap[ptr[p]].url = url[p]

Compare(p) ==
  /\ At(p, "compare")
  /\ IF ptr[p] = Null
       THEN Goto(p, "alloc") /\ UNCHANGED ptr
       ELSE /\ Live(ptr[p])
            /\ IF Found(p)
                 THEN Goto(p, "match") /\ ptr' = [ptr EXCEPT ![p] = Null]
                 ELSE ptr' = [ptr EXCEPT ![p] = heap[@].next] /\ UNCHANGED pc
  /\ UNCHANGED <<table, heap, globals, files, url, new, file, left, destroy, counts,
                 phase>>

(* The rest of hash_push: the new cell, the walk to the end of the chain,  *)
(* the store of the link.                                                  *)
Alloc(p) ==
  /\ At(p, "alloc")
  /\ \E c \in Cells :
       /\ heap[c].st = "unused" /\ \A d \in Cells : heap[d].st = "unused" => c <= d
       /\ heap' = [heap EXCEPT ![c] = [st |-> "live", url |-> url[p], next |-> Null]]
       /\ new' = [new EXCEPT ![p] = c]
  /\ Goto(p, "walk")
  /\ UNCHANGED <<table, globals, files, url, ptr, file, left, destroy, counts, phase>>

Deref(p) == IF ptr[p] = Null THEN table[Hash[url[p]]] ELSE heap[ptr[p]].next

Walk(p) ==
  /\ At(p, "walk")
  /\ ptr[p] # Null => Live(ptr[p])
  /\ IF Deref(p) = Null
       THEN Goto(p, "link") /\ UNCHANGED ptr
       ELSE ptr' = [ptr EXCEPT ![p] = Deref(p)] /\ UNCHANGED pc
  /\ UNCHANGED <<table, heap, globals, files, url, new, file, left, destroy, counts,
                 phase>>

PushLast(p) ==
  IF ptr[p] = Null
    THEN table' = [table EXCEPT ![Hash[url[p]]] = new[p]] /\ UNCHANGED heap
    ELSE heap' = [heap EXCEPT ![ptr[p]].next = new[p]] /\ UNCHANGED table

Link(p) ==
  /\ At(p, "link")
  /\ ptr[p] # Null => Live(ptr[p])
  /\ PushLast(p)
  /\ ptr' = [ptr EXCEPT ![p] = Null]
  /\ new' = [new EXCEPT ![p] = Null]
  /\ Goto(p, "write")
  /\ UNCHANGED <<globals, files, url, file, left, destroy, counts, phase>>

(* The chain that is followed has been freed.                              *)
FreedUsed(p) ==
  /\ phase = "run"
  /\ pc[p] \in {"compare", "walk", "link"}
  /\ ptr[p] # Null
  /\ ~Live(ptr[p])
  /\ Undefined

(* What leaves the buffer goes to the file.                                *)
NotWritten(n, m) == n                                             \* mutant
Written(n, m)    == IF n + m > 2 THEN 2 ELSE n + m

Output(p, lines) ==
  IF file[p] = Blank
    THEN lost' = lost \cup {u \in Urls : lines[u] > 0} /\ UNCHANGED saved
    ELSE /\ saved' = [saved EXCEPT ![file[p]] =
                        [u \in Urls |-> Written(@[u], lines[u])]]
         /\ UNCHANGED lost

(* The fprintf of the item, after a push that returned 1; the buffer may   *)
(* be full by then.                                                        *)
Write(p) ==
  /\ At(p, "write")
  /\ LET lines == [out[p] EXCEPT ![url[p]] = IF @ = 2 THEN 2 ELSE @ + 1] IN
       \/ /\ out' = [out EXCEPT ![p] = lines]
          /\ UNCHANGED <<saved, lost>>
       \/ /\ out' = [out EXCEPT ![p] = NoLines]
          /\ Output(p, lines)
  /\ Goto(p, "match")
  /\ UNCHANGED <<table, heap, globals, url, ptr, new, file, left, destroy, counts, phase>>

(* send_text_file to the client, then fclose of both files.                *)
CloseFile(p) ==
  /\ At(p, "close")
  /\ Output(p, out[p])
  /\ out' = [out EXCEPT ![p] = NoLines]
  /\ file' = [file EXCEPT ![p] = Blank]
  /\ url' = [url EXCEPT ![p] = AnyUrl]
  /\ Goto(p, IF p = Updater THEN "blacklist" ELSE "idle")
  /\ UNCHANGED <<table, heap, globals, ptr, new, left, destroy, counts, phase>>

(* The client is gone: handle_pipe ends the thread inside the first of the *)
(* two send_text_file; the lines of the second file stay in its buffer.    *)
(* (The manager will make another thread: the place is free again.)        *)
SendSigPipe(p) ==
  /\ SigPipe /\ p # Updater /\ At(p, "close")
  /\ \E stay \in SUBSET Urls :
       LET lines == [u \in Urls |-> IF u \in stay THEN 0 ELSE out[p][u]]
           dies  == {u \in stay : out[p][u] > 0}
       IN /\ stay = dies
          /\ saved' = IF file[p] = Blank THEN saved
                      ELSE [saved EXCEPT ![file[p]] =
                              [u \in Urls |-> Written(@[u], lines[u])]]
          /\ lost' = lost \cup dies
                          \cup {u \in Urls : file[p] = Blank /\ lines[u] > 0}
  /\ out' = [out EXCEPT ![p] = NoLines]
  /\ file' = [file EXCEPT ![p] = Blank]
  /\ url' = [url EXCEPT ![p] = AnyUrl]
  /\ Goto(p, "idle")
  /\ UNCHANGED <<table, heap, globals, ptr, new, left, destroy, counts, phase>>

-----------------------------------------------------------------------------
UpdateStep(p) ==
  \/ Open(p) \/ OpenBlank(p) \/ Match(p) \/ MatchEnds(p)
  \/ SearchHead(p) \/ Compare(p) \/ Alloc(p) \/ Walk(p) \/ Link(p) \/ FreedUsed(p)
  \/ Write(p) \/ CloseFile(p)

UpdaterStep ==
  Stamp \/ Check \/ DestroyBucket \/ Collect \/ DestroyReset \/ RunBlacklist

Next ==
  \/ NewDay \/ Restart \/ Wake
  \/ \E w \in Workers : Request(w) \/ SendSigPipe(w)
  \/ UpdaterStep
  \/ \E p \in Procs : UpdateStep(p)

Spec == Init /\ [][Next]_vars

(* A thread in the middle of an update keeps running.                      *)
FairSpec == Spec /\ WF_vars(UpdaterStep) /\ \A p \in Procs : WF_vars(UpdateStep(p))

-----------------------------------------------------------------------------
(* Properties.                                                             *)

(* The k-th cell of a chain.  One that has a cell after as many as there   *)
(* are is a cycle.                                                         *)
CellCount == PageMax * (UpdateMax + 1)
Chain(b) ==
  LET cell[k \in 1 .. CellCount + 1] ==
        IF k = 1 THEN table[b]
        ELSE IF cell[k - 1] = Null THEN Null ELSE heap[cell[k - 1]].next
  IN cell
CellsOf(b) == {Chain(b)[k] : k \in 1 .. CellCount + 1} \ {Null}
Indexed    == UNION {CellsOf(b) : b \in Buckets}

(* Between destroy_hash_table's first free and its reset of the heads the  *)
(* table must not be looked at.                                            *)
Destroying == pc[Updater] \in {"destroy", "collect", "reset"}

(* A chain ends, holds live cells of its own bucket only, and shares none, *)
(* whoever pushes at the same time: nobody loops in it for ever, and no    *)
(* search misses an item for being in the wrong bucket.                    *)
ChainsSound ==
  phase = "run" /\ ~Destroying =>
    \A b \in Buckets :
      /\ Chain(b)[CellCount + 1] = Null
      /\ \A c \in CellsOf(b) : Live(c) /\ Hash[heap[c].url] = b

(* destroy_hash_table and hash_push by one thread neither lose a cell nor  *)
(* free one that is in the table.                                          *)
NoLeak ==
  phase = "run" /\ pc[Updater] \notin {"destroy", "collect", "reset"} =>
    {c \in Cells : Live(c)} = Indexed \cup ({new[Updater]} \ {Null})

(* One updater, no restart: at rest the index is the title file of the     *)
(* day, each item once, but for the blacklisted, through any change of     *)
(* days, unless an earlier or a later day has the same title.              *)
OwnTitle(f) == Cardinality({d \in Days : Title(d) = f}) = 1

IndexIsFile ==
  phase = "run" /\ At(Updater, "idle") /\ OwnTitle(name) =>
    \A u \in Urls :
      /\ Cardinality({c \in Indexed : heap[c].url = u}) <= 1
      /\ u \notin Blacklist =>
           saved[name][u] = Cardinality({c \in Indexed : heap[c].url = u})

(* An item in the index will not be written again; then it has been saved, *)
(* or is on its way in a living thread or its buffer.  Only a file that    *)
(* sed has replaced, or a thread that SIGPIPE has ended, loses one.        *)
IndexedIsSaved ==
  phase = "run" /\ ~Destroying =>
    \A c \in Indexed :
      LET u == heap[c].url IN
        \/ u \in lost \cup Blacklist
        \/ \E f \in Titles : saved[f][u] > 0
        \/ \E p \in Procs : out[p][u] > 0 \/ (pc[p] = "write" /\ url[p] = u)

(* Every update ends, whatever other threads push meanwhile.               *)
UpdatesEnd ==
  \A p \in Procs : pc[p] # "idle" ~> (pc[p] = "idle" \/ phase = "undefined")

(* news_reader.h:270, the table is there to remove duplicates: no item is  *)
(* twice in the title file of a day.                                       *)
NoDuplicates == \A f \in Titles, u \in Urls : saved[f][u] <= 1
=============================================================================
