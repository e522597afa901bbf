--------------------------- MODULE PageCacheProofs ---------------------------
(***************************************************************************)
(* Theorems about PageCache, for every number of workers, files, pieces    *)
(* and blocks, every set of faults, and any number of files in play.       *)
(*                                                                         *)
(* ShapeInv is inductive by itself and carries the others, each of which   *)
(* is inductive with it: TempInv (TempRemoved), Contents (CachedOnce),     *)
(* Replies, which needs Contents (RepliesSound, UndisturbedServed), Sizes  *)
(* and Declared (TypeOK), and Even (NothingLost).                          *)
(***************************************************************************)
EXTENDS PageCache, FiniteSetTheorems, SequenceTheorems, TLAPS

(* TypeOK is not inductive: that a page grows by what was fetched only     *)
(* rests on Places, and how long it can get on the counting of Sizes.      *)
Jobs == [file : Files, fetched : BOOLEAN, pos : 0 .. FileLen, linked : BOOLEAN,
         text : 0 .. FileLen, declared : Nat, got : Seq(Pieces), solo : BOOLEAN]

Shape ==
  /\ up \in BOOLEAN
  /\ store \in [Files -> Seq(Pieces) \cup {NoFile}]
  /\ temp \in [Pages -> 0 .. NoTemp]
  /\ pc \in [Workers -> PCs]
  /\ job \in [Workers -> Jobs]
  /\ hurt \subseteq Files /\ mixed \subseteq Files /\ litter \subseteq Pages

PlaceOf(l, j) ==
  /\ l \in {"idle", "dead"} => ~j.solo
  /\ l \in {"begin", "fetch"} => j.pos = 0
  /\ l \in {"fetch", "download", "open", "append", "flush"} => j.fetched
  /\ l \in {"open", "append", "flush", "spin"} => j.file \in Pages
  /\ l \notin {"send", "sent", "spin"} => j.got = <<>>
  /\ l = "flush" => j.pos < j.text
  /\ (\/ l \in {"flush", "reopen", "head", "send", "sent", "spin"}
      \/ l = "download" /\ j.file \notin Pages) => Cached(j.file)
Places == \A w \in Workers : PlaceOf(pc[w], job[w])

(* Nobody else asks for the file of a request that has it to itself.       *)
Alone == \A w \in Workers : job[w].solo =>
  \A v \in Workers : v # w => ~Asks(v, File(w))

ShapeInv == Shape /\ Places /\ Alone

-----------------------------------------------------------------------------
(* The parts the steps are made of.                                        *)
LEMMA Constants ==
  /\ FileLen \in Nat /\ FileLen >= 1 /\ BlockLen \in Nat /\ BlockLen >= 1
  /\ Pieces = 1 .. FileLen /\ NoTemp = FileLen + 1
  /\ NoFile \notin Seq(Pieces) /\ <<>> \in Seq(Pieces) /\ NoFile # <<>>
<1>1. /\ FileLen \in Nat /\ FileLen >= 1 /\ BlockLen \in Nat /\ BlockLen >= 1
      /\ Pieces = 1 .. FileLen /\ NoTemp = FileLen + 1
  BY PageAssumption DEF Pieces, NoTemp
<1>2. NoFile \notin Seq(Pieces)
  <2>1. Len(NoFile) = 1 /\ NoFile[1] = 0
    BY DEF NoFile
  <2>2. 0 \notin Pieces
    BY <1>1
  <2> QED BY <2>1, <2>2, ElementOfSeq
<1>3. <<>> \in Seq(Pieces)
  OBVIOUS
<1> QED BY <1>1, <1>2, <1>3

LEMMA NoJobIs ==
  /\ NoJob \in Jobs
  /\ NoJob.pos = 0 /\ NoJob.text = 0 /\ NoJob.declared = 0 /\ NoJob.got = <<>>
  /\ ~NoJob.solo /\ ~NoJob.fetched
<1>1. (CHOOSE f \in Files : TRUE) \in Files
  BY PageAssumption DEF Files
<1> QED BY <1>1, Constants DEF NoJob, Jobs

LEMMA JobIs ==
  ASSUME Shape, NEW w \in Workers
  PROVE  /\ job[w] \in Jobs /\ File(w) \in Files
         /\ job[w].pos \in 0 .. FileLen /\ job[w].text \in 0 .. FileLen
         /\ job[w].declared \in Nat /\ job[w].got \in Seq(Pieces)
         /\ job[w].solo \in BOOLEAN
         /\ Text(w) => File(w) \in Pages
         /\ ~Text(w) => File(w) \in Pictures
BY DEF Shape, Jobs, File, Text, Files

LEMMA StoreIs ==
  ASSUME Shape, NEW f \in Files
  PROVE  /\ store[f] \in Seq(Pieces) \cup {NoFile}
         /\ Cached(f) <=> store[f] \in Seq(Pieces)
BY Constants DEF Shape, Cached

(* The slice that a turn of a send loop reads.                             *)
LEMMA BlockIs ==
  ASSUME NEW s \in Seq(Pieces), NEW n \in Nat
  PROVE  /\ Block(s, n) \in Seq(Pieces)
         /\ n <= Len(s) => n + Len(Block(s, n)) <= Len(s)
         /\ \A k \in 1 .. Len(Block(s, n)) : n + k \in 1 .. Len(s) /\ Block(s, n)[k] = s[n + k]
         /\ Block(s, n) = <<>> => n >= Len(s)
<1> DEFINE m == IF n + BlockLen < Len(s) THEN n + BlockLen ELSE Len(s)
<1>1. Len(s) \in Nat /\ m \in Int /\ n + 1 \in Int /\ m <= Len(s)
  BY Constants, LenProperties
<1>2. \A i \in n + 1 .. m : i \in 1 .. Len(s) /\ s[i] \in Pieces
  <2>1. \A i \in n + 1 .. m : i \in 1 .. Len(s)
    BY <1>1
  <2> QED BY <2>1, ElementOfSeq
<1>3. Block(s, n) = SubSeq(s, n + 1, m)
  BY DEF Block
<1> HIDE DEF m
<1>4. /\ Block(s, n) \in Seq(Pieces)
      /\ Len(Block(s, n)) = IF n + 1 <= m THEN m - (n + 1) + 1 ELSE 0
      /\ \A i \in 1 .. m - (n + 1) + 1 : Block(s, n)[i] = s[n + 1 + i - 1]
  BY <1>1, <1>2, <1>3, SubSeqProperties
<1>5. n <= Len(s) => n + Len(Block(s, n)) <= Len(s)
  BY <1>1, <1>4
<1>6. ASSUME NEW k \in 1 .. Len(Block(s, n))
      PROVE  n + k \in 1 .. Len(s) /\ Block(s, n)[k] = s[n + k]
  <2>1. k \in 1 .. m - (n + 1) + 1 /\ n + k \in n + 1 .. m /\ n + 1 + k - 1 = n + k
    BY <1>1, <1>4
  <2> QED BY <1>2, <1>4, <2>1
<1>7. Block(s, n) = <<>> => n >= Len(s)
  <2> HAVE Block(s, n) = <<>>
  <2>1. ~(n + 1 <= m)
    BY <1>1, <1>4
  <2> QED BY <1>1, <2>1, Constants DEF m
<1> QED BY <1>4, <1>5, <1>6, <1>7

(* The pieces a flush hands over, and where they come to lie.              *)
LEMMA FlushIs ==
  ASSUME NEW s \in Seq(Pieces), NEW from \in Nat, NEW to \in Nat, from <= to, to <= FileLen
  PROVE  LET b == [i \in 1 .. to - from |-> from + i]
             t == Appended(s, b) IN
         /\ t \in Seq(Pieces) /\ Len(t) = Len(s) + (to - from) /\ Len(s) \in Nat
         /\ \A k \in 1 .. Len(s) : t[k] = s[k]
         /\ \A k \in 1 .. to - from : t[Len(s) + k] = from + k
<1> DEFINE b == [i \in 1 .. to - from |-> from + i]
<1>1. b \in Seq(Pieces) /\ Len(b) = to - from
  <2>1. \A i \in 1 .. to - from : from + i \in Pieces
    BY Constants
  <2>2. b \in [1 .. to - from -> Pieces] /\ to - from \in Nat
    BY <2>1
  <2>3. b \in Seq(Pieces) /\ DOMAIN b = 1 .. to - from
    BY <2>2, SeqDef
  <2> QED BY <2>2, <2>3, LenProperties
<1>2. \A k \in 1 .. to - from : b[k] = from + k
  OBVIOUS
<1> HIDE DEF b
<1>3. /\ s \o b \in Seq(Pieces) /\ Len(s \o b) = Len(s) + Len(b)
      /\ \A i \in 1 .. Len(s) + Len(b) :
           (s \o b)[i] = IF i <= Len(s) THEN s[i] ELSE b[i - Len(s)]
  BY <1>1, ConcatProperties
<1>4. Len(s) \in Nat
  BY LenProperties
<1>5. \A k \in 1 .. Len(s) : (s \o b)[k] = s[k]
  BY <1>1, <1>3, <1>4
<1>6. \A k \in 1 .. to - from : (s \o b)[Len(s) + k] = from + k
  <2> TAKE k \in 1 .. to - from
  <2>1. /\ Len(s) + k \in 1 .. Len(s) + Len(b) /\ ~(Len(s) + k <= Len(s))
        /\ (Len(s) + k) - Len(s) = k
    BY <1>1, <1>4
  <2> QED BY <1>2, <1>3, <2>1
<1> QED BY <1>1, <1>3, <1>4, <1>5, <1>6 DEF Appended, b

-----------------------------------------------------------------------------
(* What the steps do to the locals of the handler that takes them, and to  *)
(* nobody else's.                                                          *)
Moves(w, l) ==
  /\ pc' = [pc EXCEPT ![w] = l] /\ pc' \in [Workers -> PCs]
  /\ job' \in [Workers -> Jobs] /\ up /\ up'
  /\ \A v \in Workers : v # w => pc'[v] = pc[v] /\ job'[v] = job[v]
  /\ pc'[w] = l /\ job'[w].file = job[w].file /\ job'[w].solo = job[w].solo

(* The request is over: nothing is left of it.                             *)
Leaves(w, l) ==
  /\ pc' = [pc EXCEPT ![w] = l] /\ pc' \in [Workers -> PCs]
  /\ job' \in [Workers -> Jobs] /\ up /\ up'
  /\ \A v \in Workers : v # w => /\ pc'[v] = pc[v]
                                /\ job'[v] = [job[v] EXCEPT !.linked = job'[v].linked]
  /\ pc'[w] = l /\ l \in {"idle", "dead"} /\ job'[w] = NoJob

LEMMA GotoMoves ==
  ASSUME Shape, NEW w \in Workers, NEW l \in PCs, NEW j \in Jobs, up, Goto(w, l, j),
         j.file = job[w].file, j.solo = job[w].solo
  PROVE  Moves(w, l) /\ job'[w] = j
BY DEF Shape, Goto, Moves

LEMMA GotoLeaves ==
  ASSUME Shape, NEW w \in Workers, NEW l \in {"idle", "dead"}, up, Goto(w, l, NoJob)
  PROVE  Leaves(w, l) /\ \A v \in Workers : v # w => job'[v] = job[v]
<1>1. l \in PCs
  BY DEF PCs
<1>2. /\ pc' = [pc EXCEPT ![w] = l] /\ pc' \in [Workers -> PCs]
      /\ job' \in [Workers -> Jobs] /\ up'
      /\ pc'[w] = l /\ job'[w] = NoJob
      /\ \A v \in Workers : v # w => pc'[v] = pc[v] /\ job'[v] = job[v]
  BY <1>1, NoJobIs DEF Shape, Goto
<1>3. \A v \in Workers : job[v] = [job[v] EXCEPT !.linked = job[v].linked]
  BY DEF Shape, Jobs
<1> QED BY <1>2, <1>3 DEF Leaves

LEMMA BeginIs ==
  ASSUME ShapeInv, NEW w \in Workers, Begin(w)
  PROVE  /\ At(w, "begin")
         /\ \E l \in {"head", "fetch"} :
              /\ Moves(w, l)
              /\ l = "head" <=> Cached(File(w))
              /\ l = "fetch" => job'[w].fetched
         /\ job'[w].pos = job[w].pos /\ job'[w].text = job[w].text
         /\ job'[w].got = job[w].got /\ job'[w].declared = job[w].declared
<1> DEFINE j == [job[w] EXCEPT !.fetched = TRUE]
<1> Shape /\ job[w] \in Jobs /\ At(w, "begin") /\ up
  BY JobIs DEF ShapeInv, Begin, At
<1>1. /\ j \in Jobs /\ j.file = job[w].file /\ j.solo = job[w].solo /\ j.fetched
      /\ j.pos = job[w].pos /\ j.text = job[w].text
      /\ j.got = job[w].got /\ j.declared = job[w].declared
  BY DEF Jobs
<1>2. "head" \in PCs /\ "fetch" \in PCs
  BY DEF PCs
<1>3. CASE Cached(File(w))
  <2>1. Goto(w, "head", job[w])
    BY <1>3 DEF Begin, Hit
  <2> QED BY <1>2, <1>3, <2>1, GotoMoves
<1>4. CASE ~Cached(File(w))
  <2>1. Goto(w, "fetch", j)
    BY <1>4 DEF Begin, Hit
  <2> QED BY <1>1, <1>2, <1>4, <2>1, GotoMoves
<1> QED BY <1>3, <1>4

LEMMA FetchOpenIs ==
  ASSUME ShapeInv, NEW w \in Workers, FetchOpen(w)
  PROVE  /\ At(w, "fetch") /\ Moves(w, "download")
         /\ job'[w].linked /\ job'[w].fetched = job[w].fetched
         /\ job'[w].pos = job[w].pos /\ job'[w].text = job[w].text
         /\ job'[w].got = job[w].got /\ job'[w].declared = job[w].declared
<1> DEFINE j == [job[w] EXCEPT !.linked = TRUE]
<1> Shape /\ job[w] \in Jobs /\ At(w, "fetch") /\ up
  BY JobIs DEF ShapeInv, FetchOpen, At
<1>1. /\ j \in Jobs /\ j.file = job[w].file /\ j.solo = job[w].solo /\ j.linked
      /\ j.pos = job[w].pos /\ j.text = job[w].text /\ j.fetched = job[w].fetched
      /\ j.got = job[w].got /\ j.declared = job[w].declared
  BY DEF Jobs
<1>2. "download" \in PCs /\ Goto(w, "download", j)
  BY DEF PCs, FetchOpen
<1> QED BY <1>1, <1>2, GotoMoves

LEMMA DownloadIs ==
  ASSUME ShapeInv, NEW w \in Workers, Download(w)
  PROVE  /\ At(w, "download") /\ Moves(w, "download")
         /\ job[w].pos \in 0 .. FileLen - 1 /\ job'[w].pos = job[w].pos + 1
         /\ job'[w].linked = job[w].linked /\ job'[w].fetched = job[w].fetched
         /\ job'[w].text = job[w].text
         /\ job'[w].got = job[w].got /\ job'[w].declared = job[w].declared
<1> DEFINE j == [job[w] EXCEPT !.pos = job[w].pos + 1]
<1> Shape /\ job[w] \in Jobs /\ At(w, "download") /\ up
  BY JobIs DEF ShapeInv, Download, At
<1>1. job[w].pos \in 0 .. FileLen - 1 /\ job[w].pos + 1 \in 0 .. FileLen
  BY JobIs, Constants DEF Download
<1>2. /\ j \in Jobs /\ j.file = job[w].file /\ j.solo = job[w].solo /\ j.linked = job[w].linked
      /\ j.pos = job[w].pos + 1 /\ j.text = job[w].text /\ j.fetched = job[w].fetched
      /\ j.got = job[w].got /\ j.declared = job[w].declared
  BY <1>1 DEF Jobs
<1>3. "download" \in PCs /\ Goto(w, "download", j)
  BY DEF PCs, Download
<1> QED BY <1>1, <1>2, <1>3, GotoMoves

(* Steps that only move the handler on.                                    *)
LEMMA DownloadedIs ==
  ASSUME ShapeInv, NEW w \in Workers, Downloaded(w)
  PROVE  /\ At(w, "download") /\ job'[w] = job[w]
         /\ Moves(w, IF Text(w) THEN "open" ELSE "reopen")
<1> DEFINE l == IF Text(w) THEN "open" ELSE "reopen"
<1>1. Shape /\ job[w] \in Jobs /\ At(w, "download") /\ up /\ Goto(w, l, job[w])
  BY JobIs DEF ShapeInv, Downloaded, At
<1>2. l \in PCs
  BY DEF PCs
<1> HIDE DEF l
<1>3. Moves(w, l) /\ job'[w] = job[w]
  BY <1>1, <1>2, GotoMoves
<1> QED BY <1>1, <1>3 DEF l

LEMMA OpenIs ==
  ASSUME ShapeInv, NEW w \in Workers, Open(w)
  PROVE  /\ At(w, "open") /\ Moves(w, "append") /\ Text(w)
         /\ job'[w].text = IF temp[File(w)] = NoTemp THEN 0 ELSE temp[File(w)]
         /\ job'[w].fetched = job[w].fetched /\ job'[w].pos = job[w].pos
         /\ job'[w].got = job[w].got /\ job'[w].declared = job[w].declared
<1> DEFINE n == IF temp[File(w)] = NoTemp THEN 0 ELSE temp[File(w)]
           j == [job[w] EXCEPT !.text = n]
<1> Shape /\ job[w] \in Jobs /\ At(w, "open") /\ up
  BY JobIs DEF ShapeInv, Open, At
<1>1. Text(w)
  BY DEF ShapeInv, Places, PlaceOf, At, Text, File
<1>2. n \in 0 .. FileLen
  <2>1. temp[File(w)] \in 0 .. NoTemp
    BY <1>1 DEF Shape, Text
  <2> QED BY <2>1, Constants
<1>3. Goto(w, "append", j) /\ "append" \in PCs
  BY DEF PCs, Open
<1> HIDE DEF n
<1>4. /\ j \in Jobs /\ j.file = job[w].file /\ j.solo = job[w].solo
      /\ j.pos = job[w].pos /\ j.text = n /\ j.fetched = job[w].fetched
      /\ j.got = job[w].got /\ j.declared = job[w].declared
  BY <1>2 DEF Jobs
<1>5. Moves(w, "append") /\ job'[w] = j
  BY <1>3, <1>4, GotoMoves
<1>6. /\ job'[w].text = n
      /\ job'[w].fetched = job[w].fetched /\ job'[w].pos = job[w].pos
      /\ job'[w].got = job[w].got /\ job'[w].declared = job[w].declared
  BY <1>4, <1>5
<1> QED BY <1>1, <1>5, <1>6 DEF n

LEMMA AppendOpenIs ==
  ASSUME ShapeInv, NEW w \in Workers, AppendOpen(w)
  PROVE  /\ At(w, "append") /\ Moves(w, "flush") /\ Text(w)
         /\ job'[w].text \in 1 .. FileLen /\ job'[w].pos = 0
         /\ Fills(w, job'[w].text < FileLen)
         /\ job'[w].fetched = job[w].fetched
         /\ job'[w].got = job[w].got /\ job'[w].declared = job[w].declared
<1> Shape /\ job[w] \in Jobs /\ At(w, "append") /\ up
  BY JobIs DEF ShapeInv, AppendOpen, At
<1>1. Text(w)
  BY DEF ShapeInv, Places, PlaceOf, At, Text, File
<1>2. PICK n \in 1 .. job[w].text : /\ Fills(w, n < FileLen)
                                   /\ Goto(w, "flush", [job[w] EXCEPT !.text = n, !.pos = 0])
  BY DEF AppendOpen
<1> DEFINE j == [job[w] EXCEPT !.text = n, !.pos = 0]
<1>3. n \in 1 .. FileLen /\ n \in 0 .. FileLen /\ 0 \in 0 .. FileLen
  BY <1>2, JobIs, Constants
<1>4. /\ j \in Jobs /\ j.file = job[w].file /\ j.solo = job[w].solo
      /\ j.pos = 0 /\ j.text = n /\ j.fetched = job[w].fetched
      /\ j.got = job[w].got /\ j.declared = job[w].declared
  BY <1>3 DEF Jobs
<1>5. Goto(w, "flush", j) /\ "flush" \in PCs
  BY <1>2 DEF PCs
<1> HIDE DEF j
<1>6. Moves(w, "flush") /\ job'[w] = j
  BY <1>4, <1>5, GotoMoves
<1> QED BY <1>1, <1>2, <1>3, <1>4, <1>6

(* A flush, with n the pieces of the text handed over when it is done.     *)
LEMMA FlushDoes ==
  ASSUME ShapeInv, NEW w \in Workers, Flush(w)
  PROVE  LET f == File(w)  s == store[File(w)]  t == store'[File(w)]  from == job[w].pos IN
         /\ At(w, "flush") /\ Text(w) /\ f \in Files
         /\ job'[w].got = job[w].got /\ job'[w].declared = job[w].declared
         /\ job'[w].fetched = job[w].fetched
         /\ store' \in [Files -> Seq(Pieces) \cup {NoFile}]
         /\ \A g \in Files : g # f => store'[g] = store[g]
         /\ s \in Seq(Pieces) /\ t \in Seq(Pieces)
         /\ \E n \in 1 .. FileLen :
              /\ from < n /\ n <= job[w].text
              /\ IF n = job[w].text
                   THEN Moves(w, "reopen") /\ job'[w].pos = 0 /\ job'[w].text = 0
                   ELSE Moves(w, "flush") /\ job'[w].pos = n /\ job'[w].text = job[w].text
              /\ Len(t) = Len(s) + (n - from)
              /\ \A k \in 1 .. Len(s) : t[k] = s[k]
              /\ \A k \in 1 .. n - from : t[Len(s) + k] = from + k
<1> DEFINE from == job[w].pos
           n == IF from + BlockLen < job[w].text THEN from + BlockLen ELSE job[w].text
           b == [i \in 1 .. n - from |-> from + i]
           f == File(w)
           new == Appended(store[f], b)
<1> Shape /\ job[w] \in Jobs /\ At(w, "flush") /\ up /\ f \in Files
  BY JobIs DEF ShapeInv, Flush, At
<1>1. Text(w) /\ from < job[w].text /\ Cached(f)
  BY DEF ShapeInv, Places, PlaceOf, At, Text, File
<1>2. n \in 1 .. FileLen /\ from < n /\ n <= job[w].text /\ from \in Nat
  BY <1>1, JobIs, Constants
<1>3. /\ store' = [store EXCEPT ![f] = new]
      /\ IF n = job[w].text THEN Goto(w, "reopen", [job[w] EXCEPT !.pos = 0, !.text = 0])
                            ELSE Goto(w, "flush", [job[w] EXCEPT !.pos = n])
  BY DEF Flush
<1>4. store[f] \in Seq(Pieces)
  BY <1>1, StoreIs
<1> HIDE DEF n
<1>5. /\ new \in Seq(Pieces) /\ Len(new) = Len(store[f]) + (n - from)
      /\ \A k \in 1 .. Len(store[f]) : new[k] = store[f][k]
      /\ \A k \in 1 .. n - from : new[Len(store[f]) + k] = from + k
  <2>1. n \in Nat /\ from \in Nat /\ from <= n /\ n <= FileLen
    BY <1>2, Constants
  <2> HIDE DEF from
  <2> QED BY <1>4, <2>1, FlushIs
<1> HIDE DEF new
<1>6. /\ store' \in [Files -> Seq(Pieces) \cup {NoFile}] /\ store'[f] = new
      /\ \A g \in Files : g # f => store'[g] = store[g]
  BY <1>3, <1>5 DEF Shape
<1>7. /\ job'[w].got = job[w].got /\ job'[w].declared = job[w].declared
      /\ job'[w].fetched = job[w].fetched
      /\ IF n = job[w].text
           THEN Moves(w, "reopen") /\ job'[w].pos = 0 /\ job'[w].text = 0
           ELSE Moves(w, "flush") /\ job'[w].pos = n /\ job'[w].text = job[w].text
  <2>1. 0 \in 0 .. FileLen /\ n \in 0 .. FileLen /\ "reopen" \in PCs /\ "flush" \in PCs
    BY <1>2, Constants DEF PCs
  <2>2. CASE n = job[w].text
    <3> DEFINE j == [job[w] EXCEPT !.pos = 0, !.text = 0]
    <3>1. /\ j \in Jobs /\ j.file = job[w].file /\ j.solo = job[w].solo
          /\ j.pos = 0 /\ j.text = 0 /\ j.fetched = job[w].fetched
          /\ j.got = job[w].got /\ j.declared = job[w].declared
      BY <2>1 DEF Jobs
    <3>2. Goto(w, "reopen", j)
      BY <1>3, <2>2
    <3> HIDE DEF j
    <3>3. Moves(w, "reopen") /\ job'[w] = j
      BY <2>1, <3>1, <3>2, GotoMoves
    <3> QED BY <2>2, <3>1, <3>3
  <2>3. CASE n # job[w].text
    <3> DEFINE j == [job[w] EXCEPT !.pos = n]
    <3>1. /\ j \in Jobs /\ j.file = job[w].file /\ j.solo = job[w].solo
          /\ j.pos = n /\ j.text = job[w].text /\ j.fetched = job[w].fetched
          /\ j.got = job[w].got /\ j.declared = job[w].declared
      BY <2>1 DEF Jobs
    <3>2. Goto(w, "flush", j)
      BY <1>3, <2>3
    <3> HIDE DEF j
    <3>3. Moves(w, "flush") /\ job'[w] = j
      BY <2>1, <3>1, <3>2, GotoMoves
    <3> QED BY <2>3, <3>1, <3>3
  <2> QED BY <2>2, <2>3
<1> QED BY <1>1, <1>2, <1>4, <1>5, <1>6, <1>7

LEMMA ReopenIs ==
  ASSUME ShapeInv, NEW w \in Workers, Reopen(w)
  PROVE  /\ At(w, "reopen") /\ Moves(w, "head") /\ job'[w].pos = 0
         /\ job'[w].text = job[w].text /\ job'[w].fetched = job[w].fetched
         /\ job'[w].got = job[w].got /\ job'[w].declared = job[w].declared
<1> DEFINE j == [job[w] EXCEPT !.pos = 0]
<1> Shape /\ job[w] \in Jobs /\ At(w, "reopen") /\ up
  BY JobIs DEF ShapeInv, Reopen, At
<1>1. /\ j \in Jobs /\ j.file = job[w].file /\ j.solo = job[w].solo
      /\ j.pos = 0 /\ j.text = job[w].text /\ j.fetched = job[w].fetched
      /\ j.got = job[w].got /\ j.declared = job[w].declared
  BY Constants DEF Jobs
<1>2. "head" \in PCs /\ Goto(w, "head", j)
  BY DEF PCs, Reopen
<1> QED BY <1>1, <1>2, GotoMoves

LEMMA SendHeadIs ==
  ASSUME ShapeInv, NEW w \in Workers, SendHead(w)
  PROVE  /\ At(w, "head") /\ Moves(w, "send")
         /\ job'[w].declared = Len(store[File(w)]) /\ store[File(w)] \in Seq(Pieces)
         /\ job'[w].pos = job[w].pos
         /\ job'[w].text = job[w].text /\ job'[w].fetched = job[w].fetched
         /\ job'[w].got = job[w].got /\ job[w].got = <<>>
<1> DEFINE n == Len(store[File(w)])
           j == [job[w] EXCEPT !.declared = n]
<1> Shape /\ job[w] \in Jobs /\ At(w, "head") /\ up /\ File(w) \in Files
  BY JobIs DEF ShapeInv, SendHead, At
<1>1. Cached(File(w)) /\ job[w].got = <<>>
  BY DEF ShapeInv, Places, PlaceOf, At, File
<1>2. store[File(w)] \in Seq(Pieces)
  BY <1>1, StoreIs
<1>3. n \in Nat
  BY <1>2, LenProperties
<1>4. Goto(w, "send", j) /\ "send" \in PCs
  BY DEF PCs, SendHead, Tell
<1> HIDE DEF n
<1>5. /\ j \in Jobs /\ j.file = job[w].file /\ j.solo = job[w].solo
      /\ j.pos = job[w].pos /\ j.text = job[w].text /\ j.fetched = job[w].fetched
      /\ j.got = job[w].got /\ j.declared = n
  BY <1>3 DEF Jobs
<1> HIDE DEF j
<1>6. Moves(w, "send") /\ job'[w] = j
  BY <1>4, <1>5, GotoMoves
<1> QED BY <1>1, <1>2, <1>5, <1>6 DEF n

(* A turn of the send loop.                                                *)
LEMMA SendBlockIs ==
  ASSUME ShapeInv, NEW w \in Workers, SendBlock(w)
  PROVE  LET s == store[File(w)]  old == job[w].got  new == job'[w].got IN
         /\ At(w, "send")
         /\ job'[w].pos = job[w].pos /\ job'[w].text = job[w].text
         /\ job'[w].fetched = job[w].fetched /\ job'[w].declared = job[w].declared
         /\ s \in Seq(Pieces) /\ Len(s) \in Nat
         /\ old \in Seq(Pieces) /\ new \in Seq(Pieces) /\ Len(old) \in Nat /\ Len(new) \in Nat
         /\ Len(old) <= Len(new) /\ (Len(old) <= Len(s) => Len(new) <= Len(s))
         /\ \A k \in 1 .. Len(new) : IF k <= Len(old) THEN new[k] = old[k]
                                                      ELSE k \in 1 .. Len(s) /\ new[k] = s[k]
         /\ \E l \in {"send", "sent", "spin"} :
              /\ Moves(w, l)
              /\ l = "sent" => IF Text(w) THEN Len(new) = job[w].declared
                                          ELSE Len(new) = Len(old) /\ Len(old) >= Len(s)
              /\ l = "spin" => /\ Text(w) /\ Len(new) # job[w].declared
                               /\ Len(new) = Len(old) /\ Len(old) >= Len(s)
<1> DEFINE s == store[File(w)]
           old == job[w].got
           b == Block(s, Len(old))
           j == [job[w] EXCEPT !.got = old \o b]
<1> Shape /\ job[w] \in Jobs /\ At(w, "send") /\ up /\ File(w) \in Files /\ old \in Seq(Pieces)
  BY JobIs DEF ShapeInv, SendBlock, At
<1>1. s \in Seq(Pieces)
  <2>1. Cached(File(w))
    BY DEF ShapeInv, Places, PlaceOf, At, File
  <2> QED BY <2>1, StoreIs
<1>2. Len(s) \in Nat /\ Len(old) \in Nat
  BY <1>1, LenProperties
<1>3. /\ b \in Seq(Pieces)
      /\ Len(old) <= Len(s) => Len(old) + Len(b) <= Len(s)
      /\ \A k \in 1 .. Len(b) : Len(old) + k \in 1 .. Len(s) /\ b[k] = s[Len(old) + k]
      /\ b = <<>> => Len(old) >= Len(s)
  BY <1>1, <1>2, BlockIs
<1> HIDE DEF b
<1>4. /\ old \o b \in Seq(Pieces) /\ Len(old \o b) = Len(old) + Len(b) /\ Len(b) \in Nat
      /\ \A i \in 1 .. Len(old) + Len(b) :
           (old \o b)[i] = IF i <= Len(old) THEN old[i] ELSE b[i - Len(old)]
  BY <1>3, ConcatProperties, LenProperties
<1>5. /\ j \in Jobs /\ j.file = job[w].file /\ j.solo = job[w].solo
      /\ j.pos = job[w].pos /\ j.text = job[w].text /\ j.fetched = job[w].fetched
      /\ j.got = old \o b /\ j.declared = job[w].declared
  BY <1>4 DEF Jobs
<1>6. \E l \in {"send", "sent", "spin"} :
        /\ Goto(w, l, j)
        /\ l = "sent" => IF Text(w) THEN Len(j.got) = j.declared ELSE b = <<>>
        /\ l = "spin" => Text(w) /\ Len(j.got) # j.declared /\ b = <<>>
  <2>1. Goto(w, CASE Text(w) /\ Len(j.got) = j.declared -> "sent"
                  [] Text(w) /\ Len(j.got) # j.declared /\ b = <<>> -> "spin"
                  [] ~Text(w) /\ b = <<>> -> "sent"
                  [] OTHER -> "send", j)
    BY Zenon DEF SendBlock, b
  <2> HIDE DEF j
  <2>2. CASE Text(w) /\ Len(j.got) = j.declared
    <3>1. Goto(w, "sent", j)
      BY <2>1, <2>2
    <3> QED BY <2>2, <3>1
  <2>3. CASE Text(w) /\ Len(j.got) # j.declared /\ b = <<>>
    <3>1. Goto(w, "spin", j)
      BY <2>1, <2>3
    <3> QED BY <2>3, <3>1
  <2>4. CASE ~Text(w) /\ b = <<>>
    <3>1. Goto(w, "sent", j)
      BY <2>1, <2>4
    <3> QED BY <2>4, <3>1
  <2>5. CASE /\ ~(Text(w) /\ Len(j.got) = j.declared)
             /\ ~(Text(w) /\ Len(j.got) # j.declared /\ b = <<>>)
             /\ ~(~Text(w) /\ b = <<>>)
    <3>1. Goto(w, "send", j)
      BY <2>1, <2>5
    <3> QED BY <3>1
  <2> QED BY <2>2, <2>3, <2>4, <2>5
<1>7. PICK l \in {"send", "sent", "spin"} :
        /\ Goto(w, l, j)
        /\ l = "sent" => IF Text(w) THEN Len(j.got) = j.declared ELSE b = <<>>
        /\ l = "spin" => Text(w) /\ Len(j.got) # j.declared /\ b = <<>>
  BY <1>6
<1> HIDE DEF j
<1>8. Moves(w, l) /\ job'[w] = j
  <2>1. l \in PCs
    BY DEF PCs
  <2> QED BY <1>5, <1>7, <2>1, GotoMoves
<1>9. b = <<>> => Len(b) = 0
  OBVIOUS
<1>10. \A k \in 1 .. Len(old \o b) :
         IF k <= Len(old) THEN (old \o b)[k] = old[k]
                          ELSE k \in 1 .. Len(s) /\ (old \o b)[k] = s[k]
  <2> TAKE k \in 1 .. Len(old \o b)
  <2>1. CASE k <= Len(old)
    BY <1>2, <1>4, <2>1
  <2>2. CASE ~(k <= Len(old))
    <3> DEFINE i == k - Len(old)
    <3>1. i \in 1 .. Len(b) /\ Len(old) + i = k
      <4>1. k \in Nat /\ k <= Len(old) + Len(b) /\ k > Len(old)
        BY <1>2, <1>4, <2>2
      <4> HIDE DEF old
      <4> QED BY <1>2, <1>4, <4>1
    <3>2. (old \o b)[k] = b[i]
      BY <1>2, <1>4, <2>2
    <3> HIDE DEF i
    <3> QED BY <1>3, <2>2, <3>1, <3>2
  <2> QED BY <2>1, <2>2
<1>11. /\ Len(old \o b) \in Nat /\ Len(old) <= Len(old \o b)
       /\ Len(old) <= Len(s) => Len(old \o b) <= Len(s)
       /\ b = <<>> => Len(old \o b) = Len(old)
  BY <1>2, <1>3, <1>4, <1>9
<1>12. job'[w].got = old \o b
  BY <1>5, <1>8
<1>13. /\ job'[w].pos = job[w].pos /\ job'[w].text = job[w].text
       /\ job'[w].fetched = job[w].fetched /\ job'[w].declared = job[w].declared
  BY <1>5, <1>8
<1>14. /\ l = "sent" => IF Text(w) THEN Len(job'[w].got) = job[w].declared
                                   ELSE Len(job'[w].got) = Len(old) /\ Len(old) >= Len(s)
       /\ l = "spin" => /\ Text(w) /\ Len(job'[w].got) # job[w].declared
                        /\ Len(job'[w].got) = Len(old) /\ Len(old) >= Len(s)
  BY <1>3, <1>5, <1>7, <1>11, <1>12
<1> QED BY <1>1, <1>2, <1>4, <1>8, <1>10, <1>11, <1>12, <1>13, <1>14

-----------------------------------------------------------------------------
(* What the steps do to the files: a cached file stays.                    *)
Grows ==
  /\ store' \in [Files -> Seq(Pieces) \cup {NoFile}]
  /\ \A f \in Files : Cached(f) => Cached(f)'
  /\ temp' \in [Pages -> 0 .. NoTemp]
  /\ hurt' \subseteq Files /\ mixed' \subseteq Files /\ litter' \subseteq Pages

LEMMA NoStoreGrows ==
  ASSUME Shape, UNCHANGED <<store, temp, history>>
  PROVE  Grows
BY DEF Shape, Grows, Cached, history

LEMMA FillsIs ==
  ASSUME Shape, NEW w \in Workers, NEW short \in BOOLEAN, Fills(w, short)
  PROVE  /\ hurt' \subseteq Files /\ mixed' \subseteq Files /\ litter' \subseteq Pages
         /\ hurt \subseteq hurt' /\ mixed \subseteq mixed' /\ litter' = litter
         /\ hurt' \subseteq hurt \cup {File(w)} /\ mixed' \subseteq mixed \cup {File(w)}
         /\ short => File(w) \in hurt'
         /\ (\E v \in Workers : v # w /\ Filling(v) /\ File(v) = File(w)) => File(w) \in mixed'
BY JobIs DEF Fills, Shape

(* The cached file is created, when it is not there.                       *)
LEMMA Creates ==
  ASSUME Shape, NEW f \in Files, store' = [store EXCEPT ![f] = IF @ = NoFile THEN <<>> ELSE @]
  PROVE  /\ store' \in [Files -> Seq(Pieces) \cup {NoFile}]
         /\ \A g \in Files : Cached(g) => Cached(g)' /\ store'[g] = store[g]
         /\ \A g \in Files : g # f => store'[g] = store[g]
         /\ Cached(f)' /\ store'[f] = IF Cached(f) THEN store[f] ELSE <<>>
         /\ store'[f] \in Seq(Pieces)
<1>1. store'[f] = IF Cached(f) THEN store[f] ELSE <<>>
  BY DEF Shape, Cached
<1>2. \A g \in Files : g # f => store'[g] = store[g]
  BY DEF Shape
<1>3. store' \in [Files -> Seq(Pieces) \cup {NoFile}]
  BY Constants DEF Shape
<1>4. Cached(f)' /\ \A g \in Files : Cached(g) => Cached(g)' /\ store'[g] = store[g]
  BY <1>1, <1>2, Constants DEF Cached
<1>5. store'[f] \in Seq(Pieces)
  BY <1>3, <1>4 DEF Cached
<1> QED BY <1>1, <1>2, <1>3, <1>4, <1>5

LEMMA FetchOpenGrows ==
  ASSUME ShapeInv, NEW w \in Workers, FetchOpen(w)
  PROVE  /\ Grows
         /\ ~Text(w) => store'[File(w)] \in Seq(Pieces)
         /\ Text(w) => /\ UNCHANGED <<store, history>>
                       /\ temp' = [temp EXCEPT ![File(w)] = IF @ = NoTemp THEN 0 ELSE @]
                       /\ temp'[File(w)] = IF temp[File(w)] = NoTemp THEN 0 ELSE temp[File(w)]
         /\ ~Text(w) => UNCHANGED temp /\ Fills(w, FALSE)
<1> Shape /\ File(w) \in Files
  BY JobIs DEF ShapeInv
<1>1. CASE Text(w)
  <2>1. /\ UNCHANGED <<store, history>>
        /\ temp' = [temp EXCEPT ![File(w)] = IF @ = NoTemp THEN 0 ELSE @]
    BY <1>1 DEF FetchOpen
  <2>2. temp' \in [Pages -> 0 .. NoTemp]
    <3> DEFINE n == IF temp[File(w)] = NoTemp THEN 0 ELSE temp[File(w)]
    <3>1. n \in 0 .. NoTemp
      BY <1>1, Constants DEF Shape, Text
    <3>2. temp' = [temp EXCEPT ![File(w)] = n]
      BY <2>1
    <3> HIDE DEF n
    <3> QED BY <3>1, <3>2 DEF Shape
  <2>3. temp'[File(w)] = IF temp[File(w)] = NoTemp THEN 0 ELSE temp[File(w)]
    BY <1>1, <2>1 DEF Shape, Text
  <2> QED BY <1>1, <2>1, <2>2, <2>3 DEF Grows, Shape, Cached, history
<1>2. CASE ~Text(w)
  <2>1. /\ store' = [store EXCEPT ![File(w)] = IF @ = NoFile THEN <<>> ELSE @]
        /\ Fills(w, FALSE) /\ UNCHANGED temp
    BY <1>2 DEF FetchOpen
  <2>2. hurt' \subseteq Files /\ mixed' \subseteq Files /\ litter' \subseteq Pages
    BY <2>1, FillsIs
  <2>3. /\ store' \in [Files -> Seq(Pieces) \cup {NoFile}]
        /\ store'[File(w)] \in Seq(Pieces) /\ \A g \in Files : Cached(g) => Cached(g)'
    BY <2>1, Creates
  <2> QED BY <1>2, <2>1, <2>2, <2>3 DEF Grows, Shape
<1> QED BY <1>1, <1>2

LEMMA DownloadGrows ==
  ASSUME ShapeInv, NEW w \in Workers, Download(w)
  PROVE  LET f == File(w)  n == job[w].pos + 1 IN
         /\ Grows
         /\ Text(w) => UNCHANGED <<store, history>>
         /\ Text(w) => temp' = IF job[w].linked /\ n > temp[f] THEN [temp EXCEPT ![f] = n] ELSE temp
         /\ ~Text(w) => /\ UNCHANGED temp /\ Fills(w, FALSE)
                        /\ store[f] \in Seq(Pieces) /\ store'[f] \in Seq(Pieces)
                        /\ store'[f] = IF n > Len(store[f]) THEN Append(store[f], n) ELSE store[f]
                        /\ \A g \in Files : g # f => store'[g] = store[g]
<1> DEFINE f == File(w)
           n == job[w].pos + 1
<1> Shape /\ f \in Files
  BY JobIs DEF ShapeInv
<1>1. n \in Pieces /\ n \in 0 .. NoTemp
  BY DownloadIs, Constants
<1> HIDE DEF n
<1>2. CASE Text(w)
  <2>1. /\ UNCHANGED <<store, history>>
        /\ temp' = IF job[w].linked /\ n > temp[f] THEN [temp EXCEPT ![f] = n] ELSE temp
    BY <1>2 DEF Download, n
  <2>2. temp' \in [Pages -> 0 .. NoTemp]
    BY <1>1, <2>1 DEF Shape
  <2> QED BY <1>2, <2>1, <2>2 DEF Grows, Shape, Cached, history, n
<1>3. CASE ~Text(w)
  <2>1. /\ store' = IF n > Len(store[f]) THEN [store EXCEPT ![f] = Append(@, n)] ELSE store
        /\ Fills(w, FALSE) /\ UNCHANGED temp
    BY <1>3 DEF Download, n
  <2>2. Cached(f)
    BY <1>3, DownloadIs DEF ShapeInv, Places, PlaceOf, At, Text, File
  <2>3. store[f] \in Seq(Pieces)
    BY <2>2, StoreIs
  <2>4. Append(store[f], n) \in Seq(Pieces)
    BY <1>1, <2>3, AppendProperties
  <2>5. /\ store'[f] = IF n > Len(store[f]) THEN Append(store[f], n) ELSE store[f]
        /\ store'[f] \in Seq(Pieces) /\ store' \in [Files -> Seq(Pieces) \cup {NoFile}]
        /\ \A g \in Files : g # f => store'[g] = store[g]
    <3>1. CASE n > Len(store[f])
      BY <2>1, <2>4, <3>1 DEF Shape
    <3>2. CASE ~(n > Len(store[f]))
      BY <2>1, <2>3, <3>2 DEF Shape
    <3> QED BY <3>1, <3>2
  <2>6. \A g \in Files : Cached(g) => Cached(g)'
    BY <2>5, Constants DEF Cached
  <2> QED BY <1>3, <2>1, <2>3, <2>5, <2>6, FillsIs DEF Grows, Shape, n
<1> QED BY <1>2, <1>3

LEMMA FlushGrows ==
  ASSUME ShapeInv, NEW w \in Workers, Flush(w)
  PROVE  Grows /\ Fills(w, FALSE) /\ UNCHANGED temp
<1>1. Shape /\ Fills(w, FALSE) /\ UNCHANGED temp
  BY DEF ShapeInv, Flush
<1>2. /\ store' \in [Files -> Seq(Pieces) \cup {NoFile}] /\ store'[File(w)] \in Seq(Pieces)
      /\ \A g \in Files : g # File(w) => store'[g] = store[g]
  BY FlushDoes
<1>3. \A g \in Files : Cached(g) => Cached(g)'
  BY <1>2, Constants DEF Cached
<1> QED BY <1>1, <1>2, <1>3, FillsIs DEF Grows, Shape

LEMMA AppendOpenGrows ==
  ASSUME ShapeInv, NEW w \in Workers, AppendOpen(w)
  PROVE  Grows /\ UNCHANGED temp
<1>1. Shape /\ File(w) \in Files /\ Fills(w, job'[w].text < FileLen)
  BY JobIs, AppendOpenIs DEF ShapeInv
<1>2. UNCHANGED temp /\ store' = [store EXCEPT ![File(w)] = IF @ = NoFile THEN <<>> ELSE @]
  BY DEF AppendOpen, CreateCached
<1>3. hurt' \subseteq Files /\ mixed' \subseteq Files /\ litter' \subseteq Pages
  <2>1. Fills(w, TRUE) \/ Fills(w, FALSE)
    BY <1>1 DEF Fills
  <2> QED BY <1>1, <2>1, FillsIs
<1>4. /\ store' \in [Files -> Seq(Pieces) \cup {NoFile}]
      /\ \A g \in Files : Cached(g) => Cached(g)'
  BY <1>1, <1>2, Creates
<1> QED BY <1>1, <1>2, <1>3, <1>4 DEF Grows, Shape

LEMMA StopGrows ==
  ASSUME Shape, NEW lost \in SUBSET Files, Stop(lost)
  PROVE  hurt' \subseteq Files /\ mixed' = mixed /\ litter' \subseteq Pages
BY DEF Shape, Stop

LEMMA RequestIs ==
  ASSUME ShapeInv, NEW w \in Workers, NEW f \in Files, Request(w, f)
  PROVE  /\ At(w, "idle") /\ UNCHANGED <<up, store, temp, history>>
         /\ pc' \in [Workers -> PCs] /\ job' \in [Workers -> Jobs]
         /\ pc'[w] = "begin" /\ job'[w].file = f /\ job'[w].pos = 0 /\ job'[w].got = <<>>
         /\ ~job'[w].fetched
         /\ job'[w].solo => \A u \in Workers : ~Asks(u, f)
         /\ \A v \in Workers : v # w =>
              /\ pc'[v] = pc[v] /\ job'[v] = [job[v] EXCEPT !.solo = job'[v].solo]
              /\ job'[v].solo => job[v].solo /\ ~Asks(v, f)
<1> DEFINE s == \A u \in Workers : ~Asks(u, f)
           t(v) == job[v].solo /\ ~Asks(v, f)
           j == [NoJob EXCEPT !.file = f, !.solo = s]
           k(v) == [job[v] EXCEPT !.solo = t(v)]
<1> Shape
  BY DEF ShapeInv
<1>1. /\ job' = [v \in Workers |-> IF v = w THEN j ELSE k(v)]
      /\ At(w, "idle") /\ UNCHANGED <<up, store, temp, history>> /\ pc' = [pc EXCEPT ![w] = "begin"]
  BY DEF Request
<1>2. s \in BOOLEAN /\ \A v \in Workers : t(v) \in BOOLEAN
  OBVIOUS
<1> HIDE DEF s, t
<1>3. /\ j \in Jobs /\ j.file = f /\ j.pos = 0 /\ j.got = <<>> /\ ~j.fetched /\ j.solo = s
  BY <1>2, NoJobIs DEF Jobs
<1>4. \A v \in Workers : k(v) \in Jobs /\ k(v).solo = t(v) /\ k(v) = [job[v] EXCEPT !.solo = t(v)]
  BY <1>2, JobIs DEF Jobs
<1> HIDE DEF j, k
<1>5. /\ job'[w] = j /\ \A v \in Workers : v # w => job'[v] = k(v)
      /\ job' \in [Workers -> Jobs]
  BY <1>1, <1>3, <1>4
<1>6. /\ pc' \in [Workers -> PCs] /\ pc'[w] = "begin"
      /\ \A v \in Workers : v # w => pc'[v] = pc[v]
  BY <1>1 DEF Shape, PCs
<1>7. \A v \in Workers : v # w => /\ job'[v] = [job[v] EXCEPT !.solo = job'[v].solo]
                                /\ job'[v].solo = t(v)
  BY <1>4, <1>5
<1>8. /\ job'[w].file = f /\ job'[w].pos = 0 /\ job'[w].got = <<>>
      /\ ~job'[w].fetched /\ job'[w].solo = s
  BY <1>3, <1>5
<1> QED BY <1>1, <1>5, <1>6, <1>7, <1>8 DEF s, t

LEMMA FetchFailsIs ==
  ASSUME ShapeInv, NEW w \in Workers, FetchFails(w)
  PROVE  /\ At(w, "fetch") /\ Leaves(w, "idle") /\ UNCHANGED <<store, temp, history>> /\ Grows
         /\ \A v \in Workers : v # w => job'[v] = job[v]
<1>1. Shape /\ At(w, "fetch") /\ up /\ UNCHANGED <<store, temp, history>> /\ Goto(w, "idle", NoJob)
  BY DEF ShapeInv, FetchFails, At, Leave
<1> QED BY <1>1, NoStoreGrows, GotoLeaves

LEMMA SendSigPipeIs ==
  ASSUME ShapeInv, NEW w \in Workers, SendSigPipe(w)
  PROVE  /\ At(w, "head") \/ At(w, "send") \/ (At(w, "fetch") /\ ~Text(w))
         /\ Leaves(w, "dead") /\ UNCHANGED <<store, temp, hurt, mixed>> /\ Grows
         /\ \A v \in Workers : v # w => job'[v] = job[v]
         /\ litter' = IF Text(w) /\ job[w].fetched /\ temp[File(w)] # NoTemp
                        THEN litter \cup {File(w)} ELSE litter
<1>1. /\ Shape /\ up /\ UNCHANGED <<store, temp, hurt, mixed>> /\ Goto(w, "dead", NoJob)
      /\ At(w, "head") \/ At(w, "send") \/ (At(w, "fetch") /\ ~Text(w))
      /\ litter' = IF Text(w) /\ job[w].fetched /\ temp[File(w)] # NoTemp
                     THEN litter \cup {File(w)} ELSE litter
  BY DEF ShapeInv, SendSigPipe, At
<1>2. Grows
  BY <1>1 DEF Shape, Grows, Cached, Text
<1> QED BY <1>1, <1>2, GotoLeaves

LEMMA EndIs ==
  ASSUME ShapeInv, NEW w \in Workers, End(w)
  PROVE  /\ At(w, "sent") /\ Leaves(w, "idle") /\ UNCHANGED <<store, history>> /\ Grows
         /\ IF Text(w) /\ job[w].fetched
              THEN /\ temp' = [temp EXCEPT ![File(w)] = NoTemp]
                   /\ \A v \in Workers : v # w /\ File(v) # File(w) => job'[v] = job[v]
              ELSE UNCHANGED temp /\ \A v \in Workers : v # w => job'[v] = job[v]
<1> Shape
  BY DEF ShapeInv
<1>1. At(w, "sent") /\ up /\ UNCHANGED <<store, history>>
  BY DEF End, At
<1>2. CASE Text(w) /\ job[w].fetched
  <2> DEFINE t(v) == job[v].linked /\ File(v) # File(w)
             k(v) == [job[v] EXCEPT !.linked = t(v)]
  <2>1. /\ temp' = [temp EXCEPT ![File(w)] = NoTemp] /\ pc' = [pc EXCEPT ![w] = "idle"]
        /\ job' = [v \in Workers |-> IF v = w THEN NoJob ELSE k(v)] /\ up' = up
    BY <1>2 DEF End, Removed
  <2>2. \A v \in Workers : t(v) \in BOOLEAN /\ (File(v) # File(w) => t(v) = job[v].linked)
    <3>1. \A v \in Workers : job[v].linked \in BOOLEAN
      BY DEF Shape, Jobs
    <3> QED BY <3>1
  <2> HIDE DEF t
  <2>3. \A v \in Workers : /\ k(v) \in Jobs /\ k(v).linked = t(v)
                           /\ k(v) = [job[v] EXCEPT !.linked = t(v)]
                           /\ t(v) = job[v].linked => k(v) = job[v]
    <3>1. \A v \in Workers : job[v] \in Jobs
      BY JobIs
    <3> QED BY <2>2, <3>1 DEF Jobs
  <2> HIDE DEF k
  <2>4. /\ job'[w] = NoJob /\ \A v \in Workers : v # w => job'[v] = k(v)
        /\ job' \in [Workers -> Jobs]
    BY <2>1, <2>3, NoJobIs
  <2>5. /\ pc' \in [Workers -> PCs] /\ pc'[w] = "idle"
        /\ \A v \in Workers : v # w => pc'[v] = pc[v]
    BY <2>1 DEF Shape, PCs
  <2>6. Leaves(w, "idle")
    BY <1>1, <2>1, <2>3, <2>4, <2>5 DEF Leaves
  <2>7. \A v \in Workers : v # w /\ File(v) # File(w) => job'[v] = job[v]
    BY <2>2, <2>3, <2>4
  <2>8. temp' \in [Pages -> 0 .. NoTemp]
    <3>1. NoTemp \in 0 .. NoTemp
      BY Constants
    <3> QED BY <2>1, <3>1 DEF Shape
  <2>9. Grows
    BY <1>1, <2>8 DEF Shape, Grows, Cached, history
  <2> QED BY <1>1, <1>2, <2>1, <2>6, <2>7, <2>9
<1>3. CASE ~(Text(w) /\ job[w].fetched)
  <2>1. Goto(w, "idle", NoJob) /\ UNCHANGED temp
    BY <1>3 DEF End, Leave
  <2> QED BY <1>1, <1>3, <2>1, NoStoreGrows, GotoLeaves
<1> QED BY <1>2, <1>3

LEMMA StopIs ==
  ASSUME ShapeInv, NEW lost \in SUBSET Files, Stop(lost)
  PROVE  /\ up' = FALSE /\ pc' \in [Workers -> PCs] /\ job' \in [Workers -> Jobs]
         /\ \A w \in Workers : pc'[w] = "idle" /\ job'[w] = NoJob
         /\ hurt' \subseteq Files /\ mixed' = mixed /\ litter' \subseteq Pages
         /\ hurt \cup lost \subseteq hurt' /\ litter' = {f \in Pages : temp[f] # NoTemp}
         /\ \A w \in Workers : pc[w] = "flush" \/ (pc[w] = "download" /\ ~Text(w)) =>
              File(w) \in hurt'
<1> Shape
  BY DEF ShapeInv
<1>1. \A w \in Workers : pc[w] = "flush" \/ (pc[w] = "download" /\ ~Text(w)) => File(w) \in hurt'
  BY JobIs DEF Stop
<1>2. "idle" \in PCs
  BY DEF PCs
<1> QED BY <1>1, <1>2, NoJobIs DEF Stop, Shape

(* A crash of the process while a page without text is appended.           *)
LEMMA AppendCrashIs ==
  ASSUME ShapeInv, NEW w \in Workers, AppendCrash(w)
  PROVE  /\ At(w, "append") /\ Stop({File(w)}) /\ File(w) \in Pages
         /\ {File(w)} \in SUBSET Files /\ UNCHANGED temp /\ Grows
         /\ \A f \in Files : f # File(w) => store'[f] = store[f]
<1> Shape /\ File(w) \in Files
  BY JobIs DEF ShapeInv
<1>1. /\ At(w, "append") /\ Stop({File(w)}) /\ UNCHANGED temp
      /\ store' = [store EXCEPT ![File(w)] = IF @ = NoFile THEN <<>> ELSE @]
  BY DEF AppendCrash, CreateCached
<1>2. Text(w)
  BY <1>1 DEF ShapeInv, Places, PlaceOf, At, Text, File
<1>3. /\ store' \in [Files -> Seq(Pieces) \cup {NoFile}]
      /\ \A g \in Files : Cached(g) => Cached(g)'
      /\ \A g \in Files : g # File(w) => store'[g] = store[g]
  BY <1>1, Creates
<1>4. {File(w)} \in SUBSET Files
  OBVIOUS
<1>5. Grows
  BY <1>1, <1>3, <1>4, StopIs DEF Grows, Shape
<1> QED BY <1>1, <1>2, <1>3, <1>4, <1>5 DEF Text

-----------------------------------------------------------------------------
(* ShapeInv is inductive.                                                  *)
LEMMA MovesShape ==
  ASSUME ShapeInv, NEW w \in Workers, NEW l \in PCs, Moves(w, l), Grows,
         pc[w] \notin {"idle", "dead"}, PlaceOf(l, job[w])'
  PROVE  ShapeInv'
<1> Shape
  BY DEF ShapeInv
<1>1. Shape'
  BY DEF Shape, Moves, Grows
<1>2. Places'
  <2> SUFFICES ASSUME NEW v \in Workers
               PROVE  PlaceOf(pc[v], job[v])'
    BY DEF Places
  <2>1. CASE v = w
    BY <2>1 DEF Moves, PlaceOf
  <2>2. CASE v # w
    <3>1. pc'[v] = pc[v] /\ job'[v] = job[v] /\ PlaceOf(pc[v], job[v])
      BY <2>2 DEF Moves, ShapeInv, Places
    <3>2. job[v].file \in Files
      BY JobIs DEF File
    <3> QED BY <3>1, <3>2 DEF PlaceOf, Grows, Cached
  <2> QED BY <2>1, <2>2
<1>3. Alone'
  <2> SUFFICES ASSUME NEW u \in Workers, job'[u].solo, NEW v \in Workers, v # u,
                      Asks(v, File(u))'
               PROVE  FALSE
    BY DEF Alone
  <2>1. job[u].solo /\ Asks(v, File(u))
    BY DEF Moves, Asks, File
  <2> QED BY <2>1 DEF ShapeInv, Alone
<1> QED BY <1>1, <1>2, <1>3 DEF ShapeInv

LEMMA LeavesShape ==
  ASSUME ShapeInv, NEW w \in Workers, NEW l, Leaves(w, l), Grows
  PROVE  ShapeInv'
<1> Shape
  BY DEF ShapeInv
<1>1. Shape'
  BY DEF Shape, Leaves, Grows
<1>2. ASSUME NEW v \in Workers, v # w
      PROVE  /\ pc'[v] = pc[v] /\ job'[v].file = job[v].file /\ job'[v].solo = job[v].solo
             /\ job'[v].pos = job[v].pos /\ job'[v].fetched = job[v].fetched
             /\ job'[v].got = job[v].got /\ job'[v].text = job[v].text
  <2>1. pc'[v] = pc[v] /\ job[v] \in Jobs /\ job'[v] = [job[v] EXCEPT !.linked = job'[v].linked]
    BY <1>2, JobIs DEF Leaves
  <2> QED BY <2>1 DEF Jobs
<1>3. Places'
  <2> SUFFICES ASSUME NEW v \in Workers
               PROVE  PlaceOf(pc[v], job[v])'
    BY DEF Places
  <2>1. CASE v = w
    <3>1. pc'[v] \in {"idle", "dead"} /\ job'[v] = NoJob
      BY <2>1 DEF Leaves
    <3> QED BY <3>1, NoJobIs DEF PlaceOf
  <2>2. CASE v # w
    <3>1. PlaceOf(pc[v], job[v]) /\ job[v].file \in Files
      BY JobIs DEF ShapeInv, Places, File
    <3> QED BY <1>2, <2>2, <3>1 DEF PlaceOf, Grows, Cached
  <2> QED BY <2>1, <2>2
<1>4. Alone'
  <2> SUFFICES ASSUME NEW u \in Workers, job'[u].solo, NEW v \in Workers, v # u,
                      Asks(v, File(u))'
               PROVE  FALSE
    BY DEF Alone
  <2>1. u # w
    BY NoJobIs DEF Leaves
  <2>2. v # w
    BY DEF Leaves, Asks
  <2>3. job[u].solo /\ Asks(v, File(u))
    BY <1>2, <2>1, <2>2 DEF Asks, File
  <2> QED BY <2>3 DEF ShapeInv, Alone
<1> QED BY <1>1, <1>3, <1>4 DEF ShapeInv

LEMMA RequestShape ==
  ASSUME ShapeInv, NEW w \in Workers, NEW f \in Files, Request(w, f)
  PROVE  ShapeInv'
<1> Shape
  BY DEF ShapeInv
<1>1. Shape'
  BY RequestIs DEF Shape, history
<1>2. /\ pc'[w] = "begin" /\ job'[w].file = f /\ job'[w].pos = 0 /\ job'[w].got = <<>>
      /\ job'[w].solo => \A u \in Workers : ~Asks(u, f)
  BY RequestIs
<1>3. ASSUME NEW v \in Workers, v # w
      PROVE  /\ pc'[v] = pc[v] /\ job'[v].file = job[v].file
             /\ job'[v].solo => job[v].solo /\ ~Asks(v, f)
             /\ job'[v].pos = job[v].pos /\ job'[v].fetched = job[v].fetched
             /\ job'[v].got = job[v].got /\ job'[v].text = job[v].text
  <2>1. /\ pc'[v] = pc[v] /\ job[v] \in Jobs /\ job'[v] = [job[v] EXCEPT !.solo = job'[v].solo]
        /\ job'[v].solo => job[v].solo /\ ~Asks(v, f)
    BY <1>3, JobIs, RequestIs
  <2> QED BY <2>1 DEF Jobs
<1>4. Places'
  <2> SUFFICES ASSUME NEW v \in Workers
               PROVE  PlaceOf(pc[v], job[v])'
    BY DEF Places
  <2>1. CASE v = w
    BY <1>2, <2>1 DEF PlaceOf
  <2>2. CASE v # w
    <3>1. PlaceOf(pc[v], job[v]) /\ UNCHANGED store
      BY RequestIs DEF ShapeInv, Places
    <3> QED BY <1>3, <2>2, <3>1 DEF PlaceOf, Cached
  <2> QED BY <2>1, <2>2
<1>5. Alone'
  <2> SUFFICES ASSUME NEW u \in Workers, job'[u].solo, NEW v \in Workers, v # u,
                      Asks(v, File(u))'
               PROVE  FALSE
    BY DEF Alone
  <2>1. CASE u = w
    BY <1>2, <1>3, <2>1 DEF Asks, File
  <2>2. CASE u # w
    <3>1. job[u].solo /\ ~Asks(u, f) /\ job'[u].file = job[u].file /\ pc'[u] = pc[u]
      BY <1>3, <2>2
    <3>2. pc[u] \notin {"idle", "dead"}
      BY <3>1 DEF ShapeInv, Places, PlaceOf
    <3>3. CASE v = w
      BY <1>2, <3>1, <3>2, <3>3 DEF Asks, File
    <3>4. CASE v # w
      <4>1. Asks(v, File(u))
        BY <1>3, <3>1, <3>4 DEF Asks, File
      <4> QED BY <3>1, <4>1 DEF ShapeInv, Alone
    <3> QED BY <3>3, <3>4
  <2> QED BY <2>1, <2>2
<1> QED BY <1>1, <1>4, <1>5 DEF ShapeInv

LEMMA StopShape ==
  ASSUME ShapeInv, NEW lost \in SUBSET Files, Stop(lost),
         store' \in [Files -> Seq(Pieces) \cup {NoFile}], temp' = temp
  PROVE  ShapeInv'
<1>1. /\ up' = FALSE /\ pc' \in [Workers -> PCs] /\ job' \in [Workers -> Jobs]
      /\ \A w \in Workers : pc'[w] = "idle" /\ job'[w] = NoJob
      /\ hurt' \subseteq Files /\ mixed' = mixed /\ litter' \subseteq Pages
  BY StopIs
<1>2. Shape'
  BY <1>1 DEF ShapeInv, Shape
<1>3. Places' /\ Alone'
  BY <1>1, NoJobIs DEF Places, PlaceOf, Alone
<1> QED BY <1>2, <1>3 DEF ShapeInv

LEMMA InitShape == Init => ShapeInv
<1> SUFFICES ASSUME Init
             PROVE  ShapeInv
  OBVIOUS
<1>1. Shape
  BY Constants, NoJobIs DEF Init, Shape, PCs
<1>2. Places /\ Alone
  BY NoJobIs DEF Init, Places, PlaceOf, Alone
<1> QED BY <1>1, <1>2 DEF ShapeInv

LEMMA StepShape == ShapeInv /\ [Next]_vars => ShapeInv'
<1> SUFFICES ASSUME ShapeInv, [Next]_vars
             PROVE  ShapeInv'
  OBVIOUS
<1> Shape
  BY DEF ShapeInv
<1>1. ASSUME NEW w \in Workers, NEW l \in PCs, Moves(w, l)
      PROVE  /\ File(w)' = File(w) /\ job'[w] \in Jobs /\ l = pc'[w]
             /\ PlaceOf(pc[w], job[w]) /\ pc[w] \in PCs
             /\ Text(w)' <=> Text(w)
  BY <1>1 DEF Moves, File, Text, ShapeInv, Places, Shape
<1>2. ASSUME NEW w \in Workers, Begin(w) PROVE ShapeInv'
  <2>1. PICK l \in {"head", "fetch"} : /\ Moves(w, l) /\ (l = "head" <=> Cached(File(w)))
                                      /\ (l = "fetch" => job'[w].fetched)
    BY <1>2, BeginIs
  <2>2. UNCHANGED <<store, temp, history>> /\ At(w, "begin") /\ Grows
    BY <1>2, NoStoreGrows DEF Begin
  <2>3. l \in PCs
    BY DEF PCs
  <2>4. PlaceOf(l, job[w])'
    <3>1. job'[w].pos = job[w].pos /\ job'[w].got = job[w].got
      BY <1>2, BeginIs
    <3> QED BY <1>1, <2>1, <2>2, <2>3, <3>1 DEF PlaceOf, At, Cached, File
  <2> QED BY <2>1, <2>2, <2>3, <2>4, MovesShape DEF At
<1>3. ASSUME NEW w \in Workers, FetchOpen(w) PROVE ShapeInv'
  <2>1. Grows /\ Moves(w, "download") /\ At(w, "fetch") /\ "download" \in PCs
    BY <1>3, FetchOpenGrows, FetchOpenIs DEF PCs
  <2>2. PlaceOf("download", job[w])'
    <3>1. job'[w].fetched = job[w].fetched /\ job'[w].got = job[w].got
      BY <1>3, FetchOpenIs
    <3>2. ~Text(w) => store'[File(w)] \in Seq(Pieces)
      BY <1>3, FetchOpenGrows
    <3> QED BY <1>1, <2>1, <3>1, <3>2, Constants DEF PlaceOf, At, Cached, File, Text
  <2> QED BY <2>1, <2>2, MovesShape DEF At
<1>4. ASSUME NEW w \in Workers, Download(w) PROVE ShapeInv'
  <2>1. Grows /\ Moves(w, "download") /\ At(w, "download") /\ "download" \in PCs
    BY <1>4, DownloadGrows, DownloadIs DEF PCs
  <2>2. PlaceOf("download", job[w])'
    <3>1. job'[w].fetched = job[w].fetched /\ job'[w].got = job[w].got
      BY <1>4, DownloadIs
    <3>2. job[w].file \in Files
      BY JobIs DEF File
    <3> QED BY <1>1, <2>1, <3>1, <3>2 DEF PlaceOf, At, Cached, File, Grows
  <2> QED BY <2>1, <2>2, MovesShape DEF At
<1>5. ASSUME NEW w \in Workers, Downloaded(w) PROVE ShapeInv'
  <2>0. PICK l : l = IF Text(w) THEN "open" ELSE "reopen"
    OBVIOUS
  <2>1. Moves(w, l) /\ At(w, "download") /\ l \in PCs /\ job'[w] = job[w]
    BY <1>5, <2>0, DownloadedIs DEF PCs
  <2>2. Grows
    <3>1. UNCHANGED <<store, temp>> /\ (Fills(w, TRUE) \/ Fills(w, FALSE))
      BY <1>5 DEF Downloaded, Fills
    <3>2. hurt' \subseteq Files /\ mixed' \subseteq Files /\ litter' \subseteq Pages
      BY <3>1, FillsIs
    <3> QED BY <3>1, <3>2 DEF Grows, Shape, Cached
  <2>3. PlaceOf(l, job[w])'
    <3>1. PlaceOf(pc[w], job[w]) /\ pc[w] = "download" /\ UNCHANGED store /\ job'[w].got = <<>>
      BY <1>1, <1>5, <2>1 DEF At, Downloaded, PlaceOf
    <3>2. CASE Text(w)
      BY <2>0, <2>1, <3>1, <3>2 DEF PlaceOf, Cached, Text, File
    <3>3. CASE ~Text(w)
      BY <2>0, <2>1, <3>1, <3>3 DEF PlaceOf, Cached, Text, File
    <3> QED BY <3>2, <3>3
  <2> QED BY <2>1, <2>2, <2>3, MovesShape DEF At
<1>6. ASSUME NEW w \in Workers, Open(w) PROVE ShapeInv'
  <2>1. Moves(w, "append") /\ At(w, "open") /\ "append" \in PCs
    BY <1>6, OpenIs DEF PCs
  <2>2. UNCHANGED <<store, temp, history>> /\ Grows
    BY <1>6, NoStoreGrows DEF Open
  <2>3. PlaceOf("append", job[w])'
    <3>1. job'[w].fetched = job[w].fetched /\ job'[w].got = job[w].got /\ Text(w)
      BY <1>6, OpenIs
    <3> QED BY <1>1, <2>1, <3>1 DEF PlaceOf, At, Cached, File, Text
  <2> QED BY <2>1, <2>2, <2>3, MovesShape DEF At
<1>7. ASSUME NEW w \in Workers, AppendOpen(w) PROVE ShapeInv'
  <2>1. Grows /\ Moves(w, "flush") /\ At(w, "append") /\ "flush" \in PCs /\ Text(w)
    BY <1>7, AppendOpenGrows, AppendOpenIs DEF PCs
  <2>2. Cached(File(w))'
    <3>1. store' = [store EXCEPT ![File(w)] = IF @ = NoFile THEN <<>> ELSE @] /\ File(w) \in Files
      BY <1>7, JobIs DEF AppendOpen, CreateCached
    <3>2. store'[File(w)] \in Seq(Pieces)
      BY <3>1, Creates
    <3> QED BY <1>1, <2>1, <3>2, Constants DEF Cached
  <2>3. PlaceOf("flush", job[w])'
    <3>1. /\ job'[w].fetched = job[w].fetched /\ job'[w].got = job[w].got
          /\ job'[w].pos = 0 /\ job'[w].text \in 1 .. FileLen
      BY <1>7, AppendOpenIs
    <3>2. 0 < job'[w].text
      BY <3>1, Constants
    <3> QED BY <1>1, <2>1, <2>2, <3>1, <3>2 DEF PlaceOf, At, File, Text
  <2> QED BY <2>1, <2>3, MovesShape DEF At
<1>8. ASSUME NEW w \in Workers, Flush(w) PROVE ShapeInv'
  <2>1. Grows /\ At(w, "flush") /\ "flush" \in PCs /\ "reopen" \in PCs /\ Text(w)
    BY <1>8, FlushGrows, FlushDoes DEF PCs
  <2>2. /\ job'[w].fetched = job[w].fetched /\ job'[w].got = job[w].got
        /\ store'[File(w)] \in Seq(Pieces)
    BY <1>8, FlushDoes
  <2>3. PICK n \in 1 .. FileLen :
          /\ n <= job[w].text
          /\ IF n = job[w].text
               THEN Moves(w, "reopen") /\ job'[w].pos = 0 /\ job'[w].text = 0
               ELSE Moves(w, "flush") /\ job'[w].pos = n /\ job'[w].text = job[w].text
    BY <1>8, FlushDoes
  <2>4. CASE n = job[w].text
    <3>1. PlaceOf("reopen", job[w])'
      BY <1>1, <2>1, <2>2, <2>3, <2>4, Constants DEF PlaceOf, At, Cached, File, Text
    <3> QED BY <2>1, <2>3, <2>4, <3>1, MovesShape DEF At
  <2>5. CASE n # job[w].text
    <3>1. n < job[w].text
      BY <2>3, <2>5, JobIs, Constants
    <3>2. PlaceOf("flush", job[w])'
      BY <1>1, <2>1, <2>2, <2>3, <2>5, <3>1, Constants DEF PlaceOf, At, Cached, File, Text
    <3> QED BY <2>1, <2>3, <2>5, <3>2, MovesShape DEF At
  <2> QED BY <2>4, <2>5
<1>9. ASSUME NEW w \in Workers, Reopen(w) PROVE ShapeInv'
  <2>1. Moves(w, "head") /\ At(w, "reopen") /\ "head" \in PCs
    BY <1>9, ReopenIs DEF PCs
  <2>2. UNCHANGED <<store, temp, history>> /\ Grows
    BY <1>9, NoStoreGrows DEF Reopen
  <2>3. PlaceOf("head", job[w])'
    <3>1. job'[w].fetched = job[w].fetched /\ job'[w].got = job[w].got
      BY <1>9, ReopenIs
    <3> QED BY <1>1, <2>1, <2>2, <3>1 DEF PlaceOf, At, Cached, File
  <2> QED BY <2>1, <2>2, <2>3, MovesShape DEF At
<1>10. ASSUME NEW w \in Workers, SendHead(w) PROVE ShapeInv'
  <2>1. Moves(w, "send") /\ At(w, "head") /\ "send" \in PCs
    BY <1>10, SendHeadIs DEF PCs
  <2>2. UNCHANGED <<store, temp, history>> /\ Grows
    BY <1>10, NoStoreGrows DEF SendHead
  <2>3. PlaceOf("send", job[w])'
    BY <1>1, <2>1, <2>2 DEF PlaceOf, At, Cached, File
  <2> QED BY <2>1, <2>2, <2>3, MovesShape DEF At
<1>11. ASSUME NEW w \in Workers, SendBlock(w) PROVE ShapeInv'
  <2>1. PICK l \in {"send", "sent", "spin"} : Moves(w, l) /\ (l = "spin" => Text(w))
    BY <1>11, SendBlockIs
  <2>2. UNCHANGED <<store, temp, history>> /\ At(w, "send") /\ Grows
    BY <1>11, NoStoreGrows DEF SendBlock
  <2>3. l \in PCs
    BY DEF PCs
  <2>4. PlaceOf(l, job[w])'
    BY <1>1, <2>1, <2>2, <2>3 DEF PlaceOf, At, Cached, File, Text
  <2> QED BY <2>1, <2>2, <2>3, <2>4, MovesShape DEF At
<1>12. ASSUME NEW w \in Workers, FetchFails(w) \/ SendSigPipe(w) \/ End(w) PROVE ShapeInv'
  <2>1. Grows /\ \E l : Leaves(w, l)
    BY <1>12, FetchFailsIs, SendSigPipeIs, EndIs
  <2> QED BY <2>1, LeavesShape
<1>13. ASSUME NEW w \in Workers, AppendCrash(w) PROVE ShapeInv'
  BY <1>13, AppendCrashIs, StopShape DEF Grows
<1>14. CASE Crash
  BY <1>14, StopShape DEF Crash, Shape
<1>15. CASE Restart
  BY <1>15 DEF Restart, ShapeInv, Shape, Places, PlaceOf, Cached, Alone, Asks, File, history
<1>16. CASE UNCHANGED vars
  BY <1>16 DEF vars, ShapeInv, Shape, Places, PlaceOf, Cached, Alone, Asks, File, history
<1> QED BY <1>2, <1>3, <1>4, <1>5, <1>6, <1>7, <1>8, <1>9, <1>10, <1>11, <1>12, <1>13, <1>14,
           <1>15, <1>16, RequestShape DEF Next, Step

-----------------------------------------------------------------------------
(* The temporary file of a request that has its page to itself is the one  *)
(* it writes to, and at least as long as what it has written.              *)
OwnTemp(w) == job[w].solo =>
  /\ Text(w) /\ pc[w] \in {"download", "open"} =>
       job[w].linked /\ temp[File(w)] \in job[w].pos .. FileLen
  /\ pc[w] = "append" => job[w].text >= job[w].pos
TempInv == TempRemoved /\ \A w \in Workers : OwnTemp(w)

LEMMA MovesRemoved ==
  ASSUME Shape, TempRemoved, NEW w \in Workers, NEW l, Moves(w, l), litter \subseteq litter',
         \A f \in Pages : temp'[f] # NoTemp => temp[f] # NoTemp,
         \/ pc[w] \in {"begin", "fetch"}
         \/ /\ l \notin {"idle", "dead", "begin", "fetch"}
            /\ job'[w].fetched = job[w].fetched
  PROVE  TempRemoved'
<1> SUFFICES ASSUME NEW f \in Pages \ litter', temp'[f] # NoTemp
             PROVE  \E v \in Workers : /\ File(v)' = f /\ job'[v].fetched
                                       /\ pc'[v] \notin {"idle", "dead", "begin", "fetch"}
  BY DEF TempRemoved
<1>1. PICK v \in Workers : /\ File(v) = f /\ job[v].fetched
                           /\ pc[v] \notin {"idle", "dead", "begin", "fetch"}
  BY DEF TempRemoved
<1> QED BY <1>1 DEF Moves, File

(* Nobody else's step touches what a request that has its file to itself   *)
(* works with.                                                             *)
LEMMA OthersTemp ==
  ASSUME ShapeInv, \A v \in Workers : OwnTemp(v), NEW w \in Workers,
         pc[w] \notin {"idle", "dead"},
         \A f \in Pages : f # File(w) => temp'[f] = temp[f],
         NEW u \in Workers, u # w, pc'[u] = pc[u],
         File(u) # File(w) => job'[u] = job[u], job'[u].solo = job[u].solo
  PROVE  OwnTemp(u)'
<1> SUFFICES ASSUME job'[u].solo PROVE OwnTemp(u)'
  BY DEF OwnTemp
<1>1. File(u) # File(w)
  BY DEF ShapeInv, Alone, Asks
<1>2. job'[u] = job[u] /\ OwnTemp(u) /\ (Text(u) => temp'[File(u)] = temp[File(u)])
  BY <1>1 DEF Text
<1> QED BY <1>2 DEF OwnTemp, Text, File

LEMMA MovesTemp ==
  ASSUME ShapeInv, TempInv, NEW w \in Workers, NEW l, Moves(w, l),
         pc[w] \notin {"idle", "dead"},
         \A f \in Pages : f # File(w) => temp'[f] = temp[f],
         TempRemoved', OwnTemp(w)'
  PROVE  TempInv'
<1> SUFFICES ASSUME NEW u \in Workers, u # w
             PROVE  OwnTemp(u)'
  BY DEF TempInv
<1>1. pc'[u] = pc[u] /\ job'[u] = job[u]
  BY DEF Moves
<1> QED BY <1>1, OthersTemp DEF TempInv

LEMMA LeavesTemp ==
  ASSUME ShapeInv, TempInv, NEW w \in Workers, NEW l, Leaves(w, l),
         pc[w] \notin {"idle", "dead"},
         \A f \in Pages : f # File(w) => temp'[f] = temp[f],
         \A v \in Workers : v # w /\ File(v) # File(w) => job'[v] = job[v],
         TempRemoved'
  PROVE  TempInv'
<1> SUFFICES ASSUME NEW u \in Workers
             PROVE  OwnTemp(u)'
  BY DEF TempInv
<1>1. CASE u = w
  BY <1>1, NoJobIs DEF Leaves, OwnTemp
<1>2. CASE u # w
  <2>1. job[u] \in Jobs /\ pc'[u] = pc[u] /\ job'[u] = [job[u] EXCEPT !.linked = job'[u].linked]
    BY <1>2, JobIs DEF Leaves, ShapeInv
  <2>2. job'[u].solo = job[u].solo
    BY <2>1 DEF Jobs
  <2> QED BY <1>2, <2>1, <2>2, OthersTemp DEF TempInv
<1> QED BY <1>1, <1>2

LEMMA LeavesRemoved ==
  ASSUME ShapeInv, TempRemoved, NEW w \in Workers, NEW l, Leaves(w, l), litter \subseteq litter',
         \A f \in Pages : temp'[f] # NoTemp => temp[f] # NoTemp,
         \/ pc[w] \in {"begin", "fetch"}
         \/ ~(Text(w) /\ job[w].fetched)
         \/ temp'[File(w)] = NoTemp
         \/ temp[File(w)] # NoTemp => File(w) \in litter'
  PROVE  TempRemoved'
<1> SUFFICES ASSUME NEW f \in Pages \ litter', temp'[f] # NoTemp
             PROVE  \E v \in Workers : /\ File(v)' = f /\ job'[v].fetched
                                       /\ pc'[v] \notin {"idle", "dead", "begin", "fetch"}
  BY DEF TempRemoved
<1>1. PICK v \in Workers : /\ File(v) = f /\ job[v].fetched
                           /\ pc[v] \notin {"idle", "dead", "begin", "fetch"}
  BY DEF TempRemoved
<1>2. v # w
  BY <1>1 DEF Text
<1>3. job[v] \in Jobs /\ pc'[v] = pc[v] /\ job'[v] = [job[v] EXCEPT !.linked = job'[v].linked]
  BY <1>2, JobIs DEF Leaves, ShapeInv
<1>4. job'[v].file = job[v].file /\ job'[v].fetched = job[v].fetched
  BY <1>3 DEF Jobs
<1> QED BY <1>1, <1>3, <1>4 DEF File

LEMMA StopTemp ==
  ASSUME ShapeInv, NEW lost \in SUBSET Files, Stop(lost), temp' = temp
  PROVE  TempInv'
<1>1. /\ litter' = {f \in Pages : temp[f] # NoTemp}
      /\ \A w \in Workers : job'[w] = NoJob
  BY StopIs
<1> QED BY <1>1, NoJobIs DEF TempInv, TempRemoved, OwnTemp

LEMMA RequestTemp ==
  ASSUME ShapeInv, TempInv, NEW w \in Workers, NEW f \in Files, Request(w, f)
  PROVE  TempInv'
<1>1. /\ At(w, "idle") /\ UNCHANGED <<temp, litter>> /\ pc'[w] = "begin"
  BY RequestIs DEF history
<1>2. ASSUME NEW v \in Workers, v # w
      PROVE  /\ pc'[v] = pc[v] /\ job'[v].file = job[v].file
             /\ job'[v].solo => job[v].solo
             /\ job'[v].pos = job[v].pos /\ job'[v].fetched = job[v].fetched
             /\ job'[v].text = job[v].text /\ job'[v].linked = job[v].linked
  <2>1. /\ pc'[v] = pc[v] /\ job[v] \in Jobs /\ job'[v] = [job[v] EXCEPT !.solo = job'[v].solo]
        /\ job'[v].solo => job[v].solo
    BY <1>2, JobIs, RequestIs DEF ShapeInv
  <2> QED BY <2>1 DEF Jobs
<1>3. TempRemoved'
  <2> SUFFICES ASSUME NEW g \in Pages \ litter', temp'[g] # NoTemp
               PROVE  \E v \in Workers : /\ File(v)' = g /\ job'[v].fetched
                                         /\ pc'[v] \notin {"idle", "dead", "begin", "fetch"}
    BY DEF TempRemoved
  <2>1. PICK v \in Workers : /\ File(v) = g /\ job[v].fetched
                             /\ pc[v] \notin {"idle", "dead", "begin", "fetch"}
    BY <1>1 DEF TempInv, TempRemoved
  <2>2. v # w
    BY <1>1, <2>1 DEF At
  <2> QED BY <1>2, <2>1, <2>2 DEF File
<1>4. ASSUME NEW v \in Workers
      PROVE  OwnTemp(v)'
  <2>1. CASE v = w
    BY <1>1, <2>1 DEF OwnTemp
  <2>2. CASE v # w
    <3>1. OwnTemp(v)
      BY DEF TempInv
    <3> QED BY <1>1, <1>2, <2>2, <3>1 DEF OwnTemp, Text, File
  <2> QED BY <2>1, <2>2
<1> QED BY <1>3, <1>4 DEF TempInv

LEMMA StepTemp == ShapeInv /\ TempInv /\ [Next]_vars => TempInv'
<1> SUFFICES ASSUME ShapeInv, TempInv, [Next]_vars
             PROVE  TempInv'
  OBVIOUS
<1> Shape /\ TempRemoved
  BY DEF ShapeInv, TempInv
<1>1. ASSUME NEW w \in Workers, NEW l, Moves(w, l)
      PROVE  /\ File(w)' = File(w) /\ (Text(w)' <=> Text(w)) /\ pc'[w] = l
             /\ job'[w].solo = job[w].solo /\ OwnTemp(w)
             /\ Text(w) => temp[File(w)] \in 0 .. NoTemp
  BY <1>1 DEF Moves, File, Text, Shape, TempInv
(* Steps that leave the temporary files alone.                             *)
<1>2. ASSUME NEW w \in Workers, NEW l, Moves(w, l), UNCHANGED <<temp, litter>>,
             \/ pc[w] = "begin"
             \/ /\ pc[w] \notin {"idle", "dead", "begin", "fetch"}
                /\ l \notin {"idle", "dead", "begin", "fetch"}
                /\ job'[w].fetched = job[w].fetched,
             l \notin {"download", "open", "append"}
      PROVE  TempInv'
  <2>1. OwnTemp(w)'
    BY <1>1, <1>2 DEF OwnTemp
  <2>2. TempRemoved'
    BY <1>2, MovesRemoved
  <2> QED BY <1>2, <2>1, <2>2, MovesTemp
<1>3. ASSUME NEW w \in Workers, Begin(w) PROVE TempInv'
  <2>1. PICK l \in {"head", "fetch"} : Moves(w, l)
    BY <1>3, BeginIs
  <2>2. UNCHANGED <<temp, litter>> /\ pc[w] = "begin"
    BY <1>3 DEF Begin, history, At
  <2> QED BY <1>2, <2>1, <2>2
<1>4. ASSUME NEW w \in Workers, FetchOpen(w) PROVE TempInv'
  <2>1. Moves(w, "download") /\ pc[w] = "fetch" /\ job'[w].linked /\ job'[w].pos = job[w].pos
    BY <1>4, FetchOpenIs DEF At
  <2>2. job[w].pos = 0
    BY <2>1 DEF ShapeInv, Places, PlaceOf
  <2>3. /\ Text(w) => /\ temp' = [temp EXCEPT ![File(w)] = IF @ = NoTemp THEN 0 ELSE @]
                      /\ temp'[File(w)] = IF temp[File(w)] = NoTemp THEN 0 ELSE temp[File(w)]
                      /\ litter' = litter
        /\ ~Text(w) => temp' = temp /\ litter' = litter
    BY <1>4, FetchOpenGrows DEF history, Fills
  <2>4. OwnTemp(w)'
    <3>1. Text(w) => temp'[File(w)] \in 0 .. FileLen
      BY <1>1, <2>1, <2>3, Constants
    <3> QED BY <1>1, <2>1, <2>2, <3>1 DEF OwnTemp
  <2>5. \A f \in Pages : f # File(w) => temp'[f] = temp[f]
    BY <2>3 DEF Shape
  <2>6. TempRemoved'
    <3> SUFFICES ASSUME NEW f \in Pages \ litter', temp'[f] # NoTemp
                 PROVE  \E v \in Workers : /\ File(v)' = f /\ job'[v].fetched
                                           /\ pc'[v] \notin {"idle", "dead", "begin", "fetch"}
      BY DEF TempRemoved
    <3>1. CASE f = File(w)
      <4>1. job'[w].fetched
        BY <1>4, <2>1, FetchOpenIs DEF ShapeInv, Places, PlaceOf
      <4> QED BY <1>1, <2>1, <3>1, <4>1
    <3>2. CASE f # File(w)
      <4>1. temp[f] # NoTemp /\ f \notin litter
        BY <2>3, <2>5, <3>2
      <4>2. PICK v \in Workers : /\ File(v) = f /\ job[v].fetched
                                 /\ pc[v] \notin {"idle", "dead", "begin", "fetch"}
        BY <4>1 DEF TempRemoved
      <4> QED BY <2>1, <4>2 DEF Moves, File
    <3> QED BY <3>1, <3>2
  <2> QED BY <2>1, <2>4, <2>5, <2>6, MovesTemp
<1>5. ASSUME NEW w \in Workers, Download(w) PROVE TempInv'
  <2> DEFINE n == job[w].pos + 1
  <2>1. /\ Moves(w, "download") /\ pc[w] = "download" /\ job'[w].pos = n /\ n \in 1 .. FileLen
        /\ job'[w].linked = job[w].linked /\ job'[w].fetched = job[w].fetched
    BY <1>5, DownloadIs, Constants DEF At
  <2>2. /\ Text(w) => temp' = IF job[w].linked /\ n > temp[File(w)]
                                THEN [temp EXCEPT ![File(w)] = n] ELSE temp
        /\ ~Text(w) => temp' = temp
        /\ litter' = litter
    BY <1>5, DownloadGrows DEF history, Fills
  <2> HIDE DEF n
  <2>3. OwnTemp(w)'
    <3>1. CASE job[w].solo /\ Text(w)
      <4>1. job[w].linked /\ temp[File(w)] \in job[w].pos .. FileLen
        BY <1>1, <2>1, <3>1 DEF OwnTemp
      <4>2. temp'[File(w)] = IF n > temp[File(w)] THEN n ELSE temp[File(w)]
        BY <2>2, <3>1, <4>1 DEF Shape, Text
      <4>3. temp'[File(w)] \in n .. FileLen
        BY <2>1, <4>1, <4>2, Constants, JobIs
      <4> QED BY <1>1, <2>1, <4>1, <4>3 DEF OwnTemp
    <3>2. CASE ~(job[w].solo /\ Text(w))
      BY <1>1, <2>1, <3>2 DEF OwnTemp
    <3> QED BY <3>1, <3>2
  <2>4. \A f \in Pages : /\ f # File(w) => temp'[f] = temp[f]
                         /\ temp'[f] # NoTemp => temp[f] # NoTemp
    <3> TAKE f \in Pages
    <3>1. CASE Text(w) /\ job[w].linked /\ n > temp[File(w)]
      <4>1. temp' = [temp EXCEPT ![File(w)] = n] /\ temp[File(w)] # NoTemp
        BY <1>1, <2>1, <2>2, <3>1, Constants
      <4> QED BY <4>1 DEF Shape
    <3>2. CASE ~(Text(w) /\ job[w].linked /\ n > temp[File(w)])
      <4>1. temp' = temp
        BY <2>2, <3>2
      <4> QED BY <4>1
    <3> QED BY <3>1, <3>2
  <2>5. TempRemoved'
    BY <2>1, <2>2, <2>4, MovesRemoved
  <2> QED BY <2>1, <2>3, <2>4, <2>5, MovesTemp
<1>6. ASSUME NEW w \in Workers, Downloaded(w) PROVE TempInv'
  <2>0. PICK l : l = IF Text(w) THEN "open" ELSE "reopen"
    OBVIOUS
  <2>1. /\ Moves(w, l) /\ pc[w] = "download" /\ job'[w] = job[w]
        /\ UNCHANGED <<temp, litter>>
    BY <1>6, <2>0, DownloadedIs DEF At, Downloaded, Fills
  <2>2. OwnTemp(w)'
    BY <1>1, <2>0, <2>1 DEF OwnTemp
  <2>3. TempRemoved'
    BY <2>0, <2>1, MovesRemoved
  <2> QED BY <2>1, <2>2, <2>3, MovesTemp
<1>7. ASSUME NEW w \in Workers, Open(w) PROVE TempInv'
  <2>1. /\ Moves(w, "append") /\ pc[w] = "open" /\ Text(w) /\ UNCHANGED <<temp, litter>>
        /\ job'[w].text = IF temp[File(w)] = NoTemp THEN 0 ELSE temp[File(w)]
        /\ job'[w].fetched = job[w].fetched /\ job'[w].pos = job[w].pos
    BY <1>7, OpenIs DEF At, Open, history
  <2>2. OwnTemp(w)'
    <3>1. job[w].solo => temp[File(w)] \in job[w].pos .. FileLen
      BY <1>1, <2>1 DEF OwnTemp
    <3>2. job[w].solo => job'[w].text >= job[w].pos
      BY <2>1, <3>1, Constants, JobIs
    <3> QED BY <1>1, <2>1, <3>2 DEF OwnTemp
  <2>3. TempRemoved'
    BY <2>1, MovesRemoved
  <2> QED BY <2>1, <2>2, <2>3, MovesTemp
<1>8. ASSUME NEW w \in Workers, AppendOpen(w) PROVE TempInv'
  BY <1>2, <1>8, AppendOpenIs DEF At, AppendOpen, Fills
<1>9. ASSUME NEW w \in Workers, Flush(w) PROVE TempInv'
  <2>1. PICK l \in {"reopen", "flush"} : Moves(w, l)
    BY <1>9, FlushDoes
  <2>2. job'[w].fetched = job[w].fetched /\ pc[w] = "flush" /\ UNCHANGED <<temp, litter>>
    BY <1>9, FlushDoes DEF At, Flush, Fills
  <2> QED BY <1>2, <2>1, <2>2
<1>10. ASSUME NEW w \in Workers, Reopen(w) PROVE TempInv'
  BY <1>2, <1>10, ReopenIs DEF At, Reopen, history
<1>11. ASSUME NEW w \in Workers, SendHead(w) PROVE TempInv'
  BY <1>2, <1>11, SendHeadIs DEF At, SendHead, history
<1>12. ASSUME NEW w \in Workers, SendBlock(w) PROVE TempInv'
  <2>1. PICK l \in {"send", "sent", "spin"} : Moves(w, l)
    BY <1>12, SendBlockIs
  <2>2. job'[w].fetched = job[w].fetched /\ pc[w] = "send" /\ UNCHANGED <<temp, litter>>
    BY <1>12, SendBlockIs DEF At, SendBlock, history
  <2> QED BY <1>2, <2>1, <2>2
<1>13. ASSUME NEW w \in Workers, FetchFails(w) PROVE TempInv'
  <2>1. /\ Leaves(w, "idle") /\ pc[w] = "fetch" /\ UNCHANGED <<temp, litter>>
        /\ \A v \in Workers : v # w => job'[v] = job[v]
    BY <1>13, FetchFailsIs DEF At, history
  <2>2. TempRemoved'
    BY <2>1, LeavesRemoved
  <2> QED BY <2>1, <2>2, LeavesTemp
<1>14. ASSUME NEW w \in Workers, SendSigPipe(w) PROVE TempInv'
  <2>1. /\ Leaves(w, "dead") /\ pc[w] \in {"head", "send", "fetch"} /\ temp' = temp
        /\ \A v \in Workers : v # w => job'[v] = job[v]
        /\ litter' = IF Text(w) /\ job[w].fetched /\ temp[File(w)] # NoTemp
                       THEN litter \cup {File(w)} ELSE litter
    BY <1>14, SendSigPipeIs DEF At
  <2>2. /\ litter \subseteq litter'
        /\ Text(w) /\ job[w].fetched /\ temp[File(w)] # NoTemp => File(w) \in litter'
    BY <2>1
  <2>3. TempRemoved'
    BY <2>1, <2>2, LeavesRemoved
  <2> QED BY <2>1, <2>3, LeavesTemp
<1>15. ASSUME NEW w \in Workers, End(w) PROVE TempInv'
  <2>1. /\ Leaves(w, "idle") /\ pc[w] = "sent" /\ litter' = litter
        /\ IF Text(w) /\ job[w].fetched
             THEN /\ temp' = [temp EXCEPT ![File(w)] = NoTemp]
                  /\ \A v \in Workers : v # w /\ File(v) # File(w) => job'[v] = job[v]
             ELSE UNCHANGED temp /\ \A v \in Workers : v # w => job'[v] = job[v]
    BY <1>15, EndIs DEF At, history
  <2>2. /\ \A f \in Pages : /\ f # File(w) => temp'[f] = temp[f]
                            /\ temp'[f] # NoTemp => temp[f] # NoTemp
        /\ \A v \in Workers : v # w /\ File(v) # File(w) => job'[v] = job[v]
        /\ Text(w) /\ job[w].fetched => temp'[File(w)] = NoTemp
    BY <2>1 DEF Shape, Text
  <2>3. TempRemoved'
    BY <2>1, <2>2, LeavesRemoved
  <2> QED BY <2>1, <2>2, <2>3, LeavesTemp
<1>16. ASSUME NEW w \in Workers, AppendCrash(w) PROVE TempInv'
  BY <1>16, AppendCrashIs, StopTemp
<1>17. CASE Crash
  BY <1>17, StopTemp DEF Crash
<1>18. CASE Restart
  BY <1>18 DEF Restart, TempInv, TempRemoved, OwnTemp, Text, File, history
<1>19. CASE UNCHANGED vars
  BY <1>19 DEF vars, TempInv, TempRemoved, OwnTemp, Text, File, history
<1> QED BY <1>3, <1>4, <1>5, <1>6, <1>7, <1>8, <1>9, <1>10, <1>11, <1>12, <1>13, <1>14,
           <1>15, <1>16, <1>17, <1>18, <1>19, RequestTemp DEF Next, Step

(* TempRemoved: a temporary file always has a handler that will remove it, *)
(* or is counted as left behind: search_news_operation.c:112.              *)
THEOREM TempFilesRemoved == Spec => []TempRemoved
<1>1. Init => TempInv
  BY NoJobIs DEF Init, TempInv, TempRemoved, OwnTemp
<1>2. TempInv => TempRemoved
  BY DEF TempInv
<1> QED BY <1>1, <1>2, InitShape, StepShape, StepTemp, PTL DEF Spec

-----------------------------------------------------------------------------
(* What the cached files hold.  A picture is a beginning of the file, each *)
(* of its writers no further than its end; a page is one unless it was cut *)
(* short or filled by two, and then its only writer is about to flush the  *)
(* next piece of a whole file.                                             *)
Begins(s) == Len(s) <= FileLen /\ \A k \in 1 .. Len(s) : s[k] = k

Picture(f) == Cached(f) =>
  /\ Begins(store[f])
  /\ \A w \in Workers : pc[w] = "download" /\ File(w) = f => job[w].pos <= Len(store[f])
  /\ f \notin hurt => \/ Len(store[f]) = FileLen
                      \/ \E w \in Workers : pc[w] = "download" /\ File(w) = f

Page(f) == f \notin hurt \cup mixed /\ Cached(f) =>
  /\ Begins(store[f])
  /\ \A w \in Workers : Filling(w) /\ File(w) = f =>
       /\ pc[w] = "flush" /\ job[w].text = FileLen /\ job[w].pos = Len(store[f])
       /\ \A v \in Workers : v # w => ~(Filling(v) /\ File(v) = f)
  /\ Len(store[f]) = FileLen \/ \E w \in Workers : Filling(w) /\ File(w) = f

Contents == (\A f \in Pictures : Picture(f)) /\ (\A f \in Pages : Page(f))

(* The others stay where they are.                                         *)
Kept(w) == \A v \in Workers : v # w =>
  /\ pc'[v] = pc[v] /\ job'[v].file = job[v].file
  /\ job'[v].pos = job[v].pos /\ job'[v].text = job[v].text
  /\ job'[v].fetched = job[v].fetched
  /\ job'[v].got = job[v].got /\ job'[v].declared = job[v].declared
  /\ job'[v].solo => job[v].solo

LEMMA MovesKept ==
  ASSUME NEW w \in Workers, NEW l, Moves(w, l)
  PROVE  Kept(w)
BY DEF Moves, Kept

LEMMA LeavesKept ==
  ASSUME Shape, NEW w \in Workers, NEW l, Leaves(w, l)
  PROVE  Kept(w)
<1>1. ASSUME NEW v \in Workers, v # w
      PROVE  /\ pc'[v] = pc[v] /\ job[v] \in Jobs
             /\ job'[v] = [job[v] EXCEPT !.linked = job'[v].linked]
  BY <1>1, JobIs DEF Leaves
<1> QED BY <1>1 DEF Jobs, Kept

LEMMA RequestKept ==
  ASSUME ShapeInv, NEW w \in Workers, NEW f \in Files, Request(w, f)
  PROVE  Kept(w)
<1>1. ASSUME NEW v \in Workers, v # w
      PROVE  /\ pc'[v] = pc[v] /\ job[v] \in Jobs
             /\ job'[v] = [job[v] EXCEPT !.solo = job'[v].solo]
             /\ job'[v].solo => job[v].solo
  BY <1>1, JobIs, RequestIs DEF ShapeInv
<1> QED BY <1>1 DEF Jobs, Kept

(* A step of a handler that does not fill f, and will not.                 *)
LEMMA QuietFile ==
  ASSUME NEW w \in Workers, Kept(w), NEW f,
         ~(Filling(w) /\ File(w) = f), ~(Filling(w)' /\ File(w)' = f),
         store'[f] = store[f], hurt \subseteq hurt', mixed \subseteq mixed'
  PROVE  (Picture(f) => Picture(f)') /\ (Page(f) => Page(f)')
<1>1. \A v \in Workers :
        /\ v # w => pc'[v] = pc[v] /\ File(v)' = File(v) /\ (Filling(v)' <=> Filling(v))
        /\ v # w => job'[v].pos = job[v].pos /\ job'[v].text = job[v].text
  BY DEF Kept, File, Filling
<1>2. /\ ~(pc[w] = "download" /\ File(w) = f) /\ ~(pc'[w] = "download" /\ File(w)' = f)
      /\ Cached(f)' <=> Cached(f)
  BY DEF Filling, Cached
<1>3. Picture(f) => Picture(f)'
  BY <1>1, <1>2 DEF Picture
<1>4. Page(f) => Page(f)'
  <2> SUFFICES ASSUME Page(f), f \notin hurt' \cup mixed', Cached(f)'
               PROVE  /\ Begins(store[f])'
                      /\ \A u \in Workers : (Filling(u) /\ File(u) = f)' =>
                           /\ pc'[u] = "flush" /\ job'[u].text = FileLen
                           /\ job'[u].pos = Len(store'[f])
                           /\ \A v \in Workers : v # u => ~(Filling(v) /\ File(v) = f)'
                      /\ \/ Len(store'[f]) = FileLen
                         \/ \E u \in Workers : (Filling(u) /\ File(u) = f)'
    BY DEF Page
  <2>1. f \notin hurt \cup mixed /\ Cached(f)
    BY <1>2
  <2>2. Begins(store[f])'
    BY <2>1 DEF Page, Begins
  <2>3. ASSUME NEW u \in Workers, (Filling(u) /\ File(u) = f)'
        PROVE  /\ pc'[u] = "flush" /\ job'[u].text = FileLen
               /\ job'[u].pos = Len(store'[f])
               /\ \A v \in Workers : v # u => ~(Filling(v) /\ File(v) = f)'
    <3>1. u # w /\ Filling(u) /\ File(u) = f
      BY <1>1, <2>3
    <3>2. /\ pc[u] = "flush" /\ job[u].text = FileLen /\ job[u].pos = Len(store[f])
          /\ \A v \in Workers : v # u => ~(Filling(v) /\ File(v) = f)
      BY <2>1, <3>1 DEF Page
    <3> QED BY <1>1, <3>1, <3>2
  <2>4. \/ Len(store'[f]) = FileLen
        \/ \E u \in Workers : (Filling(u) /\ File(u) = f)'
    BY <1>1, <2>1 DEF Page
  <2> QED BY <2>2, <2>3, <2>4
<1> QED BY <1>3, <1>4

(* While a handler fetches it or reads what it has fetched, an undisturbed *)
(* page is not there.                                                      *)
LEMMA NotThere ==
  ASSUME NEW f, Page(f), NEW w \in Workers, File(w) = f,
         pc[w] \in {"fetch", "download", "open", "append"}, Cached(f)
  PROVE  f \in hurt \cup mixed
BY DEF Page, Filling

LEMMA StopContents ==
  ASSUME ShapeInv, Contents, NEW lost \in SUBSET Files, Stop(lost),
         \A f \in Files : f \notin lost => store'[f] = store[f],
         lost \subseteq Pages
  PROVE  Contents'
<1>1. /\ \A w \in Workers : pc'[w] = "idle"
      /\ mixed' = mixed /\ hurt \cup lost \subseteq hurt'
      /\ \A w \in Workers : pc[w] = "flush" \/ (pc[w] = "download" /\ ~Text(w)) =>
           File(w) \in hurt'
  BY StopIs
<1>2. ASSUME NEW f \in Pictures PROVE Picture(f)'
  <2>1. store'[f] = store[f] /\ Picture(f) /\ f \notin Pages
    BY PageAssumption DEF Files, Contents
  <2>2. \A w \in Workers : pc[w] = "download" /\ File(w) = f => f \in hurt'
    BY <1>1, <2>1 DEF Text
  <2> QED BY <1>1, <2>1, <2>2 DEF Picture, Cached, Begins
<1>3. ASSUME NEW f \in Pages PROVE Page(f)'
  <2> SUFFICES ASSUME f \notin hurt' \cup mixed', Cached(f)'
               PROVE  Page(f)'
    BY DEF Page
  <2>1. store'[f] = store[f] /\ Page(f) /\ f \notin hurt \cup mixed /\ Cached(f)
    BY <1>1 DEF Files, Contents, Cached
  <2>2. \A w \in Workers : ~(Filling(w) /\ File(w) = f)
    BY <1>1, <2>1 DEF Page
  <2>3. \A w \in Workers : ~Filling(w)'
    BY <1>1 DEF Filling
  <2> QED BY <2>1, <2>2, <2>3 DEF Page, Begins
<1> QED BY <1>2, <1>3 DEF Contents

(* Only the file that a step is about needs a look.                        *)
LEMMA OnlyFile ==
  ASSUME Contents, NEW w \in Workers, Kept(w), NEW g, File(w) = g,
         ~Filling(w)' \/ File(w)' = g,
         \A f \in Files : f # g => store'[f] = store[f],
         hurt \subseteq hurt', mixed \subseteq mixed',
         g \in Pictures => Picture(g)', g \in Pages => Page(g)'
  PROVE  Contents'
<1>1. ASSUME NEW f \in Files, f # g
      PROVE  (Picture(f) => Picture(f)') /\ (Page(f) => Page(f)')
  <2>1. /\ ~(Filling(w) /\ File(w) = f) /\ ~(Filling(w)' /\ File(w)' = f)
        /\ store'[f] = store[f]
    BY <1>1
  <2> QED BY <2>1, QuietFile
<1>2. ASSUME NEW f \in Pictures PROVE Picture(f)'
  <2>1. f \in Files /\ Picture(f)
    BY DEF Files, Contents
  <2> QED BY <1>1, <2>1
<1>3. ASSUME NEW f \in Pages PROVE Page(f)'
  <2>1. f \in Files /\ Page(f)
    BY DEF Files, Contents
  <2> QED BY <1>1, <2>1
<1> QED BY <1>2, <1>3 DEF Contents

LEMMA QuietStep ==
  ASSUME Contents, NEW w \in Workers, Kept(w), ~Filling(w), ~Filling(w)',
         store' = store, hurt \subseteq hurt', mixed \subseteq mixed'
  PROVE  Contents'
<1>1. ASSUME NEW f
      PROVE  (Picture(f) => Picture(f)') /\ (Page(f) => Page(f)')
  BY QuietFile
<1> QED BY <1>1 DEF Contents

LEMMA StepContents == ShapeInv /\ Contents /\ [Next]_vars => Contents'
<1> SUFFICES ASSUME ShapeInv, Contents, [Next]_vars
             PROVE  Contents'
  OBVIOUS
<1> Shape
  BY DEF ShapeInv
<1>0. ASSUME NEW w \in Workers
      PROVE  \E g \in Files : /\ g = File(w) /\ (g \in Pages <=> Text(w))
                              /\ (g \in Pictures <=> ~Text(w))
                              /\ g \in Pages => Page(g)
                              /\ g \in Pictures => Picture(g)
  BY JobIs, PageAssumption DEF Files, Text, Contents
(* A step that changes no cached file, towards or within the filling.      *)
<1>1. ASSUME NEW w \in Workers, NEW l, Moves(w, l), UNCHANGED <<store, hurt, mixed>>,
             l = "fetch" => ~Cached(File(w)),
             ~Text(w) => l # "download" /\ pc[w] # "download",
             Text(w) => l = "fetch" \/ pc[w] \in {"fetch", "download", "open", "append"}
      PROVE  Contents'
  <2>1. PICK g \in Files : /\ g = File(w) /\ (g \in Pages <=> Text(w))
                           /\ (g \in Pictures <=> ~Text(w))
                           /\ (g \in Pages => Page(g)) /\ (g \in Pictures => Picture(g))
    BY <1>0
  <2>2. Kept(w) /\ File(w)' = g /\ pc'[w] = l
    BY <1>1, <2>1, MovesKept DEF Moves, File
  <2>3. g \in Pages => Page(g)'
    <3> SUFFICES ASSUME g \in Pages, Cached(g), g \notin hurt \cup mixed
                 PROVE  FALSE
      BY <1>1 DEF Page, Cached
    <3> QED BY <1>1, <2>1, NotThere
  <2>4. g \in Pictures => Picture(g)'
    <3> HAVE g \in Pictures
    <3>1. /\ Picture(g) /\ l # "download" /\ pc[w] # "download"
          /\ Cached(g)' <=> Cached(g)
      BY <1>1, <2>1 DEF Cached
    <3>2. \A v \in Workers : pc'[v] = "download" /\ File(v)' = g <=>
                             pc[v] = "download" /\ File(v) = g
      BY <2>2, <3>1 DEF Kept, File
    <3>3. \A v \in Workers : v # w => job'[v].pos = job[v].pos
      BY <2>2 DEF Kept
    <3> QED BY <1>1, <2>2, <3>1, <3>2, <3>3 DEF Picture, Begins
  <2> QED BY <1>1, <2>1, <2>2, <2>3, <2>4, OnlyFile
<1>2. ASSUME NEW w \in Workers, Begin(w) PROVE Contents'
  <2>1. PICK l \in {"head", "fetch"} : Moves(w, l) /\ (l = "head" <=> Cached(File(w)))
    BY <1>2, BeginIs
  <2>2. UNCHANGED <<store, hurt, mixed>> /\ pc[w] = "begin" /\ pc'[w] = l
    BY <1>2, <2>1 DEF Begin, history, At, Moves
  <2>3. CASE l = "head"
    BY <2>1, <2>2, <2>3, MovesKept, QuietStep DEF Filling
  <2>4. CASE l = "fetch"
    BY <1>1, <2>1, <2>2, <2>4
  <2> QED BY <2>3, <2>4
<1>3. ASSUME NEW w \in Workers, FetchFails(w) \/ SendSigPipe(w) \/ End(w) PROVE Contents'
  <2>1. PICK g \in Files : /\ g = File(w) /\ (g \in Pages <=> Text(w))
                           /\ (g \in Pictures <=> ~Text(w))
                           /\ (g \in Pages => Page(g)) /\ (g \in Pictures => Picture(g))
    BY <1>0
  <2>2. /\ UNCHANGED <<store, hurt, mixed>> /\ \E l \in {"idle", "dead"} : Leaves(w, l)
        /\ pc[w] \in {"fetch", "head", "send", "sent"}
    BY <1>3, FetchFailsIs, SendSigPipeIs, EndIs DEF At, history
  <2>3. Kept(w) /\ ~Filling(w)' /\ pc'[w] # "download"
    BY <2>2, LeavesKept DEF Leaves, Filling
  <2>4. CASE pc[w] # "fetch"
    BY <2>2, <2>3, <2>4, QuietStep DEF Filling
  <2>5. CASE pc[w] = "fetch"
    <3>1. g \in Pages => Page(g)'
      <4> SUFFICES ASSUME g \in Pages, Cached(g), g \notin hurt \cup mixed
                   PROVE  FALSE
        BY <2>2 DEF Page, Cached
      <4> QED BY <2>1, <2>5, NotThere
    <3>2. g \in Pictures => Picture(g)'
      <4> HAVE g \in Pictures
      <4>1. Picture(g) /\ (Cached(g)' <=> Cached(g))
        BY <2>1, <2>2 DEF Cached
      <4>2. \A v \in Workers : pc'[v] = "download" /\ File(v)' = g <=>
                               pc[v] = "download" /\ File(v) = g
        BY <2>3, <2>5 DEF Kept, File
      <4>3. \A v \in Workers : v # w => job'[v].pos = job[v].pos
        BY <2>3 DEF Kept
      <4> QED BY <2>2, <2>3, <4>1, <4>2, <4>3 DEF Picture, Begins
    <3> QED BY <2>1, <2>2, <2>3, <3>1, <3>2, OnlyFile
  <2> QED BY <2>4, <2>5
<1>4. ASSUME NEW w \in Workers, FetchOpen(w) PROVE Contents'
  <2>1. /\ Moves(w, "download") /\ pc[w] = "fetch" /\ job'[w].pos = 0
        /\ Text(w) => UNCHANGED <<store, hurt, mixed>>
    <3>1. At(w, "fetch") /\ Moves(w, "download") /\ job'[w].pos = job[w].pos
      BY <1>4, FetchOpenIs
    <3>2. job[w].pos = 0
      BY <3>1 DEF ShapeInv, Places, PlaceOf, At
    <3> QED BY <1>4, <3>1, <3>2, FetchOpenGrows DEF At, history
  <2>2. CASE Text(w)
    BY <1>1, <2>1, <2>2
  <2>3. CASE ~Text(w)
    <3>1. PICK g \in Files : g = File(w) /\ g \notin Pages /\ g \in Pictures /\ Picture(g)
      BY <1>0, <2>3
    <3>2. /\ store' = [store EXCEPT ![g] = IF @ = NoFile THEN <<>> ELSE @]
          /\ Fills(w, FALSE)
      BY <1>4, <2>3, <3>1 DEF FetchOpen
    <3>3. hurt \subseteq hurt' /\ mixed \subseteq mixed' /\ hurt' = hurt
      BY <3>2, FillsIs DEF Fills
    <3>4. /\ \A f \in Files : f # g => store'[f] = store[f]
          /\ store'[g] = IF Cached(g) THEN store[g] ELSE <<>>
          /\ store'[g] \in Seq(Pieces)
      BY <3>2, Creates
    <3>5. Kept(w) /\ File(w)' = g /\ pc'[w] = "download"
      BY <2>1, <3>1, MovesKept DEF Moves, File
    <3>6. Picture(g)'
      <4>1. Begins(store[g])'
        <5>1. CASE Cached(g)
          BY <3>1, <3>4, <5>1 DEF Picture, Begins
        <5>2. CASE ~Cached(g)
          BY <3>4, <5>2, Constants DEF Begins
        <5> QED BY <5>1, <5>2
      <4>2. ASSUME NEW v \in Workers, pc'[v] = "download", File(v)' = g
            PROVE  job'[v].pos <= Len(store'[g])
        <5>1. CASE v = w
          BY <2>1, <3>4, <5>1, LenProperties
        <5>2. CASE v # w
          <6>1. pc[v] = "download" /\ File(v) = g /\ job'[v].pos = job[v].pos
            BY <3>5, <4>2, <5>2 DEF Kept, File
          <6>2. Cached(g)
            BY <3>1, <6>1 DEF ShapeInv, Places, PlaceOf, File
          <6> QED BY <3>1, <3>4, <6>1, <6>2 DEF Picture
        <5> QED BY <5>1, <5>2
      <4> QED BY <3>5, <4>1, <4>2 DEF Picture
    <3> QED BY <3>1, <3>3, <3>4, <3>5, <3>6, OnlyFile
  <2> QED BY <2>2, <2>3
<1>5. ASSUME NEW w \in Workers, Download(w) PROVE Contents'
  <2> DEFINE n == job[w].pos + 1
  <2>1. /\ Moves(w, "download") /\ pc[w] = "download" /\ job'[w].pos = n
        /\ n \in 1 .. FileLen /\ job[w].pos \in Nat
        /\ Text(w) => UNCHANGED <<store, hurt, mixed>>
    <3>1. /\ Moves(w, "download") /\ pc[w] = "download" /\ job'[w].pos = n
          /\ job[w].pos \in 0 .. FileLen - 1
      BY <1>5, DownloadIs DEF At
    <3>2. Text(w) => UNCHANGED <<store, hurt, mixed>>
      BY <1>5, DownloadGrows DEF history
    <3>3. n \in 1 .. FileLen /\ job[w].pos \in Nat
      BY <3>1, Constants
    <3> QED BY <3>1, <3>2, <3>3
  <2>2. CASE Text(w)
    BY <1>1, <2>1, <2>2
  <2>3. CASE ~Text(w)
    <3>1. PICK g \in Files : g = File(w) /\ g \notin Pages /\ g \in Pictures /\ Picture(g)
      BY <1>0, <2>3
    <3>2. /\ Fills(w, FALSE)
          /\ store[g] \in Seq(Pieces) /\ store'[g] \in Seq(Pieces)
          /\ store'[g] = IF n > Len(store[g]) THEN Append(store[g], n) ELSE store[g]
          /\ \A f \in Files : f # g => store'[f] = store[f]
      BY <1>5, <2>3, <3>1, DownloadGrows
    <3>3. hurt \subseteq hurt' /\ mixed \subseteq mixed'
      BY <3>2, FillsIs
    <3>4. Kept(w) /\ File(w)' = g /\ pc'[w] = "download"
      BY <2>1, <3>1, MovesKept DEF Moves, File
    <3>5. /\ Cached(g) /\ Begins(store[g]) /\ job[w].pos <= Len(store[g]) /\ Len(store[g]) \in Nat
      BY <2>1, <3>1, <3>2, StoreIs, LenProperties DEF Picture
    <3>6. /\ Len(store'[g]) \in Nat /\ Len(store[g]) <= Len(store'[g]) /\ n <= Len(store'[g])
          /\ Begins(store[g])'
      <4> HIDE DEF n
      <4>1. CASE n > Len(store[g])
        <5>1. n = Len(store[g]) + 1
          BY <2>1, <3>5, <4>1 DEF n
        <5>2. /\ Len(store'[g]) = n
              /\ \A i \in 1 .. n : store'[g][i] = IF i < n THEN store[g][i] ELSE n
          BY <2>1, <3>2, <4>1, <5>1, AppendProperties, Constants
        <5> QED BY <2>1, <3>5, <5>1, <5>2 DEF Begins
      <4>2. CASE ~(n > Len(store[g]))
        BY <2>1, <3>2, <3>5, <4>2 DEF Begins
      <4> QED BY <4>1, <4>2
    <3>7. Picture(g)'
      <4>1. ASSUME NEW v \in Workers, pc'[v] = "download", File(v)' = g
            PROVE  job'[v].pos <= Len(store'[g])
        <5>1. CASE v = w
          BY <2>1, <3>6, <5>1
        <5>2. CASE v # w
          <6>1. pc[v] = "download" /\ File(v) = g /\ job'[v].pos = job[v].pos
            BY <3>4, <4>1, <5>2 DEF Kept, File
          <6>2. job[v].pos <= Len(store[g]) /\ job[v].pos \in Int
            BY <3>1, <3>5, <6>1, JobIs DEF Picture
          <6> QED BY <3>5, <3>6, <6>1, <6>2
        <5> QED BY <5>1, <5>2
      <4> QED BY <3>4, <3>6, <4>1 DEF Picture
    <3> QED BY <3>1, <3>2, <3>3, <3>4, <3>7, OnlyFile
  <2> QED BY <2>2, <2>3
<1>6. ASSUME NEW w \in Workers, Downloaded(w) PROVE Contents'
  <2>1. PICK g \in Files : /\ g = File(w) /\ (g \in Pages <=> Text(w))
                           /\ (g \in Pictures <=> ~Text(w))
                           /\ (g \in Pages => Page(g)) /\ (g \in Pictures => Picture(g))
    BY <1>0
  <2>0. PICK l : l = IF Text(w) THEN "open" ELSE "reopen"
    OBVIOUS
  <2>2. Moves(w, l) /\ pc[w] = "download" /\ job'[w] = job[w] /\ store' = store
    BY <1>6, <2>0, DownloadedIs DEF At, Downloaded
  <2>3. /\ hurt \subseteq hurt' /\ mixed \subseteq mixed'
        /\ job[w].pos < FileLen => g \in hurt'
    BY <1>6, <2>1 DEF Downloaded, Fills
  <2>4. Kept(w) /\ File(w)' = g /\ pc'[w] = l
    BY <2>1, <2>2, MovesKept DEF Moves, File
  <2>5. g \in Pages => Page(g)'
    <3> SUFFICES ASSUME g \in Pages, Cached(g), g \notin hurt \cup mixed
                 PROVE  FALSE
      BY <2>2, <2>3 DEF Page, Cached
    <3> QED BY <2>1, <2>2, NotThere
  <2>6. g \in Pictures => Picture(g)'
    <3> SUFFICES ASSUME g \in Pictures, Cached(g)
                 PROVE  Picture(g)'
      BY <2>2 DEF Picture, Cached
    <3>1. /\ Begins(store[g]) /\ job[w].pos <= Len(store[g])
          /\ \A v \in Workers : pc[v] = "download" /\ File(v) = g => job[v].pos <= Len(store[g])
      BY <2>1, <2>2 DEF Picture
    <3>2. ASSUME NEW v \in Workers, pc'[v] = "download", File(v)' = g
          PROVE  job'[v].pos <= Len(store'[g])
      BY <2>0, <2>1, <2>2, <2>4, <3>1, <3>2 DEF Kept, File
    <3>3. g \notin hurt' => Len(store'[g]) = FileLen
      <4>1. Len(store[g]) \in Nat /\ job[w].pos \in 0 .. FileLen
        BY <2>1, StoreIs, LenProperties, JobIs
      <4> QED BY <2>2, <2>3, <3>1, <4>1, Constants DEF Begins
    <3> QED BY <2>2, <3>1, <3>2, <3>3 DEF Picture, Begins
  <2> QED BY <2>1, <2>2, <2>3, <2>4, <2>5, <2>6, OnlyFile
<1>7. ASSUME NEW w \in Workers, Open(w) PROVE Contents'
  <2>1. Moves(w, "append") /\ pc[w] = "open" /\ Text(w) /\ UNCHANGED <<store, hurt, mixed>>
    BY <1>7, OpenIs DEF At, Open, history
  <2> QED BY <1>1, <2>1
<1>8. ASSUME NEW w \in Workers, AppendOpen(w) PROVE Contents'
  <2>1. PICK g \in Files : g = File(w) /\ g \in Pages /\ g \notin Pictures /\ Page(g)
    BY <1>0, <1>8, AppendOpenIs
  <2>2. /\ Moves(w, "flush") /\ pc[w] = "append" /\ job'[w].pos = 0 /\ job'[w].text \in 1 .. FileLen
        /\ hurt' = IF job'[w].text < FileLen THEN hurt \cup {g} ELSE hurt
        /\ mixed' = IF \E v \in Workers \ {w} : Filling(v) /\ File(v) = g
                      THEN mixed \cup {g} ELSE mixed
    BY <1>8, <2>1, AppendOpenIs DEF At, Fills
  <2>3. hurt \subseteq hurt' /\ mixed \subseteq mixed'
    BY <2>2
  <2>4. /\ \A f \in Files : f # g => store'[f] = store[f]
        /\ store'[g] = IF Cached(g) THEN store[g] ELSE <<>>
    <3>1. store' = [store EXCEPT ![g] = IF @ = NoFile THEN <<>> ELSE @]
      BY <1>8, <2>1 DEF AppendOpen, CreateCached
    <3> QED BY <3>1, Creates
  <2>5. Kept(w) /\ File(w)' = g /\ pc'[w] = "flush"
    BY <2>1, <2>2, MovesKept DEF Moves, File
  <2>6. Page(g)'
    <3> SUFFICES ASSUME g \notin hurt' \cup mixed'
                 PROVE  Page(g)'
      BY DEF Page
    <3>1. g \notin hurt \cup mixed /\ ~Cached(g)
      BY <2>1, <2>2, <2>3, NotThere
    <3>2. store'[g] = <<>> /\ Len(store'[g]) = 0
      BY <2>4, <3>1
    <3>3. job'[w].text = FileLen
      BY <2>2, Constants
    <3>4. \A v \in Workers : v # w => ~(Filling(v) /\ File(v) = g)'
      BY <2>2, <2>5 DEF Kept, Filling, File
    <3>5. Begins(store[g])'
      BY <3>2, Constants DEF Begins
    <3> QED BY <2>2, <2>5, <3>2, <3>3, <3>4, <3>5 DEF Page, Filling
  <2> QED BY <2>1, <2>3, <2>4, <2>5, <2>6, OnlyFile
<1>9. ASSUME NEW w \in Workers, AppendCrash(w) PROVE Contents'
  BY <1>9, AppendCrashIs, StopContents
<1>10. ASSUME NEW w \in Workers, Flush(w) PROVE Contents'
  <2>1. PICK g \in Files : g = File(w) /\ g \in Pages /\ g \notin Pictures /\ Page(g)
    BY <1>0, <1>10, FlushDoes
  <2>2. /\ pc[w] = "flush" /\ hurt \subseteq hurt' /\ mixed \subseteq mixed'
        /\ \A f \in Files : f # g => store'[f] = store[f]
        /\ store[g] \in Seq(Pieces) /\ store'[g] \in Seq(Pieces)
    BY <1>10, <2>1, FlushDoes, FlushGrows, FillsIs DEF At
  <2>3. PICK n \in 1 .. FileLen :
          /\ job[w].pos < n /\ n <= job[w].text
          /\ IF n = job[w].text
               THEN Moves(w, "reopen") /\ job'[w].pos = 0 /\ job'[w].text = 0
               ELSE Moves(w, "flush") /\ job'[w].pos = n /\ job'[w].text = job[w].text
          /\ Len(store'[g]) = Len(store[g]) + (n - job[w].pos)
          /\ \A k \in 1 .. Len(store[g]) : store'[g][k] = store[g][k]
          /\ \A k \in 1 .. n - job[w].pos : store'[g][Len(store[g]) + k] = job[w].pos + k
    BY <1>10, <2>1, FlushDoes
  <2>4. Kept(w) /\ File(w)' = g /\ pc'[w] = IF n = job[w].text THEN "reopen" ELSE "flush"
    BY <2>1, <2>3, MovesKept DEF Moves, File
  <2>5. Page(g)'
    <3> SUFFICES ASSUME g \notin hurt' \cup mixed'
                 PROVE  Page(g)'
      BY DEF Page
    <3>1. /\ g \notin hurt \cup mixed /\ Cached(g)
      BY <2>2, StoreIs
    <3>2. /\ Begins(store[g]) /\ job[w].text = FileLen /\ job[w].pos = Len(store[g])
          /\ \A v \in Workers : v # w => ~(Filling(v) /\ File(v) = g)
      BY <2>1, <2>2, <3>1 DEF Page, Filling
    <3>3. Len(store'[g]) = n /\ job[w].pos \in Nat
      BY <2>3, <3>2, JobIs, Constants
    <3>4. Begins(store[g])'
      <4> SUFFICES ASSUME NEW k \in 1 .. n
                   PROVE  store'[g][k] = k
        BY <3>3, Constants DEF Begins
      <4>1. CASE k <= job[w].pos
        <5>1. k \in 1 .. Len(store[g])
          BY <3>2, <3>3, <4>1
        <5> QED BY <2>3, <3>2, <5>1 DEF Begins
      <4>2. CASE ~(k <= job[w].pos)
        <5>1. PICK i \in 1 .. n - job[w].pos : i = k - job[w].pos
          BY <3>3, <4>2
        <5>2. k = job[w].pos + i
          BY <3>3, <5>1
        <5> QED BY <2>3, <3>2, <5>2
      <4> QED BY <4>1, <4>2
    <3>5. \A v \in Workers : v # w => ~(Filling(v) /\ File(v) = g)'
      BY <2>4, <3>2 DEF Kept, Filling, File
    <3>6. CASE n = job[w].text
      BY <2>3, <2>4, <3>2, <3>3, <3>4, <3>5, <3>6 DEF Page, Filling
    <3>7. CASE n # job[w].text
      BY <2>3, <2>4, <3>2, <3>3, <3>4, <3>5, <3>7 DEF Page, Filling
    <3> QED BY <3>6, <3>7
  <2> QED BY <2>1, <2>2, <2>4, <2>5, OnlyFile
<1>11. ASSUME NEW w \in Workers, Reopen(w) \/ SendHead(w) \/ SendBlock(w) PROVE Contents'
  <2>1. /\ UNCHANGED <<store, hurt, mixed>> /\ pc[w] \in {"reopen", "head", "send"}
    BY <1>11 DEF Reopen, SendHead, SendBlock, At, history
  <2>2. \E l \in {"head", "send", "sent", "spin"} : Moves(w, l)
    BY <1>11, ReopenIs, SendHeadIs, SendBlockIs
  <2>3. Kept(w) /\ ~Filling(w)'
    BY <2>2, MovesKept DEF Moves, Filling
  <2> QED BY <2>1, <2>3, QuietStep DEF Filling
<1>12. ASSUME NEW w \in Workers, NEW f \in Files, Request(w, f) PROVE Contents'
  <2>1. UNCHANGED <<store, hurt, mixed>> /\ pc[w] = "idle" /\ pc'[w] = "begin" /\ Kept(w)
    BY <1>12, RequestIs, RequestKept DEF At, history
  <2> QED BY <2>1, QuietStep DEF Filling
<1>13. CASE Crash
  BY <1>13, StopContents DEF Crash
<1>14. CASE Restart
  BY <1>14 DEF Restart, Contents, Picture, Page, Begins, Filling, File, Cached, history
<1>15. CASE UNCHANGED vars
  BY <1>15 DEF vars, Contents, Picture, Page, Begins, Filling, File, Cached, history
<1> QED BY <1>2, <1>3, <1>4, <1>5, <1>6, <1>7, <1>8, <1>9, <1>10, <1>11, <1>12, <1>13, <1>14,
           <1>15 DEF Next, Step

LEMMA WholeIs ==
  ASSUME NEW s \in Seq(Pieces), Begins(s), Len(s) = FileLen
  PROVE  s = Whole
<1>1. s \in [1 .. Len(s) -> Pieces]
  BY LenProperties
<1> QED BY <1>1, Constants DEF Begins, Whole, Pieces

(* CachedOnce: a cached file is the whole file, once, or is being filled,  *)
(* or was disturbed: search_news_operation.c:28-104 and                    *)
(* deal_news_request_operation.c:80-131.                                   *)
THEOREM FilesCachedOnce == Spec => []CachedOnce
<1>1. Init => Contents
  BY DEF Init, Contents, Picture, Page, Cached, Files
<1>2. ShapeInv /\ Contents => CachedOnce
  <2> SUFFICES ASSUME ShapeInv, Contents, NEW f \in Files \ (hurt \cup mixed), store[f] # NoFile,
                      ~\E w \in Workers : Filling(w) /\ File(w) = f
               PROVE  store[f] = Whole
    BY DEF CachedOnce
  <2>1. Cached(f) /\ store[f] \in Seq(Pieces)
    BY StoreIs DEF ShapeInv, Cached
  <2>2. Begins(store[f]) /\ Len(store[f]) = FileLen
    BY <2>1 DEF Files, Contents, Picture, Page, Filling
  <2> QED BY <2>1, <2>2, WholeIs
<1> QED BY <1>1, <1>2, InitShape, StepShape, StepContents, PTL DEF Spec

-----------------------------------------------------------------------------
(* What a handler has sent is what it has read, and for a request that has *)
(* its file to itself the file does not change any more.                   *)
Reply(w) ==
  /\ pc[w] \in {"send", "sent"} =>
       /\ Len(job[w].got) <= Len(store[File(w)])
       /\ File(w) \notin hurt \cup mixed => \A k \in 1 .. Len(job[w].got) : job[w].got[k] = k
       /\ pc[w] = "sent" /\ Text(w) => Len(job[w].got) = job[w].declared
       /\ job[w].solo => job[w].declared = Len(store[File(w)])
       /\ job[w].solo /\ pc[w] = "sent" => Len(job[w].got) = job[w].declared
  /\ job[w].solo => pc[w] # "spin"
Replies == \A w \in Workers : Reply(w)

(* No cached file gets shorter.                                            *)
Longer == \A f \in Files : Cached(f) =>
  Len(store'[f]) \in Nat /\ Len(store[f]) <= Len(store'[f])

LEMMA OthersReply ==
  ASSUME ShapeInv, Replies, NEW w \in Workers, Kept(w), Longer,
         store' = store \/ pc[w] \notin {"idle", "dead"},
         \A f \in Files : f # File(w) => store'[f] = store[f],
         hurt \subseteq hurt', mixed \subseteq mixed', Reply(w)'
  PROVE  Replies'
<1> SUFFICES ASSUME NEW v \in Workers, v # w
             PROVE  Reply(v)'
  BY DEF Replies
<1>1. PICK f \in Files : f = File(v)
  BY JobIs DEF ShapeInv
<1>2. /\ pc'[v] = pc[v] /\ File(v)' = f /\ (Text(v)' <=> Text(v))
      /\ job'[v].got = job[v].got /\ job'[v].declared = job[v].declared
      /\ job'[v].solo => job[v].solo
  BY <1>1 DEF Kept, File, Text
<1>3. Reply(v)
  BY DEF Replies
<1>4. CASE pc[v] \in {"send", "sent"}
  <2>1. Cached(f) /\ Len(store[f]) <= Len(store'[f])
    BY <1>1, <1>4 DEF ShapeInv, Places, PlaceOf, File, Longer
  <2>2. Len(job[v].got) \in Nat /\ Len(store[f]) \in Nat
    BY <2>1, JobIs, StoreIs, LenProperties DEF ShapeInv
  <2>3. Len(store'[f]) \in Nat
    BY <2>1 DEF Longer
  <2>4. job[v].solo => store'[f] = store[f]
    BY <1>1 DEF ShapeInv, Alone, Asks
  <2> QED BY <1>1, <1>2, <1>3, <1>4, <2>1, <2>2, <2>3, <2>4 DEF Reply
<1>5. CASE pc[v] \notin {"send", "sent"}
  BY <1>2, <1>3, <1>5 DEF Reply
<1> QED BY <1>4, <1>5

LEMMA SameLonger ==
  ASSUME Shape, store' = store
  PROVE  Longer
BY StoreIs, LenProperties DEF Longer

LEMMA OneLonger ==
  ASSUME Shape, NEW g \in Files, \A f \in Files : f # g => store'[f] = store[f],
         Cached(g) => Len(store'[g]) \in Nat /\ Len(store[g]) <= Len(store'[g])
  PROVE  Longer
<1> SUFFICES ASSUME NEW f \in Files, Cached(f)
             PROVE  Len(store'[f]) \in Nat /\ Len(store[f]) <= Len(store'[f])
  BY DEF Longer
<1>1. Len(store[f]) \in Nat
  BY StoreIs, LenProperties
<1> QED BY <1>1

LEMMA FillingLonger ==
  ASSUME ShapeInv, Contents, NEW w \in Workers,
         FetchOpen(w) \/ Download(w) \/ AppendOpen(w) \/ Flush(w)
  PROVE  /\ Longer /\ hurt \subseteq hurt' /\ mixed \subseteq mixed'
         /\ \A f \in Files : f # File(w) => store'[f] = store[f]
<1> Shape
  BY DEF ShapeInv
<1>1. PICK g \in Files : g = File(w)
  BY JobIs
<1>2. ASSUME store' = store
      PROVE  Longer /\ \A f \in Files : f # File(w) => store'[f] = store[f]
  BY <1>2, SameLonger
<1>3. ASSUME store' = [store EXCEPT ![g] = IF @ = NoFile THEN <<>> ELSE @]
      PROVE  Longer /\ \A f \in Files : f # File(w) => store'[f] = store[f]
  <2>1. /\ Cached(g) => store'[g] = store[g]
        /\ \A f \in Files : f # g => store'[f] = store[f]
    BY <1>3, Creates
  <2>2. Cached(g) => Len(store[g]) \in Nat
    BY StoreIs, LenProperties
  <2> QED BY <1>1, <2>1, <2>2, OneLonger
<1>4. CASE FetchOpen(w)
  <2>1. CASE Text(w)
    BY <1>2, <1>4, <2>1, FetchOpenGrows DEF history
  <2>2. CASE ~Text(w)
    BY <1>1, <1>3, <1>4, <2>2, FillsIs DEF FetchOpen
  <2> QED BY <2>1, <2>2
<1>5. CASE Download(w)
  <2>1. CASE Text(w)
    BY <1>2, <1>5, <2>1, DownloadGrows DEF history
  <2>2. CASE ~Text(w)
    <3> DEFINE n == job[w].pos + 1
    <3>1. /\ Fills(w, FALSE) /\ store[g] \in Seq(Pieces)
          /\ store'[g] = IF n > Len(store[g]) THEN Append(store[g], n) ELSE store[g]
          /\ \A f \in Files : f # g => store'[f] = store[f]
      BY <1>1, <1>5, <2>2, DownloadGrows
    <3>2. n \in Pieces
      BY <1>5, DownloadIs, Constants
    <3> HIDE DEF n
    <3>3. Len(store[g]) \in Nat /\ Len(store'[g]) \in Nat /\ Len(store[g]) <= Len(store'[g])
      <4>1. Len(store[g]) \in Nat
        BY <3>1, LenProperties
      <4>2. Len(Append(store[g], n)) = Len(store[g]) + 1
        BY <3>1, <3>2, AppendProperties
      <4> QED BY <3>1, <4>1, <4>2
    <3> QED BY <1>1, <3>1, <3>3, OneLonger, FillsIs
  <2> QED BY <2>1, <2>2
<1>6. CASE AppendOpen(w)
  <2>1. Fills(w, TRUE) \/ Fills(w, FALSE)
    BY <1>6, AppendOpenIs DEF Fills
  <2> QED BY <1>1, <1>3, <1>6, <2>1, FillsIs DEF AppendOpen, CreateCached
<1>7. CASE Flush(w)
  <2>1. /\ store[g] \in Seq(Pieces) /\ \A f \in Files : f # g => store'[f] = store[f]
        /\ \E n \in 1 .. FileLen : /\ job[w].pos < n
                                   /\ Len(store'[g]) = Len(store[g]) + (n - job[w].pos)
    BY <1>1, <1>7, FlushDoes
  <2>2. Len(store[g]) \in Nat /\ job[w].pos \in Nat
    BY <2>1, LenProperties, JobIs
  <2>3. Len(store'[g]) \in Nat /\ Len(store[g]) <= Len(store'[g])
    BY <2>1, <2>2
  <2> QED BY <1>1, <1>7, <2>1, <2>3, OneLonger, FlushGrows, FillsIs
<1> QED BY <1>4, <1>5, <1>6, <1>7

(* The file that is being sent holds a beginning of the whole one, if      *)
(* nothing disturbed it.                                                   *)
LEMMA SoundFile ==
  ASSUME ShapeInv, Contents, NEW f \in Files, Cached(f), f \notin hurt \cup mixed
  PROVE  Begins(store[f])
BY DEF Contents, Files, Picture, Page

LEMMA StepReplies ==
  ShapeInv /\ Contents /\ Replies /\ [Next]_vars => Replies'
<1> SUFFICES ASSUME ShapeInv, Contents, Replies, [Next]_vars
             PROVE  Replies'
  OBVIOUS
<1> Shape
  BY DEF ShapeInv
<1>1. ASSUME NEW w \in Workers, NEW l, Moves(w, l), UNCHANGED <<store, hurt, mixed>>, Reply(w)',
             pc[w] \notin {"idle", "dead"}
      PROVE  Replies'
  BY <1>1, SameLonger, MovesKept, OthersReply
<1>2. ASSUME NEW w \in Workers, NEW l, Moves(w, l), l \notin {"send", "sent", "spin"}
      PROVE  Reply(w)'
  BY <1>2 DEF Moves, Reply
<1>3. ASSUME NEW w \in Workers, Begin(w) \/ Open(w) \/ Reopen(w)
      PROVE  Replies'
  <2>1. \E l \in {"head", "fetch", "append"} : Moves(w, l)
    BY <1>3, BeginIs, OpenIs, ReopenIs
  <2>2. UNCHANGED <<store, hurt, mixed>> /\ pc[w] \notin {"idle", "dead"}
    BY <1>3 DEF Begin, Open, Reopen, history, At
  <2> QED BY <1>1, <1>2, <2>1, <2>2
<1>4. ASSUME NEW w \in Workers, FetchOpen(w) \/ Download(w) \/ AppendOpen(w) \/ Flush(w)
      PROVE  Replies'
  <2>1. \E l \in {"download", "flush", "reopen"} : Moves(w, l)
    BY <1>4, FetchOpenIs, DownloadIs, AppendOpenIs, FlushDoes
  <2>2. pc[w] \notin {"idle", "dead"}
    BY <1>4 DEF FetchOpen, Download, AppendOpen, Flush, At
  <2> QED BY <1>2, <1>4, <2>1, <2>2, FillingLonger, MovesKept, OthersReply
<1>5. ASSUME NEW w \in Workers, Downloaded(w) PROVE Replies'
  <2>1. \E l \in {"open", "reopen"} : Moves(w, l)
    BY <1>5, DownloadedIs
  <2>2. /\ store' = store /\ hurt \subseteq hurt' /\ mixed \subseteq mixed'
        /\ pc[w] \notin {"idle", "dead"}
    BY <1>5 DEF Downloaded, Fills, At
  <2> QED BY <1>2, <2>1, <2>2, SameLonger, MovesKept, OthersReply
<1>6. ASSUME NEW w \in Workers, SendHead(w) PROVE Replies'
  <2>1. PICK g \in Files : g = File(w)
    BY JobIs
  <2>2. /\ Moves(w, "send") /\ pc[w] = "head" /\ store[g] \in Seq(Pieces)
        /\ job'[w].declared = Len(store[g]) /\ job'[w].got = <<>>
        /\ UNCHANGED <<store, hurt, mixed>>
    BY <1>6, <2>1, SendHeadIs DEF At, SendHead, history
  <2>3. File(w)' = g /\ pc'[w] = "send"
    BY <2>1, <2>2 DEF Moves, File
  <2>4. Reply(w)'
    <3>1. Len(store[g]) \in Nat /\ Len(job'[w].got) = 0
      BY <2>2, LenProperties
    <3> QED BY <2>2, <2>3, <3>1 DEF Reply
  <2> QED BY <1>1, <2>2, <2>4
<1>7. ASSUME NEW w \in Workers, SendBlock(w) PROVE Replies'
  <2>1. PICK g \in Files : g = File(w)
    BY JobIs
  <2> DEFINE s == store[g]
             old == job[w].got
             new == job'[w].got
  <2>2. /\ pc[w] = "send" /\ UNCHANGED <<store, hurt, mixed>>
        /\ s \in Seq(Pieces) /\ Len(s) \in Nat /\ Len(old) \in Nat /\ Len(new) \in Nat
        /\ Len(old) <= Len(new) /\ (Len(old) <= Len(s) => Len(new) <= Len(s))
        /\ \A k \in 1 .. Len(new) : IF k <= Len(old) THEN new[k] = old[k]
                                                     ELSE k \in 1 .. Len(s) /\ new[k] = s[k]
        /\ job'[w].declared = job[w].declared
    <3>1. pc[w] = "send" /\ UNCHANGED <<store, hurt, mixed>>
      BY <1>7 DEF At, SendBlock, history
    <3>2. /\ s \in Seq(Pieces) /\ Len(s) \in Nat /\ Len(old) \in Nat /\ Len(new) \in Nat
          /\ Len(old) <= Len(new) /\ (Len(old) <= Len(s) => Len(new) <= Len(s))
          /\ job'[w].declared = job[w].declared
      BY <1>7, <2>1, SendBlockIs
    <3>3. \A k \in 1 .. Len(new) : IF k <= Len(old) THEN new[k] = old[k]
                                                   ELSE k \in 1 .. Len(s) /\ new[k] = s[k]
      BY <1>7, <2>1, SendBlockIs
    <3> QED BY <3>1, <3>2, <3>3
  <2>3. PICK l \in {"send", "sent", "spin"} :
          /\ Moves(w, l)
          /\ l = "sent" => IF Text(w) THEN Len(new) = job[w].declared
                                      ELSE Len(new) = Len(old) /\ Len(old) >= Len(s)
          /\ l = "spin" => /\ Text(w) /\ Len(new) # job[w].declared
                           /\ Len(new) = Len(old) /\ Len(old) >= Len(s)
    BY <1>7, <2>1, SendBlockIs
  <2>4. /\ File(w)' = g /\ pc'[w] = l /\ (Text(w)' <=> Text(w))
        /\ job'[w].solo = job[w].solo
    BY <2>1, <2>3 DEF Moves, File, Text
  <2>5. /\ Len(old) <= Len(s) /\ (job[w].solo => job[w].declared = Len(s))
        /\ g \notin hurt \cup mixed => \A k \in 1 .. Len(old) : old[k] = k
    BY <2>1, <2>2 DEF Replies, Reply
  <2>6. g \notin hurt \cup mixed => \A k \in 1 .. Len(new) : new[k] = k
    <3> SUFFICES ASSUME g \notin hurt \cup mixed, NEW k \in 1 .. Len(new)
                 PROVE  new[k] = k
      OBVIOUS
    <3>1. CASE k <= Len(old)
      <4>1. k \in 1 .. Len(old) /\ new[k] = old[k]
        BY <2>2, <3>1
      <4> QED BY <2>5, <4>1
    <3>2. CASE ~(k <= Len(old))
      <4>1. Cached(g)
        BY <2>2, StoreIs
      <4>2. Begins(s)
        BY <4>1, SoundFile
      <4>3. k \in 1 .. Len(s) /\ new[k] = s[k]
        BY <2>2, <3>2
      <4> QED BY <4>2, <4>3 DEF Begins
    <3> QED BY <3>1, <3>2
  <2>7. Len(new) <= Len(s)
    BY <2>2, <2>5
  <2>8. /\ l = "sent" /\ Text(w) => Len(new) = job'[w].declared
        /\ job[w].solo /\ l = "sent" => Len(new) = job'[w].declared
        /\ job[w].solo => l # "spin"
    <3> HIDE DEF s, old, new
    <3> QED BY <2>2, <2>3, <2>5
  <2>9. Reply(w)'
    BY <2>2, <2>4, <2>5, <2>6, <2>7, <2>8 DEF Reply
  <2> QED BY <1>1, <2>2, <2>3, <2>9
<1>8. ASSUME NEW w \in Workers, FetchFails(w) \/ SendSigPipe(w) \/ End(w)
      PROVE  Replies'
  <2>1. \E l \in {"idle", "dead"} : Leaves(w, l)
    BY <1>8, FetchFailsIs, SendSigPipeIs, EndIs
  <2>2. UNCHANGED <<store, hurt, mixed>>
    BY <1>8, FetchFailsIs, SendSigPipeIs, EndIs DEF history
  <2>3. Reply(w)'
    BY <2>1 DEF Leaves, Reply
  <2> QED BY <2>1, <2>2, <2>3, SameLonger, LeavesKept, OthersReply
<1>9. ASSUME NEW w \in Workers, NEW f \in Files, Request(w, f)
      PROVE  Replies'
  <2>1. UNCHANGED <<store, hurt, mixed>> /\ pc'[w] = "begin" /\ Kept(w)
    BY <1>9, RequestIs, RequestKept DEF history
  <2>2. Reply(w)'
    BY <2>1 DEF Reply
  <2> QED BY <2>1, <2>2, SameLonger, OthersReply
<1>10. ASSUME NEW lost \in SUBSET Files, Stop(lost) PROVE Replies'
  BY <1>10, StopIs DEF Replies, Reply
<1>11. ASSUME NEW w \in Workers, AppendCrash(w) PROVE Replies'
  BY <1>10, <1>11, AppendCrashIs
<1>12. CASE Crash
  BY <1>10, <1>12 DEF Crash
<1>13. CASE Restart
  BY <1>13 DEF Restart, Replies, Reply, File, Text, history
<1>14. CASE UNCHANGED vars
  BY <1>14 DEF vars, Replies, Reply, File, Text, history
<1> QED BY <1>3, <1>4, <1>5, <1>6, <1>7, <1>8, <1>9, <1>11, <1>12, <1>13, <1>14 DEF Next, Step

LEMMA InitReplies == Init => Contents /\ Replies /\ TempInv
BY NoJobIs DEF Init, Contents, Picture, Page, Cached, Files, Replies, Reply, TempInv,
               TempRemoved, OwnTemp

LEMMA WholeFacts ==
  /\ Whole \in Seq(Pieces) /\ Len(Whole) = FileLen
  /\ \A n \in 0 .. FileLen : /\ SubSeq(Whole, 1, n) \in Seq(Pieces) /\ Len(SubSeq(Whole, 1, n)) = n
                             /\ \A k \in 1 .. n : SubSeq(Whole, 1, n)[k] = k
<1>1. Whole \in [1 .. FileLen -> Pieces] /\ \A k \in 1 .. FileLen : Whole[k] = k
  BY Constants DEF Whole
<1>2. Whole \in Seq(Pieces) /\ DOMAIN Whole = 1 .. FileLen
  BY <1>1, SeqDef, Constants
<1>3. Len(Whole) = FileLen
  BY <1>2, LenProperties, Constants
<1>4. ASSUME NEW n \in 0 .. FileLen
      PROVE  /\ SubSeq(Whole, 1, n) \in Seq(Pieces) /\ Len(SubSeq(Whole, 1, n)) = n
             /\ \A k \in 1 .. n : SubSeq(Whole, 1, n)[k] = k
  <2>1. n \in Int /\ n >= 0 /\ n <= FileLen
    BY Constants
  <2>2. \A i \in 1 .. n : Whole[i] \in Pieces
    BY <1>1, <2>1, Constants
  <2>3. /\ SubSeq(Whole, 1, n) \in Seq(Pieces)
        /\ Len(SubSeq(Whole, 1, n)) = IF 1 <= n THEN n - 1 + 1 ELSE 0
        /\ \A i \in 1 .. n - 1 + 1 : SubSeq(Whole, 1, n)[i] = Whole[1 + i - 1]
    BY <1>2, <1>3, <2>1, <2>2, SubSeqProperties, Constants
  <2>4. \A k \in 1 .. n : k \in 1 .. n - 1 + 1 /\ k \in 1 .. FileLen /\ 1 + k - 1 = k
    BY <2>1, Constants
  <2> QED BY <1>1, <2>1, <2>3, <2>4
<1> QED BY <1>2, <1>3, <1>4

(* RepliesSound: a reply is a beginning of an undisturbed file, a text as  *)
(* long as its header says, and the whole file when the request had it to  *)
(* itself: send_file_operation.c:12-120.                                   *)
THEOREM RepliesAreSound == Spec => []RepliesSound
<1>1. ShapeInv /\ Contents /\ Replies => RepliesSound
  <2> SUFFICES ASSUME ShapeInv, Contents, Replies, NEW w \in Workers, pc[w] = "sent",
                      File(w) \notin hurt \cup mixed
               PROVE  /\ job[w].got = SubSeq(Whole, 1, Len(job[w].got))
                      /\ Text(w) => Len(job[w].got) = job[w].declared
                      /\ job[w].solo => job[w].got = Whole /\ job[w].declared = FileLen
    BY DEF RepliesSound
  <2> DEFINE got == job[w].got
             f == File(w)
  <2>1. /\ Len(got) <= Len(store[f]) /\ \A k \in 1 .. Len(got) : got[k] = k
        /\ Text(w) => Len(got) = job[w].declared
        /\ job[w].solo => job[w].declared = Len(store[f]) /\ Len(got) = job[w].declared
    BY DEF Replies, Reply
  <2>2. f \in Files /\ Cached(f) /\ got \in Seq(Pieces)
    BY JobIs DEF ShapeInv, Places, PlaceOf, File
  <2>3. Begins(store[f]) /\ Len(store[f]) \in Nat /\ Len(got) \in Nat
    BY <2>2, SoundFile, StoreIs, LenProperties DEF ShapeInv
  <2>4. Len(got) \in 0 .. FileLen
    BY <2>1, <2>3, Constants DEF Begins
  <2>5. got = SubSeq(Whole, 1, Len(got))
    <3>1. /\ SubSeq(Whole, 1, Len(got)) \in Seq(Pieces) /\ Len(SubSeq(Whole, 1, Len(got))) = Len(got)
          /\ \A k \in 1 .. Len(got) : SubSeq(Whole, 1, Len(got))[k] = k
      BY <2>4, WholeFacts
    <3> QED BY <2>1, <2>2, <3>1, SeqEqual
  <2>6. job[w].solo => got = Whole /\ job[w].declared = FileLen
    <3> HAVE job[w].solo
    <3>1. \A v \in Workers : ~(Filling(v) /\ File(v) = f)
      BY DEF Filling, ShapeInv, Alone, Asks
    <3>2. Len(store[f]) = FileLen
      BY <2>2, <3>1 DEF Contents, Files, Picture, Page, Filling
    <3>3. Len(got) = FileLen /\ Begins(got)
      BY <2>1, <3>2, Constants DEF Begins
    <3> QED BY <2>1, <2>2, <3>2, <3>3, WholeIs
  <2> QED BY <2>1, <2>5, <2>6
<1> QED BY <1>1, InitReplies, InitShape, StepShape, StepContents, StepReplies, PTL DEF Spec

(* UndisturbedServed: without another request for the same file, no thread *)
(* hangs in the send loop or maps less than it has fetched:                *)
(* send_file_operation.c:54 and search_news_operation.c:61-77.             *)
THEOREM UndisturbedAreServed == Spec => []UndisturbedServed
<1>1. TempInv /\ Replies => UndisturbedServed
  BY DEF TempInv, OwnTemp, Replies, Reply, UndisturbedServed
<1> QED BY <1>1, InitReplies, InitShape, StepShape, StepContents, StepTemp, StepReplies, PTL DEF Spec

-----------------------------------------------------------------------------
(* How long a page can get: every handler that may still write to it adds  *)
(* each piece at most once.  Pending are the pieces still to come.         *)
Waits(w, f, i) ==
  /\ File(w) = f
  /\ \/ pc[w] \in {"fetch", "download", "open", "append"}
     \/ pc[w] = "flush" /\ job[w].pos < i /\ i <= job[w].text
Pending(f) == {x \in Workers \X Pieces : Waits(x[1], f, x[2])}
Sizes == \A f \in Pages : Cached(f) => Len(store[f]) + Cardinality(Pending(f)) <= MaxLen

Declared == \A w \in Workers : job[w].declared <= MaxLen

LEMMA MaxLenIs ==
  /\ MaxLen \in Nat
  /\ \A S \in SUBSET (Workers \X Pieces) : IsFiniteSet(S) /\ Cardinality(S) \in Nat
                                          /\ Cardinality(S) <= MaxLen
  /\ Workers # {} => FileLen <= MaxLen
<1>1. IsFiniteSet(Workers) /\ Cardinality(Workers) \in Nat
  BY PageAssumption, FS_CardinalityType
<1>2. IsFiniteSet(Pieces) /\ Cardinality(Pieces) = FileLen
  BY FS_Interval, Constants
<1>3. IsFiniteSet(Workers \X Pieces) /\ Cardinality(Workers \X Pieces) = Cardinality(Workers) * FileLen
  BY <1>1, <1>2, FS_Product
<1>4. MaxLen = Cardinality(Workers \X Pieces) /\ MaxLen \in Nat
  BY <1>1, <1>3, Constants DEF MaxLen
<1>5. \A S \in SUBSET (Workers \X Pieces) : IsFiniteSet(S) /\ Cardinality(S) \in Nat
                                           /\ Cardinality(S) <= MaxLen
  BY <1>3, <1>4, FS_Subset, FS_CardinalityType
<1>6. ASSUME Workers # {} PROVE FileLen <= MaxLen
  <2>1. PICK w : w \in Workers
    BY <1>6
  <2> DEFINE S == {x \in Workers \X Pieces : x[1] = w}
  <2>2. S = {w} \X Pieces
    BY <2>1
  <2>3. Cardinality({w} \X Pieces) = 1 * FileLen
    <3>1. IsFiniteSet({w}) /\ Cardinality({w}) = 1
      BY FS_Singleton
    <3> QED BY <1>2, <3>1, FS_Product
  <2>4. S \in SUBSET (Workers \X Pieces)
    OBVIOUS
  <2> HIDE DEF S
  <2> QED BY <1>5, <2>2, <2>3, <2>4, Constants
<1> QED BY <1>4, <1>5, <1>6

LEMMA PendingIs ==
  ASSUME NEW f
  PROVE  Pending(f) \in SUBSET (Workers \X Pieces)
BY DEF Pending

LEMMA PendingShrinks ==
  ASSUME NEW w \in Workers, Kept(w), NEW f, \A i \in Pieces : Waits(w, f, i)' => Waits(w, f, i)
  PROVE  Pending(f)' \subseteq Pending(f)
<1> SUFFICES ASSUME NEW v \in Workers, NEW i \in Pieces, Waits(v, f, i)'
             PROVE  Waits(v, f, i)
  BY DEF Pending
<1> QED BY DEF Kept, Waits, File

(* What a step makes of the page f, when it does not make it longer.       *)
LEMMA SizeKept ==
  ASSUME NEW f, Cached(f) => Len(store[f]) + Cardinality(Pending(f)) <= MaxLen,
         NEW w \in Workers, Kept(w), store'[f] = store[f],
         Cached(f) => \A i \in Pieces : Waits(w, f, i)' => Waits(w, f, i),
         Cached(f) => Len(store[f]) \in Nat
  PROVE  (Cached(f) => Len(store[f]) + Cardinality(Pending(f)) <= MaxLen)'
<1> SUFFICES ASSUME Cached(f)
             PROVE  Len(store[f]) + Cardinality(Pending(f)') <= MaxLen
  BY DEF Cached
<1>1. Pending(f)' \subseteq Pending(f)
  BY PendingShrinks
<1>2. /\ IsFiniteSet(Pending(f)) /\ Cardinality(Pending(f)) \in Nat
      /\ Pending(f)' \in SUBSET Pending(f) /\ Pending(f)' \in SUBSET (Workers \X Pieces)
  BY <1>1, PendingIs, MaxLenIs
<1>3. Cardinality(Pending(f)') <= Cardinality(Pending(f)) /\ Cardinality(Pending(f)') \in Nat
  BY <1>2, FS_Subset, MaxLenIs
<1> QED BY <1>2, <1>3, MaxLenIs

(* A flush hands over as many pieces as it takes from the pending ones.    *)
LEMMA Handed ==
  ASSUME NEW P \in SUBSET (Workers \X Pieces), NEW Q \in SUBSET P, NEW w \in Workers,
         NEW a \in Nat, NEW n \in 1 .. FileLen, a < n,
         \A i \in a + 1 .. n : <<w, i>> \in P /\ <<w, i>> \notin Q
  PROVE  Cardinality(Q) + (n - a) <= Cardinality(P)
<1> DEFINE I == a + 1 .. n
           D == {w} \X I
<1>1. IsFiniteSet(I) /\ Cardinality(I) = n - a
  <2>1. a + 1 \in Int /\ n \in Int /\ ~(a + 1 > n) /\ n - (a + 1) + 1 = n - a
    BY Constants
  <2> QED BY <2>1, FS_Interval
<1> HIDE DEF I
<1>2. IsFiniteSet(D) /\ Cardinality(D) = 1 * (n - a)
  <2>1. IsFiniteSet({w}) /\ Cardinality({w}) = 1
    BY FS_Singleton
  <2> QED BY <1>1, <2>1, FS_Product
<1>3. D \subseteq P /\ D \cap Q = {}
  BY DEF I
<1> HIDE DEF D
<1>4. IsFiniteSet(P) /\ IsFiniteSet(Q) /\ Cardinality(Q) \in Nat /\ Cardinality(P) \in Nat
  BY MaxLenIs
<1>5. Cardinality(Q \cup D) = Cardinality(Q) + Cardinality(D) - Cardinality(Q \cap D)
  BY <1>2, <1>4, FS_Union
<1>6. Cardinality(Q \cap D) = 0
  <2>1. Q \cap D = {}
    BY <1>3
  <2> QED BY <2>1, FS_EmptySet
<1>7. Cardinality(Q \cup D) <= Cardinality(P)
  <2>1. Q \cup D \in SUBSET P
    BY <1>3
  <2> QED BY <1>4, <2>1, FS_Subset
<1>8. n - a \in Nat
  BY Constants
<1> QED BY <1>2, <1>4, <1>5, <1>6, <1>7, <1>8

LEMMA StepSizes ==
  ShapeInv /\ Sizes /\ [Next]_vars => Sizes'
<1> SUFFICES ASSUME ShapeInv, Sizes, [Next]_vars, NEW f \in Pages
             PROVE  (Cached(f) => Len(store[f]) + Cardinality(Pending(f)) <= MaxLen)'
  BY DEF Sizes
<1> DEFINE Fits == Cached(f) => Len(store[f]) + Cardinality(Pending(f)) <= MaxLen
<1> Shape /\ f \in Files /\ f \notin Pictures
  BY PageAssumption DEF ShapeInv, Files
<1>1. Fits /\ (Cached(f) => Len(store[f]) \in Nat)
  BY StoreIs, LenProperties DEF Sizes
(* Most steps change no page and add nothing to what is pending.           *)
<1>2. ASSUME NEW w \in Workers, Kept(w), store'[f] = store[f],
             Cached(f) => \A i \in Pieces : Waits(w, f, i)' => Waits(w, f, i)
      PROVE  Fits'
  BY <1>1, <1>2, SizeKept
<1>3. ASSUME NEW w \in Workers, NEW l, Moves(w, l), store'[f] = store[f],
             \/ l \notin {"fetch", "download", "open", "append", "flush"}
             \/ l = "fetch" /\ ~Cached(File(w))
             \/ pc[w] \in {"fetch", "download", "open", "append"}
      PROVE  Fits'
  <2>1. Kept(w) /\ pc'[w] = l /\ File(w)' = File(w)
    BY <1>3, MovesKept DEF Moves, File
  <2>2. ASSUME Cached(f), NEW i \in Pieces, Waits(w, f, i)'
        PROVE  Waits(w, f, i)
    BY <1>3, <2>1, <2>2 DEF Waits
  <2> QED BY <1>2, <1>3, <2>1, <2>2
<1>4. ASSUME NEW w \in Workers, Begin(w) PROVE Fits'
  <2>1. PICK l \in {"head", "fetch"} : Moves(w, l) /\ (l = "head" <=> Cached(File(w)))
    BY <1>4, BeginIs
  <2>2. store' = store
    BY <1>4 DEF Begin
  <2> QED BY <1>3, <2>1, <2>2
<1>5. ASSUME NEW w \in Workers, FetchOpen(w) PROVE Fits'
  <2>1. Moves(w, "download") /\ pc[w] = "fetch"
    BY <1>5, FetchOpenIs DEF At
  <2>2. store'[f] = store[f]
    <3>1. CASE Text(w)
      BY <1>5, <3>1, FetchOpenGrows
    <3>2. CASE ~Text(w)
      <4>1. PICK g \in Files : g = File(w)
        BY JobIs
      <4>2. g # f /\ store' = [store EXCEPT ![g] = IF @ = NoFile THEN <<>> ELSE @]
        BY <1>5, <3>2, <4>1 DEF FetchOpen, Text
      <4> QED BY <4>2, Creates
    <3> QED BY <3>1, <3>2
  <2> QED BY <1>3, <2>1, <2>2
<1>6. ASSUME NEW w \in Workers, Download(w) PROVE Fits'
  <2>1. Moves(w, "download") /\ pc[w] = "download"
    BY <1>6, DownloadIs DEF At
  <2>2. store'[f] = store[f]
    BY <1>6, DownloadGrows DEF Text
  <2> QED BY <1>3, <2>1, <2>2
<1>7. ASSUME NEW w \in Workers, Downloaded(w) \/ Open(w) PROVE Fits'
  <2>1. /\ \E l : Moves(w, l)
        /\ pc[w] \in {"download", "open"} /\ store' = store
    BY <1>7, DownloadedIs, OpenIs DEF At, Downloaded, Open
  <2> QED BY <1>3, <2>1
<1>8. ASSUME NEW w \in Workers, AppendOpen(w) PROVE Fits'
  <2>1. Moves(w, "flush") /\ pc[w] = "append" /\ Text(w)
    BY <1>8, AppendOpenIs DEF At
  <2>2. PICK g \in Files : g = File(w)
    BY JobIs
  <2>3. store' = [store EXCEPT ![g] = IF @ = NoFile THEN <<>> ELSE @]
    BY <1>8, <2>2 DEF AppendOpen, CreateCached
  <2>4. /\ \A h \in Files : h # g => store'[h] = store[h]
        /\ store'[g] = IF Cached(g) THEN store[g] ELSE <<>>
    BY <2>3, Creates
  <2>5. CASE f # g \/ Cached(f)
    BY <1>3, <2>1, <2>4, <2>5
  <2>6. CASE f = g /\ ~Cached(f)
    <3>1. Len(store'[f]) = 0
      BY <2>4, <2>6
    <3>2. Pending(f)' \in SUBSET (Workers \X Pieces)
      BY DEF Pending
    <3>3. Cardinality(Pending(f)') \in Nat /\ Cardinality(Pending(f)') <= MaxLen
      BY <3>2, MaxLenIs
    <3> QED BY <3>1, <3>3, MaxLenIs
  <2> QED BY <2>5, <2>6
<1>9. ASSUME NEW w \in Workers, Flush(w) PROVE Fits'
  <2>1. PICK g \in Files : g = File(w)
    BY JobIs
  <2>2. /\ pc[w] = "flush" /\ store[g] \in Seq(Pieces) /\ store'[g] \in Seq(Pieces)
        /\ \A h \in Files : h # g => store'[h] = store[h]
    BY <1>9, <2>1, FlushDoes DEF At
  <2>3. PICK n \in 1 .. FileLen :
          /\ job[w].pos < n /\ n <= job[w].text
          /\ IF n = job[w].text
               THEN Moves(w, "reopen") /\ job'[w].pos = 0 /\ job'[w].text = 0
               ELSE Moves(w, "flush") /\ job'[w].pos = n /\ job'[w].text = job[w].text
          /\ Len(store'[g]) = Len(store[g]) + (n - job[w].pos)
    BY <1>9, <2>1, FlushDoes
  <2>4. /\ Kept(w) /\ File(w)' = g
        /\ pc'[w] = IF n = job[w].text THEN "reopen" ELSE "flush"
    BY <2>1, <2>3, MovesKept DEF Moves, File
  <2>5. job[w].pos \in 0 .. FileLen /\ job[w].text \in 0 .. FileLen
    BY JobIs
  <2>6. ASSUME NEW i \in Pieces, Waits(w, g, i)'
        PROVE  Waits(w, g, i) /\ ~(i \in job[w].pos + 1 .. n)
    <3>1. n # job[w].text /\ n < i /\ i <= job[w].text
      BY <2>3, <2>4, <2>6 DEF Waits
    <3> QED BY <2>1, <2>2, <2>3, <2>5, <3>1, Constants DEF Waits
  <2>7. CASE f # g
    BY <1>2, <2>1, <2>2, <2>4, <2>7 DEF Waits
  <2>8. CASE f = g
    <3> DEFINE P == Pending(f)
               Q == Pending(f)'
    <3>1. Q \subseteq P
      BY <2>4, <2>6, <2>8, PendingShrinks
    <3>2. ASSUME NEW i \in job[w].pos + 1 .. n PROVE i \in Pieces /\ Waits(w, f, i)
      <4>1. job[w].pos < n /\ n <= job[w].text
        BY <2>3
      <4>2. i \in 1 .. FileLen /\ job[w].pos < i /\ i <= job[w].text
        BY <2>5, <4>1, Constants
      <4>3. i \in Pieces
        BY <4>2, Constants
      <4> QED BY <2>1, <2>2, <2>8, <4>2, <4>3 DEF Waits
    <3>3. \A i \in job[w].pos + 1 .. n : <<w, i>> \in P /\ <<w, i>> \notin Q
      <4>1. \A i \in Pieces : <<w, i>> \in P <=> Waits(w, f, i)
        BY DEF Pending
      <4>2. \A i \in Pieces : <<w, i>> \in Q <=> Waits(w, f, i)'
        BY DEF Pending
      <4> HIDE DEF P, Q
      <4> QED BY <2>6, <2>8, <3>2, <4>1, <4>2
    <3>4. P \in SUBSET (Workers \X Pieces) /\ job[w].pos \in Nat
      BY <2>5, PendingIs
    <3>5. Cardinality(Q) + (n - job[w].pos) <= Cardinality(P)
      <4> HIDE DEF P, Q
      <4> QED BY <2>3, <3>1, <3>3, <3>4, Handed
    <3>6. Cardinality(P) \in Nat /\ Cardinality(Q) \in Nat
      <4>1. Q \in SUBSET (Workers \X Pieces)
        BY <3>1, <3>4
      <4> QED BY <3>4, <4>1, MaxLenIs
    <3>7. Len(store[f]) \in Nat /\ Len(store[f]) + Cardinality(P) <= MaxLen
      <4>1. Cached(f)
        BY <2>2, <2>8, StoreIs
      <4> QED BY <1>1, <4>1
    <3>8. Len(store'[f]) = Len(store[f]) + (n - job[w].pos)
      BY <2>3, <2>8
    <3>9. Len(store'[f]) + Cardinality(Q) <= MaxLen
      <4> HIDE DEF P, Q
      <4> QED BY <2>5, <3>5, <3>6, <3>7, <3>8, MaxLenIs
    <3> QED BY <3>9
  <2> QED BY <2>7, <2>8
<1>10. ASSUME NEW w \in Workers, Reopen(w) \/ SendHead(w) \/ SendBlock(w) PROVE Fits'
  <2>1. \E l \in {"head", "send", "sent", "spin"} : Moves(w, l)
    BY <1>10, ReopenIs, SendHeadIs, SendBlockIs
  <2>2. store' = store
    BY <1>10 DEF Reopen, SendHead, SendBlock
  <2> QED BY <1>3, <2>1, <2>2
<1>11. ASSUME NEW w \in Workers, FetchFails(w) \/ SendSigPipe(w) \/ End(w)
       PROVE  Fits'
  <2>1. \E l \in {"idle", "dead"} : Leaves(w, l)
    BY <1>11, FetchFailsIs, SendSigPipeIs, EndIs
  <2>2. store' = store
    BY <1>11, FetchFailsIs, SendSigPipeIs, EndIs
  <2>3. Kept(w) /\ \A i \in Pieces : ~Waits(w, f, i)'
    BY <2>1, LeavesKept DEF Leaves, Waits
  <2> QED BY <1>2, <2>2, <2>3
<1>12. ASSUME NEW w \in Workers, NEW g \in Files, Request(w, g)
       PROVE  Fits'
  <2>1. store' = store /\ pc'[w] = "begin" /\ Kept(w)
    BY <1>12, RequestIs, RequestKept
  <2>2. \A i \in Pieces : ~Waits(w, f, i)'
    BY <2>1 DEF Waits
  <2> QED BY <1>2, <2>1, <2>2
<1>13. ASSUME NEW lost \in SUBSET Files, Stop(lost),
              store'[f] = store[f] \/ (store'[f] = <<>> /\ ~Cached(f))
       PROVE  Fits'
  <2>1. Pending(f)' = {}
    BY <1>13, StopIs DEF Pending, Waits
  <2>2. Cardinality(Pending(f)') = 0
    BY <2>1, FS_EmptySet
  <2>3. Cardinality(Pending(f)) \in Nat
    BY PendingIs, MaxLenIs
  <2>4. CASE store'[f] = store[f]
    BY <1>1, <2>2, <2>3, <2>4, MaxLenIs DEF Cached
  <2>5. CASE store'[f] = <<>>
    BY <2>2, <2>5, MaxLenIs
  <2> QED BY <1>13, <2>4, <2>5
<1>14. ASSUME NEW w \in Workers, AppendCrash(w) PROVE Fits'
  <2>1. PICK g \in Files : g = File(w) /\ Stop({g})
    BY <1>14, AppendCrashIs
  <2>2. store' = [store EXCEPT ![g] = IF @ = NoFile THEN <<>> ELSE @]
    BY <1>14, <2>1 DEF AppendCrash, CreateCached
  <2>3. store'[f] = store[f] \/ (store'[f] = <<>> /\ ~Cached(f))
    BY <2>2, Creates
  <2> QED BY <1>13, <2>1, <2>3
<1>15. CASE Crash
  BY <1>13, <1>15 DEF Crash
<1>16. CASE Restart
  BY <1>1, <1>16 DEF Restart, Pending, Waits, File, Cached
<1>17. CASE UNCHANGED vars
  BY <1>1, <1>17 DEF vars, Pending, Waits, File, Cached
<1> QED BY <1>4, <1>5, <1>6, <1>7, <1>8, <1>9, <1>10, <1>11, <1>12, <1>14, <1>15, <1>16, <1>17
        DEF Next, Step

LEMMA StepDeclared ==
  ASSUME ShapeInv, Contents, Sizes, Declared, [Next]_vars
  PROVE  Declared'
<1> Shape
  BY DEF ShapeInv
<1>1. ASSUME NEW w \in Workers, Kept(w), job'[w].declared <= MaxLen
      PROVE  Declared'
  BY <1>1 DEF Declared, Kept
<1>2. ASSUME NEW w \in Workers, NEW l, Moves(w, l), job'[w].declared = job[w].declared
      PROVE  Declared'
  BY <1>1, <1>2, MovesKept DEF Declared
<1>3. 0 <= MaxLen
  BY MaxLenIs
<1>4. ASSUME NEW w \in Workers, SendHead(w) PROVE Declared'
  <2>1. PICK g \in Files : g = File(w)
    BY JobIs
  <2>2. /\ Moves(w, "send") /\ job'[w].declared = Len(store[g]) /\ store[g] \in Seq(Pieces)
    BY <1>4, <2>1, SendHeadIs
  <2>3. Cached(g) /\ Len(store[g]) \in Nat
    BY <2>2, StoreIs, LenProperties
  <2>4. Len(store[g]) <= MaxLen
    <3>1. CASE g \in Pages
      <4>1. Len(store[g]) + Cardinality(Pending(g)) <= MaxLen /\ Cardinality(Pending(g)) \in Nat
        BY <2>3, <3>1, PendingIs, MaxLenIs DEF Sizes
      <4> QED BY <2>3, <4>1, MaxLenIs
    <3>2. CASE g \in Pictures
      <4>1. Len(store[g]) <= FileLen
        BY <2>3, <3>2 DEF Contents, Picture, Begins
      <4> QED BY <2>3, <4>1, MaxLenIs, Constants
    <3> QED BY <3>1, <3>2 DEF Files
  <2> QED BY <1>1, <2>2, <2>4, MovesKept
<1>5. ASSUME NEW w \in Workers, FetchFails(w) \/ SendSigPipe(w) \/ End(w)
      PROVE  Declared'
  <2>1. \E l \in {"idle", "dead"} : Leaves(w, l)
    BY <1>5, FetchFailsIs, SendSigPipeIs, EndIs
  <2> QED BY <1>1, <1>3, <2>1, LeavesKept, NoJobIs DEF Leaves
<1>6. ASSUME NEW w \in Workers, NEW f \in Files, Request(w, f)
      PROVE  Declared'
  <2>1. job'[w] = [NoJob EXCEPT !.file = f, !.solo = \A u \in Workers : ~Asks(u, f)]
    BY <1>6 DEF Request
  <2>2. job'[w].declared = 0
    BY <2>1, NoJobIs DEF Jobs
  <2> QED BY <1>1, <1>3, <1>6, <2>2, RequestKept
<1>7. ASSUME NEW lost \in SUBSET Files, Stop(lost)
      PROVE  Declared'
  BY <1>3, <1>7, StopIs, NoJobIs DEF Declared
<1>8. ASSUME NEW w \in Workers, AppendCrash(w) PROVE Declared'
  BY <1>7, <1>8, AppendCrashIs
<1>9. CASE Crash
  BY <1>7, <1>9 DEF Crash
<1>10. CASE Restart
  BY <1>10 DEF Restart, Declared
<1>11. CASE UNCHANGED vars
  BY <1>11 DEF vars, Declared
<1>12. ASSUME NEW w \in Workers,
              \/ Begin(w) \/ FetchOpen(w) \/ Download(w) \/ Open(w) \/ AppendOpen(w)
              \/ Flush(w) \/ Reopen(w) \/ SendBlock(w)
       PROVE  Declared'
  <2>1. \E l : Moves(w, l)
    BY <1>12, BeginIs, FetchOpenIs, DownloadIs, OpenIs, AppendOpenIs, FlushDoes, ReopenIs, SendBlockIs
  <2>2. job'[w].declared = job[w].declared
    BY <1>12, BeginIs, FetchOpenIs, DownloadIs, OpenIs, AppendOpenIs, FlushDoes, ReopenIs, SendBlockIs
  <2> QED BY <1>2, <2>1, <2>2
<1>13. ASSUME NEW w \in Workers, Downloaded(w) PROVE Declared'
  BY <1>2, <1>13, DownloadedIs
<1> QED BY <1>4, <1>5, <1>6, <1>8, <1>9, <1>10, <1>11, <1>12, <1>13 DEF Next, Step

(* TypeOK: its sizes are what needs Contents and Sizes, a picture never    *)
(* longer than the file and a page never longer than what every worker may *)
(* add to it.                                                              *)
THEOREM TypeCorrect == Spec => []TypeOK
<1>1. Init => Sizes /\ Declared
  BY NoJobIs, MaxLenIs DEF Init, Sizes, Declared, Cached, Files
<1>2. ShapeInv /\ Contents /\ Sizes /\ Declared => TypeOK
  <2> SUFFICES ASSUME ShapeInv, Contents, Sizes, Declared
               PROVE  TypeOK
    OBVIOUS
  <2> Shape
    BY DEF ShapeInv
  <2>1. ASSUME NEW f \in Files, store[f] # NoFile
        PROVE  store[f] \in Seq(Pieces) /\ Len(store[f]) <= IF f \in Pages THEN MaxLen ELSE FileLen
    <3>1. Cached(f) /\ store[f] \in Seq(Pieces) /\ Len(store[f]) \in Nat
      BY <2>1, StoreIs, LenProperties DEF Cached
    <3>2. CASE f \in Pages
      <4>1. Len(store[f]) + Cardinality(Pending(f)) <= MaxLen /\ Cardinality(Pending(f)) \in Nat
        BY <3>1, <3>2, PendingIs, MaxLenIs DEF Sizes
      <4> QED BY <3>1, <3>2, <4>1, MaxLenIs
    <3>3. CASE f \notin Pages
      BY <3>1, <3>3 DEF Files, Contents, Picture, Begins
    <3> QED BY <3>2, <3>3
  <2>2. ASSUME NEW w \in Workers
        PROVE  /\ job[w].file \in Files
               /\ job[w].pos \in 0 .. FileLen /\ job[w].text \in 0 .. FileLen
               /\ job[w].declared \in 0 .. MaxLen
               /\ job[w].got \in Seq(Pieces)
    BY JobIs, MaxLenIs DEF Declared, File
  <2> QED BY <2>1, <2>2 DEF TypeOK, Shape
<1>3. ShapeInv /\ Contents /\ Sizes /\ Declared /\ [Next]_vars => Declared'
  BY StepDeclared
<1> QED BY <1>1, <1>2, <1>3, InitReplies, InitShape, StepShape, StepContents, StepSizes, PTL DEF Spec

-----------------------------------------------------------------------------
(* Handlers that fill one page together: of every piece, those in the file *)
(* and those that a handler still has to flush are as many as of the first.*)
Unflushed(f, i) == {w \in Workers : pc[w] = "flush" /\ File(w) = f /\ job[w].pos < i}
Total(f, i) == Count(store[f], i) + Cardinality(Unflushed(f, i))
Even ==
  /\ \A w \in Workers : pc[w] = "flush" /\ File(w) \notin hurt => job[w].text = FileLen
  /\ \A f \in Pages \ hurt : Cached(f) => \A i \in Pieces : Total(f, i) = Total(f, 1)

LEMMA UnflushedIs ==
  ASSUME NEW f, NEW i
  PROVE  IsFiniteSet(Unflushed(f, i)) /\ Cardinality(Unflushed(f, i)) \in Nat
<1>1. Unflushed(f, i) \in SUBSET Workers
  BY DEF Unflushed
<1> QED BY <1>1, PageAssumption, FS_Subset, FS_CardinalityType

LEMMA CountIs ==
  ASSUME NEW s \in Seq(Pieces), NEW i
  PROVE  /\ Count(s, i) \in Nat
         /\ IsFiniteSet({k \in 1 .. Len(s) : s[k] = i})
         /\ Count(s, i) = Cardinality({k \in 1 .. Len(s) : s[k] = i})
<1>1. DOMAIN s = 1 .. Len(s) /\ Len(s) \in Nat
  BY LenProperties
<1>2. IsFiniteSet(1 .. Len(s))
  BY <1>1, FS_Interval
<1>3. {k \in 1 .. Len(s) : s[k] = i} \in SUBSET (1 .. Len(s))
  OBVIOUS
<1>4. IsFiniteSet({k \in 1 .. Len(s) : s[k] = i})
  BY <1>2, <1>3, FS_Subset
<1> QED BY <1>1, <1>4, FS_CardinalityType DEF Count

LEMMA CountFlushed ==
  ASSUME NEW s \in Seq(Pieces), NEW t \in Seq(Pieces), NEW from \in Nat, NEW n \in Nat, from < n,
         Len(t) = Len(s) + (n - from), \A k \in 1 .. Len(s) : t[k] = s[k],
         \A k \in 1 .. n - from : t[Len(s) + k] = from + k, NEW i \in Nat
  PROVE  Count(t, i) = Count(s, i) + IF from < i /\ i <= n THEN 1 ELSE 0
<1> DEFINE S == {k \in 1 .. Len(s) : s[k] = i}
           T == {k \in 1 .. Len(t) : t[k] = i}
<1>1. Len(s) \in Nat
  BY LenProperties
<1>2. \A k \in 1 .. Len(s) : k \in T <=> k \in S
  BY <1>1
<1>3. \A k \in Len(s) + 1 .. Len(t) : k \in T <=> k = Len(s) + (i - from) /\ from < i /\ i <= n
  <2> TAKE k \in Len(s) + 1 .. Len(t)
  <2>1. k \in Nat /\ k >= Len(s) + 1 /\ k <= Len(s) + (n - from) /\ k \in 1 .. Len(t)
    BY <1>1
  <2>2. PICK m : m = k - Len(s)
    OBVIOUS
  <2>3. m \in 1 .. n - from /\ k = Len(s) + m
    BY <1>1, <2>1, <2>2
  <2>4. t[k] = from + m
    BY <2>3
  <2>5. k \in T <=> from + m = i
    BY <2>1, <2>4
  <2> HIDE DEF T
  <2> QED BY <1>1, <2>3, <2>5
<1>4. \A k \in 1 .. Len(t) : k \in 1 .. Len(s) \/ k \in Len(s) + 1 .. Len(t)
  BY <1>1
<1>5. /\ \A k \in T : k \in 1 .. Len(t)
      /\ \A k \in S : k \in 1 .. Len(s)
  OBVIOUS
<1>6. Count(s, i) = Cardinality(S) /\ Count(t, i) = Cardinality(T) /\ IsFiniteSet(S)
      /\ Count(s, i) \in Nat
  BY CountIs
<1> HIDE DEF S, T
<1>7. CASE from < i /\ i <= n
  <2> DEFINE x == Len(s) + (i - from)
  <2>1. x \in Len(s) + 1 .. Len(t) /\ x \notin 1 .. Len(s)
    BY <1>1, <1>7
  <2>2. T = S \cup {x} /\ x \notin S
    <3>1. \A k \in Len(s) + 1 .. Len(t) : k \in T <=> k = x
      BY <1>3, <1>7
    <3> HIDE DEF x
    <3> QED BY <1>1, <1>2, <1>4, <1>5, <2>1, <3>1
  <2> QED BY <1>6, <1>7, <2>2, FS_AddElement
<1>8. CASE ~(from < i /\ i <= n)
  <2>1. T = S
    <3>1. \A k \in Len(s) + 1 .. Len(t) : k \notin T
      BY <1>3, <1>8
    <3>2. \A k \in 1 .. Len(s) : k \in 1 .. Len(t)
      BY <1>1
    <3> QED BY <1>2, <1>4, <1>5, <3>1, <3>2
  <2> QED BY <1>6, <1>8, <2>1
<1> QED BY <1>7, <1>8

(* The others' part in what is unflushed stays, w's is what it says.       *)
LEMMA UnflushedMoves ==
  ASSUME NEW w \in Workers, Kept(w), NEW f, NEW i
  PROVE  /\ ~(w \in Unflushed(f, i)) /\ ~(w \in Unflushed(f, i)') =>
              Unflushed(f, i)' = Unflushed(f, i)
         /\ w \in Unflushed(f, i) /\ w \in Unflushed(f, i)' => Unflushed(f, i)' = Unflushed(f, i)
         /\ ~(w \in Unflushed(f, i)) /\ w \in Unflushed(f, i)' =>
              Cardinality(Unflushed(f, i)') = Cardinality(Unflushed(f, i)) + 1
         /\ w \in Unflushed(f, i) /\ ~(w \in Unflushed(f, i)') =>
              Cardinality(Unflushed(f, i)') = Cardinality(Unflushed(f, i)) - 1
<1>1. PICK U : U = Unflushed(f, i)
  OBVIOUS
<1>2. PICK V : V = Unflushed(f, i)'
  OBVIOUS
<1>3. \A v : v # w => (v \in V <=> v \in U)
  BY <1>1, <1>2 DEF Unflushed, Kept, File
<1>4. IsFiniteSet(U)
  BY <1>1, UnflushedIs
<1>5. /\ w \notin U /\ w \notin V => V = U
      /\ w \in U /\ w \in V => V = U
      /\ w \notin U /\ w \in V => V = U \cup {w}
      /\ w \in U /\ w \notin V => V = U \ {w}
  BY <1>3
<1>6. /\ w \notin U /\ w \in V => Cardinality(V) = Cardinality(U) + 1
      /\ w \in U /\ w \notin V => Cardinality(V) = Cardinality(U) - 1
  BY <1>4, <1>5, FS_AddElement, FS_RemoveElement
<1> QED BY <1>1, <1>2, <1>5, <1>6

(* A step that has nothing to do with flushing.                            *)
LEMMA EvenKept ==
  ASSUME Even, NEW w \in Workers, Kept(w), \A f \in Pages : Cached(f)' => store'[f] = store[f],
         pc[w] # "flush", pc'[w] # "flush", hurt \subseteq hurt'
  PROVE  Even'
<1>1. ASSUME NEW v \in Workers, pc'[v] = "flush", File(v)' \notin hurt'
      PROVE  job'[v].text = FileLen
  BY <1>1 DEF Even, Kept, File
<1>2. ASSUME NEW f, NEW i, store'[f] = store[f]
      PROVE  Total(f, i)' = Total(f, i)
  <2>1. w \notin Unflushed(f, i) /\ w \notin Unflushed(f, i)'
    BY DEF Unflushed
  <2>2. Unflushed(f, i)' = Unflushed(f, i)
    BY <2>1, UnflushedMoves
  <2> QED BY <1>2, <2>2 DEF Total, Count
<1>3. ASSUME NEW f \in Pages \ hurt', Cached(f)', NEW i \in Pieces
      PROVE  Total(f, i)' = Total(f, 1)'
  <2>1. store'[f] = store[f] /\ Cached(f) /\ f \notin hurt
    BY <1>3 DEF Cached
  <2> QED BY <1>2, <1>3, <2>1 DEF Even
<1> QED BY <1>1, <1>3 DEF Even

LEMMA StepEven == ShapeInv /\ Even /\ [Next]_vars => Even'
<1> SUFFICES ASSUME ShapeInv, Even, [Next]_vars
             PROVE  Even'
  OBVIOUS
<1> Shape /\ 1 \in Pieces
  BY Constants DEF ShapeInv
<1>0. \A f \in Pages : f \in Files /\ f \notin Pictures
  BY PageAssumption DEF Files
<1>1. ASSUME NEW w \in Workers, NEW l \in PCs \ {"flush"}, Moves(w, l), pc[w] # "flush",
             hurt \subseteq hurt', \A f \in Pages : store'[f] = store[f]
      PROVE  Even'
  BY <1>1, MovesKept, EvenKept DEF Moves
<1>2. ASSUME NEW w \in Workers, FetchOpen(w) \/ Download(w) PROVE Even'
  <2>1. /\ Moves(w, "download") /\ pc[w] \in {"fetch", "download"}
        /\ "download" \in PCs \ {"flush"}
    BY <1>2, FetchOpenIs, DownloadIs DEF At, PCs
  <2>2. \A f \in Pages : store'[f] = store[f]
    <3>1. CASE Text(w)
      BY <1>2, <3>1, FetchOpenGrows, DownloadGrows
    <3>2. CASE ~Text(w)
      <4>1. PICK g \in Files : g = File(w) /\ g \notin Pages
        BY <3>2, JobIs DEF Text
      <4>2. CASE FetchOpen(w)
        <5>1. store' = [store EXCEPT ![g] = IF @ = NoFile THEN <<>> ELSE @]
          BY <3>2, <4>1, <4>2 DEF FetchOpen
        <5> QED BY <1>0, <4>1, <5>1, Creates
      <4>3. CASE Download(w)
        BY <1>0, <3>2, <4>1, <4>3, DownloadGrows
      <4> QED BY <1>2, <4>2, <4>3
    <3> QED BY <3>1, <3>2
  <2>3. hurt \subseteq hurt'
    BY <1>2, FetchOpenGrows, DownloadGrows, FillsIs DEF history
  <2> QED BY <1>1, <2>1, <2>2, <2>3
<1>3. ASSUME NEW w \in Workers, Downloaded(w) PROVE Even'
  <2>1. \E l \in {"open", "reopen"} : Moves(w, l)
    BY <1>3, DownloadedIs
  <2>2. hurt \subseteq hurt' /\ store' = store /\ pc[w] = "download"
    BY <1>3 DEF Downloaded, Fills, At
  <2>3. {"open", "reopen"} \subseteq PCs \ {"flush"}
    BY DEF PCs
  <2> QED BY <1>1, <2>1, <2>2, <2>3
<1>4. ASSUME NEW w \in Workers, Begin(w) \/ Open(w) \/ Reopen(w) \/ SendHead(w) \/ SendBlock(w)
      PROVE  Even'
  <2>1. \E l \in {"head", "fetch", "append", "send", "sent", "spin"} : Moves(w, l)
    BY <1>4, BeginIs, OpenIs, ReopenIs, SendHeadIs, SendBlockIs
  <2>2. hurt' = hurt /\ store' = store /\ pc[w] # "flush"
    BY <1>4 DEF Begin, Open, Reopen, SendHead, SendBlock, At, history
  <2>3. {"head", "fetch", "append", "send", "sent", "spin"} \subseteq PCs \ {"flush"}
    BY DEF PCs
  <2> QED BY <1>1, <2>1, <2>2, <2>3
<1>5. ASSUME NEW w \in Workers, FetchFails(w) \/ SendSigPipe(w) \/ End(w)
      PROVE  Even'
  <2>1. \E l \in {"idle", "dead"} : Leaves(w, l)
    BY <1>5, FetchFailsIs, SendSigPipeIs, EndIs
  <2>2. hurt' = hurt /\ store' = store /\ pc[w] # "flush"
    BY <1>5, FetchFailsIs, SendSigPipeIs, EndIs DEF At, history
  <2>3. Kept(w) /\ pc'[w] # "flush"
    BY <2>1, LeavesKept DEF Leaves
  <2> QED BY <2>2, <2>3, EvenKept
<1>6. ASSUME NEW w \in Workers, NEW f \in Files, Request(w, f)
      PROVE  Even'
  <2>1. hurt' = hurt /\ store' = store /\ pc[w] # "flush" /\ pc'[w] # "flush"
    BY <1>6, RequestIs DEF At, history
  <2> QED BY <1>6, <2>1, RequestKept, EvenKept
<1>7. ASSUME NEW w \in Workers, AppendOpen(w) PROVE Even'
  <2>1. PICK g \in Files : g = File(w) /\ g \in Pages
    BY <1>7, JobIs, AppendOpenIs DEF Text
  <2>2. /\ Moves(w, "flush") /\ pc[w] = "append" /\ job'[w].pos = 0 /\ job'[w].text \in 1 .. FileLen
        /\ hurt' = IF job'[w].text < FileLen THEN hurt \cup {g} ELSE hurt
    BY <1>7, <2>1, AppendOpenIs DEF At, Fills
  <2>3. Kept(w) /\ pc'[w] = "flush" /\ File(w)' = g
    BY <2>1, <2>2, MovesKept DEF Moves, File
  <2>4. /\ \A f \in Files : f # g => store'[f] = store[f]
        /\ store'[g] = IF Cached(g) THEN store[g] ELSE <<>>
    <3>1. store' = [store EXCEPT ![g] = IF @ = NoFile THEN <<>> ELSE @]
      BY <1>7, <2>1 DEF AppendOpen, CreateCached
    <3> QED BY <3>1, Creates
  <2>5. ASSUME NEW v \in Workers, pc'[v] = "flush", File(v)' \notin hurt'
        PROVE  job'[v].text = FileLen
    <3>1. CASE v = w
      BY <2>2, <2>3, <2>5, <3>1, Constants
    <3>2. CASE v # w
      <4>1. pc[v] = "flush" /\ File(v)' = File(v) /\ job'[v].text = job[v].text
        BY <2>3, <2>5, <3>2 DEF Kept, File
      <4>2. File(v) \notin hurt
        BY <2>2, <2>5, <4>1
      <4> QED BY <4>1, <4>2 DEF Even
    <3> QED BY <3>1, <3>2
  <2>6. ASSUME NEW f \in Pages \ hurt', Cached(f)', NEW i \in Pieces
        PROVE  Total(f, i)' = Total(f, 1)'
    <3>1. CASE f # g
      <4>1. store'[f] = store[f] /\ Cached(f) /\ f \notin hurt
        BY <1>0, <2>2, <2>4, <2>6, <3>1 DEF Cached
      <4>2. \A k \in Pieces : w \notin Unflushed(f, k) /\ w \notin Unflushed(f, k)'
        BY <2>1, <2>3, <3>1 DEF Unflushed
      <4>3. \A k \in Pieces : Unflushed(f, k)' = Unflushed(f, k)
        BY <2>3, <4>2, UnflushedMoves
      <4>4. \A k \in Pieces : Total(f, k)' = Total(f, k)
        BY <4>1, <4>3 DEF Total
      <4> QED BY <2>6, <4>1, <4>4 DEF Even
    <3>2. CASE f = g
      <4>1. ASSUME NEW k \in Pieces
            PROVE  /\ Cardinality(Unflushed(f, k)') = Cardinality(Unflushed(f, k)) + 1
        <5>1. w \notin Unflushed(f, k) /\ w \in Unflushed(f, k)'
          BY <2>2, <2>3, <3>2, Constants DEF Unflushed
        <5> QED BY <2>3, <5>1, UnflushedMoves
      <4>2. CASE Cached(f)
        <5>1. store'[f] = store[f] /\ store[f] \in Seq(Pieces) /\ f \in Files /\ f \notin hurt
          BY <1>0, <2>2, <2>4, <2>6, <3>2, <4>2, StoreIs
        <5>2. \A k \in Pieces : Total(f, k)' = Total(f, k) + 1
          <6> TAKE k \in Pieces
          <6>1. Count(store[f], k) \in Nat /\ Cardinality(Unflushed(f, k)) \in Nat
            BY <5>1, CountIs, UnflushedIs
          <6>2. Count(store[f], k)' = Count(store[f], k)
            BY <5>1 DEF Count
          <6> QED BY <4>1, <6>1, <6>2 DEF Total
        <5> QED BY <2>6, <4>2, <5>1, <5>2 DEF Even
      <4>3. CASE ~Cached(f)
        <5>1. store'[f] = <<>>
          BY <2>4, <3>2, <4>3
        <5>2. \A k \in Pieces : Unflushed(f, k) = {}
          BY <4>3 DEF Unflushed, ShapeInv, Places, PlaceOf, File
        <5>3. \A k \in Pieces : Count(store[f], k)' = 0
          <6> TAKE k \in Pieces
          <6>1. {x \in DOMAIN store'[f] : store'[f][x] = k} = {}
            BY <5>1
          <6> QED BY <6>1, FS_EmptySet DEF Count
        <5>4. \A k \in Pieces : Total(f, k)' = 1
          <6> TAKE k \in Pieces
          <6>1. Cardinality(Unflushed(f, k)) = 0
            BY <5>2, FS_EmptySet
          <6> QED BY <4>1, <5>3, <6>1 DEF Total
        <5> QED BY <2>6, <5>4
      <4> QED BY <4>2, <4>3
    <3> QED BY <3>1, <3>2
  <2> QED BY <2>5, <2>6 DEF Even
<1>8. ASSUME NEW w \in Workers, Flush(w) PROVE Even'
  <2>1. PICK g \in Files : g = File(w) /\ g \in Pages
    BY <1>8, JobIs, FlushDoes DEF Text
  <2>2. /\ pc[w] = "flush" /\ hurt' = hurt
        /\ \A f \in Files : f # g => store'[f] = store[f]
        /\ store[g] \in Seq(Pieces) /\ store'[g] \in Seq(Pieces)
    BY <1>8, <2>1, FlushDoes, FlushGrows DEF At, Fills
  <2>3. PICK n \in 1 .. FileLen :
          /\ job[w].pos < n /\ n <= job[w].text
          /\ IF n = job[w].text
               THEN Moves(w, "reopen") /\ job'[w].pos = 0 /\ job'[w].text = 0
               ELSE Moves(w, "flush") /\ job'[w].pos = n /\ job'[w].text = job[w].text
          /\ Len(store'[g]) = Len(store[g]) + (n - job[w].pos)
          /\ \A k \in 1 .. Len(store[g]) : store'[g][k] = store[g][k]
          /\ \A k \in 1 .. n - job[w].pos : store'[g][Len(store[g]) + k] = job[w].pos + k
    BY <1>8, <2>1, FlushDoes
  <2>4. Kept(w) /\ File(w)' = g /\ pc'[w] = IF n = job[w].text THEN "reopen" ELSE "flush"
    BY <2>1, <2>3, MovesKept DEF Moves, File
  <2>5. job[w].pos \in Nat /\ n \in Nat
    BY JobIs, Constants
  <2>6. ASSUME NEW v \in Workers, pc'[v] = "flush", File(v)' \notin hurt'
        PROVE  job'[v].text = FileLen
    <3>1. CASE v = w
      BY <2>1, <2>2, <2>3, <2>4, <2>6, <3>1 DEF Even
    <3>2. CASE v # w
      <4>1. pc[v] = "flush" /\ File(v)' = File(v) /\ job'[v].text = job[v].text
        BY <2>4, <2>6, <3>2 DEF Kept, File
      <4>2. File(v) \notin hurt
        BY <2>2, <2>6, <4>1
      <4> QED BY <4>1, <4>2 DEF Even
    <3> QED BY <3>1, <3>2
  <2>7. ASSUME NEW f \in Pages \ hurt', Cached(f)', NEW i \in Pieces
        PROVE  Total(f, i)' = Total(f, 1)'
    <3>1. CASE f # g
      <4>1. store'[f] = store[f] /\ Cached(f) /\ f \notin hurt
        BY <1>0, <2>2, <2>7, <3>1 DEF Cached
      <4>2. \A k \in Pieces : w \notin Unflushed(f, k) /\ w \notin Unflushed(f, k)'
        BY <2>1, <2>4, <3>1 DEF Unflushed
      <4>3. \A k \in Pieces : Unflushed(f, k)' = Unflushed(f, k)
        BY <2>4, <4>2, UnflushedMoves
      <4>4. \A k \in Pieces : Total(f, k)' = Total(f, k)
        BY <4>1, <4>3 DEF Total
      <4> QED BY <2>7, <4>1, <4>4 DEF Even
    <3>2. CASE f = g
      <4>1. Cached(f) /\ f \notin hurt /\ job[w].text = FileLen
        BY <2>1, <2>2, <2>7, <3>2, StoreIs DEF Even
      <4>2. ASSUME NEW k \in Pieces
            PROVE  Total(f, k)' = Total(f, k)
        <5>1. k \in Nat /\ k <= FileLen
          BY Constants
        <5>2. /\ w \in Unflushed(f, k) <=> job[w].pos < k
              /\ w \in Unflushed(f, k)' <=> n # FileLen /\ n < k
          BY <2>1, <2>2, <2>3, <2>4, <3>2, <4>1 DEF Unflushed
        <5>3. Count(store'[f], k) = Count(store[f], k) + IF job[w].pos < k /\ k <= n THEN 1 ELSE 0
          <6>1. PICK a \in Nat : a = job[w].pos
            BY <2>5
          <6>2. PICK s \in Seq(Pieces) : s = store[f]
            BY <2>2, <3>2
          <6>3. PICK t \in Seq(Pieces) : t = store'[f]
            BY <2>2, <3>2
          <6>4. /\ a < n /\ Len(t) = Len(s) + (n - a)
                /\ \A x \in 1 .. Len(s) : t[x] = s[x]
                /\ \A x \in 1 .. n - a : t[Len(s) + x] = a + x
            BY <2>3, <3>2, <6>1, <6>2, <6>3
          <6>5. Count(t, k) = Count(s, k) + IF a < k /\ k <= n THEN 1 ELSE 0
            BY <2>5, <5>1, <6>4, CountFlushed, ZenonT(30)
          <6> QED BY <6>1, <6>2, <6>3, <6>5
        <5>4. /\ Count(store[f], k) \in Nat /\ Cardinality(Unflushed(f, k)) \in Nat
              /\ Count(store[f], k)' = Count(store'[f], k)
          BY <2>2, <3>2, CountIs, UnflushedIs DEF Count
        <5>5. CASE job[w].pos < k /\ k <= n
          <6>1. w \in Unflushed(f, k) /\ w \notin Unflushed(f, k)'
            BY <2>5, <5>1, <5>2, <5>5
          <6>2. Cardinality(Unflushed(f, k)') = Cardinality(Unflushed(f, k)) - 1
            BY <2>4, <6>1, UnflushedMoves
          <6> QED BY <5>3, <5>4, <5>5, <6>2 DEF Total
        <5>6. CASE ~(job[w].pos < k /\ k <= n)
          <6>1. w \in Unflushed(f, k) <=> w \in Unflushed(f, k)'
            BY <2>3, <2>5, <5>1, <5>2, <5>6, Constants
          <6>2. Unflushed(f, k)' = Unflushed(f, k)
            BY <2>4, <6>1, UnflushedMoves
          <6> QED BY <5>3, <5>4, <5>6, <6>2 DEF Total
        <5> QED BY <5>5, <5>6
      <4> QED BY <2>7, <4>1, <4>2 DEF Even
    <3> QED BY <3>1, <3>2
  <2> QED BY <2>6, <2>7 DEF Even
<1>9. ASSUME NEW lost \in SUBSET Files, Stop(lost),
             \A f \in Files : f \notin lost => store'[f] = store[f]
      PROVE  Even'
  <2>1. /\ \A v \in Workers : pc'[v] = "idle"
        /\ hurt \cup lost \subseteq hurt'
        /\ \A v \in Workers : pc[v] = "flush" => File(v) \in hurt'
    BY <1>9, StopIs
  <2>2. ASSUME NEW f \in Pages \ hurt', Cached(f)', NEW i \in Pieces
        PROVE  Total(f, i)' = Total(f, 1)'
    <3>1. store'[f] = store[f] /\ Cached(f) /\ f \notin hurt
      BY <1>0, <1>9, <2>1, <2>2 DEF Cached
    <3>2. \A k \in Pieces : Unflushed(f, k)' = {} /\ Unflushed(f, k) = {}
      BY <2>1, <2>2 DEF Unflushed
    <3>3. \A k \in Pieces : Total(f, k)' = Total(f, k)
      BY <3>1, <3>2 DEF Total
    <3> QED BY <2>2, <3>1, <3>3 DEF Even
  <2> QED BY <2>1, <2>2 DEF Even
<1>10. ASSUME NEW w \in Workers, AppendCrash(w) PROVE Even'
  BY <1>9, <1>10, AppendCrashIs
<1>11. CASE Crash
  BY <1>9, <1>11 DEF Crash
<1>12. CASE Restart
  BY <1>12 DEF Restart, Even, Total, Count, Unflushed, File, Cached, history
<1>13. CASE UNCHANGED vars
  BY <1>13 DEF vars, Even, Total, Count, Unflushed, File, Cached, history
<1> QED BY <1>2, <1>3, <1>4, <1>5, <1>6, <1>7, <1>8, <1>10, <1>11, <1>12, <1>13 DEF Next, Step

(* NothingLost: when nobody is writing a page, every piece is there as     *)
(* many times: search_news_operation.c:70-103.                             *)
THEOREM NoPieceLost == Spec => []NothingLost
<1>1. Init => Even
  BY DEF Init, Even, Cached, Files
<1>2. ShapeInv /\ Even => NothingLost
  <2> SUFFICES ASSUME ShapeInv, Even, NEW f \in Pages \ hurt, store[f] # NoFile,
                      ~\E w \in Workers : pc[w] = "flush" /\ File(w) = f,
                      NEW i \in Pieces
               PROVE  Count(store[f], i) = Count(store[f], 1)
    BY DEF NothingLost
  <2>1. Cached(f) /\ store[f] \in Seq(Pieces) /\ f \in Files
    BY StoreIs DEF ShapeInv, Cached, Files
  <2>2. Total(f, i) = Total(f, 1)
    BY <2>1 DEF Even
  <2>3. Unflushed(f, i) = {} /\ Unflushed(f, 1) = {}
    BY DEF Unflushed
  <2>4. Cardinality(Unflushed(f, i)) = 0 /\ Cardinality(Unflushed(f, 1)) = 0
    BY <2>3, FS_EmptySet
  <2>5. Count(store[f], i) \in Nat /\ Count(store[f], 1) \in Nat
    BY <2>1, CountIs
  <2> QED BY <2>2, <2>4, <2>5 DEF Total
<1> QED BY <1>1, <1>2, InitShape, StepShape, StepEven, PTL DEF Spec
=============================================================================
