-------------------------- MODULE NewsIndexProofs --------------------------
(***************************************************************************)
(* Theorems about NewsIndex, for every number of threads, items, buckets,  *)
(* days and updates, and every hash function.                              *)
(*                                                                         *)
(* IndexInv = TypeInv /\ LinkInv is inductive, whatever the threads do to *)
(* one another.  LinkInv says how cells hang in the chains, that a cell    *)
(* not yet linked is its thread's alone, and that an order (Ranked) grows  *)
(* along every chain: so a chain ends, and Chain, which TLC unrolls, is    *)
(* followed by an induction on the least bad place (LeastNumber).          *)
(* Delivered adds the lines.  For the updater alone, AloneInv says that    *)
(* every live cell hangs from something and that a search misses nothing;  *)
(* for a process that is never restarted, FileInv that the file of the     *)
(* day matches the cells.                                                  *)
(***************************************************************************)
EXTENDS NewsIndex, FiniteSetTheorems, SequenceTheorems, TLAPS

(* Where a thread has a cell that it is about to link, a place in a chain, *)
(* and where destroy_hash_table's variables are in use.                    *)
Linking(p)   == pc[p] \in {"walk", "link"}
Following(p) == pc[p] \in {"compare", "walk", "link"}

UpdaterOnly == {"stamp", "check", "destroy", "collect", "reset", "blacklist"}

Stages ==
  /\ \A p \in Procs : new[p] # Null <=> Linking(p)
  /\ \A p \in Procs : ptr[p] # Null => Following(p) \/ pc[p] = "collect"
  /\ \A w \in Workers : pc[w] \notin UpdaterOnly
  /\ ~Destroying => bucket = 0
  /\ pc[Updater] = "collect" => bucket < HashLen
  /\ pc[Updater] # "collect" => arr = <<>>

TypeInv == TypeOK /\ Stages

-----------------------------------------------------------------------------
(* The types.                                                              *)
LEMMA Constants ==
  /\ HashLen \in Nat /\ HashLen >= 1 /\ BatchMax \in Nat /\ BatchMax >= 1
  /\ Hash \in [Urls -> Buckets] /\ Buckets = 0 .. HashLen - 1
  /\ PageMax \in Nat /\ UpdateMax \in Nat /\ RestartMax \in Nat
  /\ CellCount \in Nat /\ Cells = 1 .. CellCount /\ Null = 0 /\ Null \notin Cells
  /\ Updater \in Procs /\ Updater \notin Workers /\ Workers \subseteq Procs
  /\ Days \subseteq Nat /\ 1 \in Days
  /\ \A d \in Days : Title(d) \in Titles
  /\ AnyUrl \in Urls
<1>1. Len(Calendar) \in Nat /\ Len(Calendar) >= 1
  BY IndexAssumption, EmptySeq, LenProperties
<1>2. Days \subseteq Nat /\ 1 \in Days
  BY <1>1 DEF Days
<1>3. AnyUrl \in Urls
  BY IndexAssumption DEF AnyUrl
<1>4. CellCount \in Nat
  BY IndexAssumption DEF CellCount
<1>5. Cells = 1 .. CellCount /\ Null = 0 /\ Null \notin Cells
  BY <1>4 DEF Cells, CellCount, Null
<1>6. Updater \in Procs /\ Workers \subseteq Procs
  BY DEF Procs
<1>7. \A d \in Days : Title(d) \in Titles
  BY DEF Titles
<1> QED BY IndexAssumption, <1>2, <1>3, <1>4, <1>5, <1>6, <1>7 DEF Buckets

CellRecords == [st : {"unused", "live", "freed"}, url : Urls,
                next : Cells \cup {Null}]
PCs == {"idle", "stamp", "check", "destroy", "collect", "reset", "open", "match",
        "head", "compare", "alloc", "walk", "link", "write", "close", "blacklist"}

LEMMA FreeIs ==
  /\ Free \in CellRecords /\ Free.st = "unused" /\ Free.next = Null
  /\ [Free EXCEPT !.st = "freed"] \in CellRecords
  /\ [Free EXCEPT !.st = "freed"].st = "freed"
  /\ [Free EXCEPT !.st = "freed"].next = Null
BY Constants DEF Free, CellRecords

LEMMA TypeIs ==
  TypeOK <=>
  /\ table \in [Buckets -> Cells \cup {Null}]
  /\ heap \in [Cells -> CellRecords]
  /\ name \in Titles \cup {Blank} /\ date \in Days /\ created \subseteq Titles
  /\ saved \in [Titles -> [Urls -> 0 .. 2]]
  /\ out \in [Procs -> [Urls -> 0 .. 2]]
  /\ lost \subseteq Urls
  /\ pc \in [Procs -> PCs]
  /\ url \in [Procs -> Urls]
  /\ ptr \in [Procs -> Cells \cup {Null}]
  /\ new \in [Procs -> Cells \cup {Null}]
  /\ file \in [Procs -> Titles \cup {Blank}]
  /\ left \in [Procs -> 0 .. PageMax]
  /\ bucket \in 0 .. HashLen
  /\ arr \in Seq(Cells) /\ Len(arr) <= BatchMax
  /\ updates \in 0 .. UpdateMax /\ restarts \in 0 .. RestartMax
  /\ phase \in {"run", "undefined"}
BY DEF TypeOK, CellRecords, PCs

LEMMA InitTypeInv == Init => TypeInv
<1> SUFFICES ASSUME Init PROVE TypeInv
  OBVIOUS
<1>1. /\ table \in [Buckets -> Cells \cup {Null}]
      /\ heap \in [Cells -> CellRecords]
  BY FreeIs DEF Init
<1>2. /\ name \in Titles \cup {Blank} /\ date \in Days /\ created \subseteq Titles
      /\ saved \in [Titles -> [Urls -> 0 .. 2]]
      /\ out \in [Procs -> [Urls -> 0 .. 2]]
      /\ lost \subseteq Urls
  BY Constants DEF Init, NoLines
<1>3. /\ pc \in [Procs -> PCs] /\ url \in [Procs -> Urls]
      /\ ptr \in [Procs -> Cells \cup {Null}] /\ new \in [Procs -> Cells \cup {Null}]
      /\ file \in [Procs -> Titles \cup {Blank}]
      /\ left \in [Procs -> 0 .. PageMax]
  BY Constants DEF Init, PCs
<1>4. /\ bucket \in 0 .. HashLen /\ arr \in Seq(Cells) /\ Len(arr) <= BatchMax
      /\ updates \in 0 .. UpdateMax /\ restarts \in 0 .. RestartMax
      /\ phase \in {"run", "undefined"}
  BY Constants DEF Init
<1>5. Stages
  BY Constants DEF Init, Stages, Linking, Following, UpdaterOnly, Destroying
<1>6. TypeOK
  BY <1>1, <1>2, <1>3, <1>4, TypeIs
<1> QED BY <1>5, <1>6 DEF TypeInv

(* The lines that leave a buffer.                                          *)
LEMMA WrittenIs ==
  ASSUME NEW n \in 0 .. 2, NEW m \in 0 .. 2
  PROVE  /\ Written(n, m) \in 0 .. 2
         /\ Written(n, m) > 0 <=> n > 0 \/ m > 0
BY DEF Written

LEMMA SavedWith ==
  ASSUME TypeOK, NEW f \in Titles, NEW lines \in [Urls -> 0 .. 2], NEW r, NEW s,
         r = [u \in Urls |-> Written(saved[f][u], lines[u])],
         s = [saved EXCEPT ![f] = r]
  PROVE  /\ s \in [Titles -> [Urls -> 0 .. 2]]
         /\ \A u \in Urls : s[f][u] = Written(saved[f][u], lines[u])
         /\ \A g \in Titles \ {f} : s[g] = saved[g]
<1>1. saved \in [Titles -> [Urls -> 0 .. 2]] /\ saved[f] \in [Urls -> 0 .. 2]
  BY DEF TypeOK
<1>3. \A u \in Urls : saved[f][u] \in 0 .. 2 /\ lines[u] \in 0 .. 2
  BY <1>1
<1>4. r \in [Urls -> 0 .. 2]
  BY <1>3, WrittenIs
<1>6. s \in [Titles -> [Urls -> 0 .. 2]] /\ s[f] = r
  BY <1>1, <1>4
<1>7. \A g \in Titles \ {f} : s[g] = saved[g]
  BY <1>1
<1> QED BY <1>6, <1>7

LEMMA OutputIs ==
  ASSUME TypeOK, NEW p \in Procs, NEW lines \in [Urls -> 0 .. 2], Output(p, lines)
  PROVE  /\ saved' \in [Titles -> [Urls -> 0 .. 2]]
         /\ lost' \subseteq Urls
         /\ lost \subseteq lost'
         /\ \A f \in Titles, u \in Urls : saved[f][u] > 0 => saved'[f][u] > 0
         /\ \A u \in Urls : lines[u] > 0 =>
              u \in lost' \/ \E f \in Titles : saved'[f][u] > 0
<1>1. CASE file[p] = Blank
  BY <1>1 DEF Output, TypeOK
<1>2. CASE file[p] # Blank
  <2>1. PICK f \in Titles : f = file[p]
    BY <1>2 DEF TypeOK
  <2>2. /\ saved' = [saved EXCEPT ![f] = [u \in Urls |-> Written(@[u], lines[u])]]
        /\ lost' = lost
    BY <1>2, <2>1 DEF Output
  <2>3. /\ saved' \in [Titles -> [Urls -> 0 .. 2]]
        /\ \A u \in Urls : saved'[f][u] = Written(saved[f][u], lines[u])
        /\ \A g \in Titles \ {f} : saved'[g] = saved[g]
    <3>1. PICK r, s : s = saved' /\ r = [u \in Urls |-> Written(saved[f][u], lines[u])]
      OBVIOUS
    <3>2. s = [saved EXCEPT ![f] = r]
      BY <3>1, <2>2
    <3>3. /\ s \in [Titles -> [Urls -> 0 .. 2]]
          /\ \A u \in Urls : s[f][u] = Written(saved[f][u], lines[u])
          /\ \A g \in Titles \ {f} : s[g] = saved[g]
      BY <3>1, <3>2, SavedWith
    <3> QED BY <3>1, <3>3
  <2>4. \A u \in Urls : saved[f][u] \in 0 .. 2 /\ lines[u] \in 0 .. 2
    BY DEF TypeOK
  <2>5. \A u \in Urls : saved'[f][u] > 0 <=> saved[f][u] > 0 \/ lines[u] > 0
    BY <2>3, <2>4, WrittenIs
  <2> QED BY <2>2, <2>3, <2>5 DEF TypeOK
<1> QED BY <1>1, <1>2

LEMMA NoLinesIs == NoLines \in [Urls -> 0 .. 2] /\ \A u \in Urls : NoLines[u] = 0
BY DEF NoLines

LEMMA RestartTypeInv ==
  ASSUME TypeInv, Restart
  PROVE  TypeInv'
<1> USE Constants DEF TypeInv, Restart
<1>1. /\ table' \in [Buckets -> Cells \cup {Null}] /\ heap' \in [Cells -> CellRecords]
  BY FreeIs
<1>2. /\ name' \in Titles \cup {Blank} /\ date' \in Days /\ created' \subseteq Titles
      /\ saved' \in [Titles -> [Urls -> 0 .. 2]] /\ out' \in [Procs -> [Urls -> 0 .. 2]]
      /\ lost' \subseteq Urls
  BY NoLinesIs, TypeIs
<1>3. /\ pc' \in [Procs -> PCs] /\ url' \in [Procs -> Urls]
      /\ ptr' \in [Procs -> Cells \cup {Null}] /\ new' \in [Procs -> Cells \cup {Null}]
      /\ file' \in [Procs -> Titles \cup {Blank}]
      /\ left' \in [Procs -> 0 .. PageMax]
  BY DEF PCs
<1>4. /\ bucket' \in 0 .. HashLen /\ arr' \in Seq(Cells) /\ Len(arr') <= BatchMax
      /\ updates' \in 0 .. UpdateMax /\ restarts' \in 0 .. RestartMax
      /\ phase' \in {"run", "undefined"}
  BY TypeIs
<1>5. TypeOK'
  BY <1>1, <1>2, <1>3, <1>4 DEF TypeOK, CellRecords, PCs
<1>6. Stages'
  BY DEF Stages, Linking, Following, UpdaterOnly, Destroying
<1> QED BY <1>5, <1>6

(* The clock, a stutter, and what leaves everything but the phase alone.   *)
LEMMA ClockTypeInv ==
  ASSUME TypeInv, NewDay \/ Undefined \/ UNCHANGED vars
  PROVE  TypeInv'
<1> USE Constants DEF TypeInv, Stages, Linking, Following, Destroying,
      globals, files, counts, destroy
<1>1. CASE NewDay
  <2>1. date' \in Days
    BY <1>1 DEF NewDay, Days, TypeOK
  <2> QED BY <1>1, <2>1 DEF NewDay, TypeOK
<1>2. CASE Undefined
  BY <1>2 DEF Undefined, TypeOK
<1>3. CASE UNCHANGED vars
  BY <1>3 DEF vars, TypeOK
<1> QED BY <1>1, <1>2, <1>3

LEMMA WakeTypeInv ==
  ASSUME TypeInv, Wake \/ Stamp \/ Check
  PROVE  TypeInv'
<1> USE Constants DEF TypeInv, At, Goto, globals, files, counts, destroy
<1>1. /\ UNCHANGED <<table, heap, date, created, files, url, ptr, new, file, left,
                     destroy, restarts, phase>>
      /\ pc[Updater] \in {"idle", "stamp", "check"}
      /\ \E l \in {"stamp", "check", "open", "destroy"} : pc' = [pc EXCEPT ![Updater] = l]
  BY DEF Wake, Stamp, Check
<1>2. name' \in Titles \cup {Blank}
  BY TypeIs DEF Wake, Stamp, Check
<1>3. updates' \in 0 .. UpdateMax
  BY TypeIs DEF Wake, Stamp, Check
<1>4. pc' \in [Procs -> PCs]
  BY <1>1, TypeIs DEF PCs
<1>5. TypeOK'
  BY <1>1, <1>2, <1>3, <1>4 DEF TypeOK, PCs
<1>6. Stages'
  BY <1>1, TypeIs DEF Stages, Linking, Following, UpdaterOnly, Destroying
<1> QED BY <1>5, <1>6

LEMMA DestroyTypeInv ==
  ASSUME TypeInv, DestroyBucket \/ DestroyReset
  PROVE  TypeInv'
<1> USE Constants DEF TypeInv, At, Goto, globals, files, counts, destroy
<1>1. CASE DestroyReset
  <2>1. /\ table' \in [Buckets -> Cells \cup {Null}] /\ pc' \in [Procs -> PCs]
        /\ bucket' \in 0 .. HashLen /\ UNCHANGED arr
    BY <1>1, TypeIs DEF DestroyReset, NoHeads, PCs
  <2>2. TypeOK'
    BY <1>1, <2>1 DEF DestroyReset, TypeOK, PCs
  <2>3. Stages'
    BY <1>1, TypeIs DEF DestroyReset, Stages, Linking, Following, UpdaterOnly, Destroying
  <2> QED BY <2>2, <2>3
<1>2. CASE DestroyBucket /\ bucket = HashLen
  <2>1. pc' = [pc EXCEPT ![Updater] = "reset"] /\ UNCHANGED <<bucket, ptr, arr, new>>
    BY <1>2 DEF DestroyBucket
  <2>2. TypeOK'
    BY <1>2, <2>1 DEF DestroyBucket, TypeOK
  <2>3. Stages'
    BY <1>2, <2>1, TypeIs DEF DestroyBucket, Stages, Linking, Following, UpdaterOnly, Destroying
  <2> QED BY <2>2, <2>3
<1>3. CASE DestroyBucket /\ bucket # HashLen /\ table[bucket] = Null
  <2>1. bucket' = bucket + 1 /\ UNCHANGED <<pc, ptr, arr, new>>
    BY <1>3 DEF DestroyBucket
  <2>2. bucket' \in 0 .. HashLen
    BY <1>3, <2>1, TypeIs
  <2>3. TypeOK'
    BY <1>3, <2>1, <2>2 DEF DestroyBucket, TypeOK
  <2>4. Stages'
    BY <1>3, <2>1, TypeIs DEF DestroyBucket, Stages, Linking, Following, UpdaterOnly, Destroying
  <2> QED BY <2>3, <2>4
<1>4. CASE DestroyBucket /\ bucket # HashLen /\ table[bucket] # Null
  <2>1. /\ pc' = [pc EXCEPT ![Updater] = "collect"]
        /\ ptr' = [ptr EXCEPT ![Updater] = table[bucket]]
        /\ UNCHANGED <<bucket, arr, new>> /\ pc[Updater] = "destroy"
    BY <1>4 DEF DestroyBucket
  <2>2. bucket \in Buckets /\ bucket < HashLen
    BY <1>4, TypeIs
  <2>3. table[bucket] \in Cells \cup {Null}
    BY <2>2, TypeIs
  <2>4. TypeOK'
    BY <1>4, <2>1, <2>3 DEF DestroyBucket, TypeOK
  <2>5. Stages'
    BY <2>1, <2>2, TypeIs DEF Stages, Linking, Following, UpdaterOnly, Destroying
  <2> QED BY <2>4, <2>5
<1> QED BY <1>1, <1>2, <1>3, <1>4

(* One turn of the loop over a chain.                                      *)
LEMMA CollectTypeInv ==
  ASSUME TypeInv, Collect
  PROVE  TypeInv'
<1> USE Constants DEF TypeInv, At, Goto, globals, files, counts
<1>1. PICK x \in Cells \cup {Null} : x = ptr[Updater]
  BY TypeIs
<1>2. heap' \in [Cells -> CellRecords]
  <2>1. CASE Flush(x)
    <3>1. heap' = [c \in Cells |-> IF c \in Freed
                                     THEN [Free EXCEPT !.st = "freed"] ELSE heap[c]]
      BY <1>1, <2>1 DEF Collect
    <3> QED BY <3>1, FreeIs, TypeIs
  <2>2. CASE ~Flush(x)
    BY <1>1, <2>2, TypeIs DEF Collect
  <2> QED BY <2>1, <2>2
<1>3. CASE x = Null
  <2>1. /\ arr' = <<>> /\ bucket' = bucket + 1 /\ UNCHANGED <<ptr, new>>
        /\ pc' = [pc EXCEPT ![Updater] = "destroy"] /\ pc[Updater] = "collect"
    BY <1>1, <1>3 DEF Collect
  <2>2. /\ bucket' \in 0 .. HashLen /\ arr' \in Seq(Cells) /\ Len(arr') <= BatchMax
        /\ pc' \in [Procs -> PCs]
    BY <2>1, TypeIs DEF Stages, PCs
  <2>3. TypeOK'
    BY <1>2, <2>1, <2>2 DEF Collect, TypeOK, CellRecords, PCs
  <2>4. Stages'
    BY <1>1, <1>3, <2>1, TypeIs DEF Stages, Linking, Following, UpdaterOnly, Destroying
  <2> QED BY <2>3, <2>4
<1>4. CASE x # Null
  <2>1. /\ arr' = Append(IF Flush(x) THEN <<>> ELSE arr, x)
        /\ ptr' = [ptr EXCEPT ![Updater] = heap[x].next]
        /\ UNCHANGED <<pc, bucket, new>> /\ pc[Updater] = "collect"
    BY <1>1, <1>4 DEF Collect
  <2>2. arr' \in Seq(Cells) /\ Len(arr') <= BatchMax
    <3>1. PICK s : s = IF Flush(x) THEN <<>> ELSE arr
      OBVIOUS
    <3>2. s \in Seq(Cells) /\ Len(s) < BatchMax
      <4>1. CASE Flush(x)
        BY <3>1, <4>1
      <4>2. CASE ~Flush(x)
        BY <1>4, <3>1, <4>2, TypeIs, LenProperties DEF Flush
      <4> QED BY <4>1, <4>2
    <3>3. PICK t : t = Append(s, x)
      OBVIOUS
    <3>4. t \in Seq(Cells) /\ Len(t) = Len(s) + 1
      BY <1>4, <3>2, <3>3, AppendProperties
    <3> QED BY <2>1, <3>1, <3>2, <3>3, <3>4, LenProperties
  <2>3. heap[x].next \in Cells \cup {Null}
    BY <1>4, TypeIs DEF CellRecords
  <2>4. ptr' \in [Procs -> Cells \cup {Null}]
    BY <2>1, <2>3, TypeIs
  <2>5. TypeOK'
    BY <1>2, <2>1, <2>2, <2>4 DEF Collect, TypeOK, CellRecords
  <2>6. Stages'
    BY <2>1, TypeIs DEF Stages, Linking, Following, UpdaterOnly, Destroying
  <2> QED BY <2>5, <2>6
<1> QED BY <1>3, <1>4

LEMMA RunBlacklistTypeInv ==
  ASSUME TypeInv, RunBlacklist
  PROVE  TypeInv'
<1> USE Constants DEF TypeInv, RunBlacklist, At, Goto, globals, counts, destroy
<1>1. PICK r : r = [u \in Urls |-> IF u \in Blacklist THEN 0 ELSE saved[name][u]]
  OBVIOUS
<1>2. saved' = [saved EXCEPT ![name] = r]
  BY <1>1
<1>3. saved' \in [Titles -> [Urls -> 0 .. 2]]
  <2>1. CASE name \in Titles
    <3>1. saved[name] \in [Urls -> 0 .. 2]
      BY <2>1, TypeIs
    <3>2. r \in [Urls -> 0 .. 2]
      BY <3>1, <1>1
    <3> QED BY <3>2, <1>2, TypeIs
  <2>2. CASE name \notin Titles
    BY <2>2, <1>2, TypeIs
  <2> QED BY <2>1, <2>2
<1>4. /\ file' \in [Procs -> Titles \cup {Blank}] /\ pc' \in [Procs -> PCs]
  BY TypeIs DEF PCs
<1>5. TypeOK'
  BY <1>3, <1>4 DEF TypeOK, PCs
<1>6. Stages'
  BY TypeIs DEF Stages, Linking, Following, UpdaterOnly, Destroying
<1> QED BY <1>5, <1>6

(* The steps of update_all_news that follow no pointer.                    *)
LEMMA PageTypeInv ==
  ASSUME TypeInv, NEW p \in Procs,
         (p \in Workers /\ Request(p)) \/ Open(p) \/ Match(p) \/ MatchEnds(p)
  PROVE  TypeInv'
<1> USE Constants DEF TypeInv, At, Goto, globals, files, counts, destroy
<1>1. /\ UNCHANGED <<table, heap, name, date, saved, out, lost, ptr, new, bucket, arr,
                     restarts, phase>>
      /\ pc[p] \in {"idle", "open", "match"}
      /\ \E l \in {"open", "match", "head", "close"} : pc' = [pc EXCEPT ![p] = l]
  BY DEF Request, Open, Match, MatchEnds
<1>2. updates' \in 0 .. UpdateMax
  BY TypeIs DEF Request, Open, Match, MatchEnds
<1>3. created' \subseteq Titles /\ file' \in [Procs -> Titles \cup {Blank}]
  <2>1. CASE Open(p)
    BY <2>1, TypeIs DEF Open
  <2>2. CASE ~Open(p)
    BY <2>2, TypeIs DEF Request, Match, MatchEnds
  <2> QED BY <2>1, <2>2
<1>4. url' \in [Procs -> Urls]
  BY TypeIs DEF Request, Open, Match, MatchEnds
<1>5. left' \in [Procs -> 0 .. PageMax]
  <2>1. CASE Match(p)
    <3>1. left[p] \in 0 .. PageMax /\ left[p] > 0
      BY <2>1, TypeIs DEF Match
    <3>2. GoneOn(left[p]) \in 0 .. PageMax
      BY <3>1 DEF GoneOn
    <3>3. left' = [left EXCEPT ![p] = GoneOn(left[p])]
      BY <2>1 DEF Match
    <3> QED BY <3>2, <3>3, TypeIs
  <2>2. CASE ~Match(p)
    BY <2>2, TypeIs DEF Request, Open, MatchEnds
  <2> QED BY <2>1, <2>2
<1>6. pc' \in [Procs -> PCs]
  BY <1>1, TypeIs DEF PCs
<1>7. TypeOK'
  BY <1>1, <1>2, <1>3, <1>4, <1>5, <1>6 DEF TypeOK, PCs
<1>8. Stages'
  BY <1>1, TypeIs DEF Stages, Linking, Following, UpdaterOnly, Destroying
<1> QED BY <1>7, <1>8

(* The steps that follow the chains.                                       *)
LEMMA SearchTypeInv ==
  ASSUME TypeInv, NEW p \in Procs, SearchHead(p) \/ Compare(p) \/ Walk(p)
  PROVE  TypeInv'
<1> USE Constants DEF TypeInv, At, Goto, globals, files, counts, destroy
<1>1. Hash[url[p]] \in Buckets
  BY TypeIs
<1>2. table[Hash[url[p]]] \in Cells \cup {Null}
  BY <1>1, TypeIs
<1>3. ptr[p] # Null => heap[ptr[p]].next \in Cells \cup {Null}
  BY TypeIs DEF CellRecords
<1>4. Deref(p) \in Cells \cup {Null}
  BY <1>2, <1>3 DEF Deref
<1>5. /\ UNCHANGED <<table, heap, globals, files, url, new, file, left, destroy, counts,
                     phase>>
      /\ pc[p] \in {"head", "compare", "walk"}
      /\ \E l \in {"compare", "alloc", "match", "walk", "link"} :
           /\ pc' = [pc EXCEPT ![p] = l]
           /\ l \in {"compare", "alloc", "match"} <=> pc[p] \in {"head", "compare"}
      /\ \E x \in Cells \cup {Null} :
           /\ ptr' = [ptr EXCEPT ![p] = x]
           /\ pc'[p] \in {"alloc", "match"} => x = Null
  <2>1. CASE SearchHead(p)
    BY <2>1, <1>2, TypeIs DEF SearchHead
  <2>2. CASE Compare(p) /\ (ptr[p] = Null \/ Found(p))
    BY <2>2, TypeIs DEF Compare
  <2>3. CASE Compare(p) /\ ptr[p] # Null /\ ~Found(p)
    BY <2>3, <1>3, TypeIs DEF Compare
  <2>4. CASE Walk(p) /\ Deref(p) = Null
    BY <2>4, TypeIs DEF Walk
  <2>5. CASE Walk(p) /\ Deref(p) # Null
    BY <2>5, <1>4, TypeIs DEF Walk
  <2> QED BY <2>1, <2>2, <2>3, <2>4, <2>5
<1>6. pc' \in [Procs -> PCs] /\ ptr' \in [Procs -> Cells \cup {Null}]
  BY <1>5, TypeIs DEF PCs
<1>7. TypeOK'
  BY <1>5, <1>6 DEF TypeOK, PCs
<1>8. Stages'
  BY <1>5, TypeIs DEF Stages, Linking, Following, UpdaterOnly, Destroying
<1> QED BY <1>7, <1>8

LEMMA AllocTypeInv ==
  ASSUME TypeInv, NEW p \in Procs, Alloc(p)
  PROVE  TypeInv'
<1> USE Constants DEF TypeInv, At, Goto, globals, files, counts, destroy
<1>1. PICK c \in Cells :
        /\ heap' = [heap EXCEPT ![c] = [st |-> "live", url |-> url[p], next |-> Null]]
        /\ new' = [new EXCEPT ![p] = c]
  BY DEF Alloc
<1>2. [st |-> "live", url |-> url[p], next |-> Null] \in CellRecords
  BY TypeIs DEF CellRecords
<1>3. /\ heap' \in [Cells -> CellRecords]
      /\ new' \in [Procs -> Cells \cup {Null}] /\ pc' \in [Procs -> PCs]
  BY <1>1, <1>2, TypeIs DEF Alloc, PCs
<1>4. TypeOK'
  BY <1>3 DEF Alloc, TypeOK, CellRecords, PCs
<1>5. Stages'
  BY <1>1, TypeIs DEF Alloc, Stages, Linking, Following, UpdaterOnly, Destroying
<1> QED BY <1>4, <1>5

LEMMA PushLastIs ==
  ASSUME TypeInv, NEW p \in Procs, Link(p)
  PROVE  \/ /\ ptr[p] = Null
            /\ table' = [table EXCEPT ![Hash[url[p]]] = new[p]] /\ UNCHANGED heap
         \/ /\ ptr[p] \in Cells /\ Live(ptr[p]) /\ UNCHANGED table
            /\ heap' \in [Cells -> CellRecords]
            /\ heap' = [heap EXCEPT ![ptr[p]] =
                          [heap[ptr[p]] EXCEPT !.next = new[p]]]
<1> USE DEF TypeInv
<1>1. CASE ptr[p] = Null
  BY <1>1 DEF Link, PushLast
<1>2. CASE ptr[p] # Null
  <2>1. ptr[p] \in Cells /\ Live(ptr[p])
    BY <1>2, TypeIs DEF Link
  <2>2. [heap[ptr[p]] EXCEPT !.next = new[p]] \in CellRecords
    <3>1. PICK r \in CellRecords, n \in Cells \cup {Null} : r = heap[ptr[p]] /\ n = new[p]
      BY <2>1, TypeIs
    <3>2. [r EXCEPT !.next = n] \in CellRecords
      BY DEF CellRecords
    <3> QED BY <3>1, <3>2
  <2>3. /\ heap' = [heap EXCEPT ![ptr[p]] = [heap[ptr[p]] EXCEPT !.next = new[p]]]
        /\ UNCHANGED table
    BY <1>2 DEF Link, PushLast
  <2> QED BY <2>1, <2>2, <2>3, TypeIs
<1> QED BY <1>1, <1>2

LEMMA LinkKeeps ==
  ASSUME TypeInv, NEW p \in Procs, Link(p)
  PROVE  \A c \in Cells : heap'[c].st = heap[c].st /\ heap'[c].url = heap[c].url
<1> SUFFICES ASSUME NEW c \in Cells
             PROVE  heap'[c].st = heap[c].st /\ heap'[c].url = heap[c].url
  OBVIOUS
<1> USE DEF TypeInv
<1>1. PICK h \in CellRecords : h = heap[c]
  BY TypeIs
<1>2. [h EXCEPT !.next = new[p]].st = h.st /\ [h EXCEPT !.next = new[p]].url = h.url
  BY DEF CellRecords
<1>3. CASE c = ptr[p] /\ heap' # heap
  BY <1>1, <1>2, <1>3, PushLastIs, TypeIs
<1>4. CASE c # ptr[p] \/ heap' = heap
  BY <1>4, PushLastIs, TypeIs
<1> QED BY <1>3, <1>4

LEMMA LinkTypeInv ==
  ASSUME TypeInv, NEW p \in Procs, Link(p)
  PROVE  TypeInv'
<1> USE Constants DEF TypeInv, At, Goto, globals, files, counts, destroy
<1>1. Hash[url[p]] \in Buckets /\ new[p] \in Cells \cup {Null}
  BY TypeIs
<1>2. table' \in [Buckets -> Cells \cup {Null}] /\ heap' \in [Cells -> CellRecords]
  BY <1>1, PushLastIs, TypeIs
<1>3. /\ ptr' = [ptr EXCEPT ![p] = Null] /\ new' = [new EXCEPT ![p] = Null]
      /\ pc' = [pc EXCEPT ![p] = "write"] /\ pc[p] = "link"
      /\ UNCHANGED <<globals, files, url, file, left, destroy, counts, phase>>
  BY DEF Link
<1>4. /\ ptr' \in [Procs -> Cells \cup {Null}] /\ new' \in [Procs -> Cells \cup {Null}]
      /\ pc' \in [Procs -> PCs]
  BY <1>3, TypeIs DEF PCs
<1>5. TypeOK'
  BY <1>2, <1>3, <1>4 DEF TypeOK, CellRecords, PCs
<1>6. Stages'
  BY <1>3, TypeIs DEF Stages, Linking, Following, UpdaterOnly, Destroying
<1> QED BY <1>5, <1>6

(* The steps that write.  Each leaves what it stands for in Put.           *)
Put(p, l) ==
  /\ pc[p] \in {"write", "close"}
  /\ l \in {"match", "idle", "blacklist"} /\ (l = "blacklist" => p = Updater)
  /\ pc' = [pc EXCEPT ![p] = l]
  /\ UNCHANGED <<table, heap, globals, ptr, new, left, destroy, counts, phase>>

LEMMA PutTypeInv ==
  ASSUME TypeInv, NEW p \in Procs, NEW l, Put(p, l),
         saved' \in [Titles -> [Urls -> 0 .. 2]], lost' \subseteq Urls,
         out' \in [Procs -> [Urls -> 0 .. 2]],
         file' \in [Procs -> Titles \cup {Blank}], url' \in [Procs -> Urls]
  PROVE  TypeInv'
<1> USE Constants DEF TypeInv, Put, globals, counts, destroy
<1>1. pc' \in [Procs -> PCs]
  BY TypeIs DEF PCs
<1>2. TypeOK'
  BY <1>1 DEF TypeOK, PCs
<1>3. Stages'
  BY TypeIs DEF Stages, Linking, Following, UpdaterOnly, Destroying
<1> QED BY <1>2, <1>3

LEMMA LinesIs ==
  ASSUME TypeInv, NEW p \in Procs, NEW lines,
         lines = [out[p] EXCEPT ![url[p]] = IF @ = 2 THEN 2 ELSE @ + 1]
  PROVE  /\ lines \in [Urls -> 0 .. 2] /\ lines[url[p]] > 0
         /\ \A u \in Urls : out[p][u] > 0 => lines[u] > 0
<1>1. out[p] \in [Urls -> 0 .. 2] /\ url[p] \in Urls
  BY TypeIs DEF TypeInv
<1>2. PICK n \in 1 .. 2 : n = IF out[p][url[p]] = 2 THEN 2 ELSE out[p][url[p]] + 1
  BY <1>1
<1>3. lines = [out[p] EXCEPT ![url[p]] = n]
  BY <1>2
<1> QED BY <1>1, <1>3

LEMMA WriteTypeInv ==
  ASSUME TypeInv, NEW p \in Procs, Write(p)
  PROVE  TypeInv'
<1> USE DEF TypeInv
<1>1. PICK lines : lines = [out[p] EXCEPT ![url[p]] = IF @ = 2 THEN 2 ELSE @ + 1]
  OBVIOUS
<1>2. \/ out' = [out EXCEPT ![p] = lines] /\ UNCHANGED <<saved, lost>>
      \/ out' = [out EXCEPT ![p] = NoLines] /\ Output(p, lines)
  BY <1>1 DEF Write
<1>3. lines \in [Urls -> 0 .. 2]
  BY <1>1, LinesIs
<1>4. saved' \in [Titles -> [Urls -> 0 .. 2]] /\ lost' \subseteq Urls
  BY <1>2, <1>3, OutputIs, TypeIs
<1>5. out' \in [Procs -> [Urls -> 0 .. 2]]
  BY <1>2, <1>3, NoLinesIs, TypeIs
<1>6. Put(p, "match") /\ UNCHANGED <<url, file>>
  BY DEF Write, Put, At, Goto
<1> QED BY <1>4, <1>5, <1>6, PutTypeInv, TypeIs

LEMMA CloseTypeInv ==
  ASSUME TypeInv, NEW p \in Procs, CloseFile(p)
  PROVE  TypeInv'
<1> USE DEF TypeInv
<1>1. out[p] \in [Urls -> 0 .. 2]
  BY TypeIs
<1>2. saved' \in [Titles -> [Urls -> 0 .. 2]] /\ lost' \subseteq Urls
  <2>1. PICK lines \in [Urls -> 0 .. 2] : lines = out[p]
    BY <1>1
  <2>2. Output(p, lines)
    BY <2>1 DEF CloseFile
  <2> QED BY <2>2, OutputIs
<1>3. /\ out' \in [Procs -> [Urls -> 0 .. 2]]
      /\ file' \in [Procs -> Titles \cup {Blank}] /\ url' \in [Procs -> Urls]
  BY NoLinesIs, TypeIs, Constants DEF CloseFile
<1>4. Put(p, IF p = Updater THEN "blacklist" ELSE "idle")
  BY DEF CloseFile, Put, At, Goto
<1> QED BY <1>2, <1>3, <1>4, PutTypeInv

(* What a thread that SIGPIPE ends has printed and not flushed is lost.    *)
LEMMA SigPipeIs ==
  ASSUME TypeInv, NEW w \in Workers, SendSigPipe(w)
  PROVE  /\ saved' \in [Titles -> [Urls -> 0 .. 2]]
         /\ lost' \subseteq Urls /\ lost \subseteq lost'
         /\ \A f \in Titles, u \in Urls : saved[f][u] > 0 => saved'[f][u] > 0
         /\ \A u \in Urls : out[w][u] > 0 =>
              u \in lost' \/ \E f \in Titles : saved'[f][u] > 0
<1> USE Constants DEF TypeInv
<1> DEFINE Lines(stay) == [u \in Urls |-> IF u \in stay THEN 0 ELSE out[w][u]]
<1>0. PICK stay \in SUBSET Urls :
        /\ stay = {u \in stay : out[w][u] > 0}
        /\ saved' = IF file[w] = Blank THEN saved
                    ELSE [saved EXCEPT ![file[w]] =
                            [u \in Urls |-> Written(@[u], Lines(stay)[u])]]
        /\ lost' = lost \cup {u \in stay : out[w][u] > 0}
                        \cup {u \in Urls : file[w] = Blank /\ Lines(stay)[u] > 0}
  BY Zenon DEF SendSigPipe
<1>1. PICK lines :
        /\ lines = [u \in Urls |-> IF u \in stay THEN 0 ELSE out[w][u]]
        /\ stay = {u \in stay : out[w][u] > 0}
        /\ saved' = IF file[w] = Blank THEN saved
                    ELSE [saved EXCEPT ![file[w]] =
                            [u \in Urls |-> Written(@[u], lines[u])]]
        /\ lost' = lost \cup {u \in stay : out[w][u] > 0}
                        \cup {u \in Urls : file[w] = Blank /\ lines[u] > 0}
  BY <1>0, Zenon
<1>2. out[w] \in [Urls -> 0 .. 2]
  BY TypeIs
<1>3. lines \in [Urls -> 0 .. 2]
  BY <1>1, <1>2
<1>4. lost' \subseteq Urls /\ lost \subseteq lost' /\ stay \subseteq lost'
  BY <1>1, TypeIs
<1>5. \A u \in Urls : out[w][u] > 0 => u \in stay \/ lines[u] > 0
  BY <1>1
<1>6. CASE file[w] = Blank
  BY <1>1, <1>4, <1>5, <1>6, TypeIs
<1>7. CASE file[w] # Blank
  <2>1. PICK f \in Titles : f = file[w]
    BY <1>7, TypeIs
  <2>0. PICK r, s : s = saved' /\ r = [u \in Urls |-> Written(saved[f][u], lines[u])]
    OBVIOUS
  <2>2. s = [saved EXCEPT ![f] = r]
    BY <1>1, <1>7, <2>0, <2>1
  <2>3. /\ s \in [Titles -> [Urls -> 0 .. 2]]
        /\ \A u \in Urls : s[f][u] = Written(saved[f][u], lines[u])
        /\ \A g \in Titles \ {f} : s[g] = saved[g]
    BY <1>3, <2>0, <2>2, SavedWith
  <2>4. \A u \in Urls : saved[f][u] \in 0 .. 2 /\ lines[u] \in 0 .. 2
    BY <1>3, TypeIs
  <2>5. \A u \in Urls : s[f][u] > 0 <=> saved[f][u] > 0 \/ lines[u] > 0
    <3> SUFFICES ASSUME NEW u \in Urls
                 PROVE  s[f][u] > 0 <=> saved[f][u] > 0 \/ lines[u] > 0
      OBVIOUS
    <3>1. s[f][u] = Written(saved[f][u], lines[u])
      BY <2>3
    <3> QED BY <2>4, <3>1, WrittenIs
  <2> QED BY <1>4, <1>5, <2>0, <2>3, <2>5
<1> QED BY <1>6, <1>7

LEMMA SigPipeTypeInv ==
  ASSUME TypeInv, NEW w \in Workers, SendSigPipe(w)
  PROVE  TypeInv'
<1>1. /\ out' \in [Procs -> [Urls -> 0 .. 2]]
      /\ file' \in [Procs -> Titles \cup {Blank}] /\ url' \in [Procs -> Urls]
  BY NoLinesIs, TypeIs, Constants DEF SendSigPipe, TypeInv
<1>2. Put(w, "idle") /\ w \in Procs
  BY Constants DEF SendSigPipe, Put, At, Goto
<1> QED BY <1>1, <1>2, SigPipeIs, PutTypeInv

LEMMA StepTypeInv == TypeInv /\ [Next]_vars => TypeInv'
<1> SUFFICES ASSUME TypeInv, [Next]_vars PROVE TypeInv'
  OBVIOUS
<1>1. CASE NewDay \/ UNCHANGED vars
  BY <1>1, ClockTypeInv
<1>2. CASE Restart
  BY <1>2, RestartTypeInv
<1>3. CASE Wake \/ Stamp \/ Check
  BY <1>3, WakeTypeInv
<1>4. CASE DestroyBucket \/ DestroyReset
  BY <1>4, DestroyTypeInv
<1>5. CASE Collect
  BY <1>5, CollectTypeInv
<1>6. CASE RunBlacklist
  BY <1>6, RunBlacklistTypeInv
<1>7. ASSUME NEW w \in Workers, Request(w) \/ SendSigPipe(w) PROVE TypeInv'
  BY <1>7, PageTypeInv, SigPipeTypeInv, Constants
<1>8. ASSUME NEW p \in Procs, UpdateStep(p) PROVE TypeInv'
  <2>1. CASE Open(p) \/ Match(p) \/ MatchEnds(p)
    BY <2>1, PageTypeInv
  <2>2. CASE OpenBlank(p) \/ FreedUsed(p)
    BY <2>2, ClockTypeInv DEF OpenBlank, FreedUsed
  <2>3. CASE SearchHead(p) \/ Compare(p) \/ Walk(p)
    BY <2>3, SearchTypeInv
  <2>4. CASE Alloc(p) \/ Link(p)
    BY <2>4, AllocTypeInv, LinkTypeInv
  <2>5. CASE Write(p) \/ CloseFile(p)
    BY <2>5, WriteTypeInv, CloseTypeInv
  <2> QED BY <1>8, <2>1, <2>2, <2>3, <2>4, <2>5 DEF UpdateStep
<1> QED BY <1>1, <1>2, <1>3, <1>4, <1>5, <1>6, <1>7, <1>8 DEF Next, UpdaterStep

(* Every variable keeps its type, whatever the threads interleave.         *)
THEOREM TypeCorrect == Spec => []TypeOK
<1>1. Init => TypeInv
  BY InitTypeInv
<1>2. TypeInv /\ [Next]_vars => TypeInv'
  BY StepTypeInv
<1>3. TypeInv => TypeOK
  BY DEF TypeInv
<1> QED BY <1>1, <1>2, <1>3, PTL DEF Spec

-----------------------------------------------------------------------------
(* The chains.                                                             *)
Known(c)  == heap[c].st # "unused"
Hashed(c) == Hash[heap[c].url]

(* What hangs in a chain is live and belongs there, and hangs once.        *)
Links ==
  \A c, d \in Cells : heap[c].next = d => Live(c) /\ Live(d) /\ Hashed(d) = Hashed(c)
Single ==
  \A c, d \in Cells : heap[c].next # Null /\ heap[c].next = heap[d].next => c = d

(* Heads of the buckets that destroy_hash_table has passed may be freed.   *)
Passed(b) == b < bucket \/ (b = bucket /\ pc[Updater] = "collect")
Heads ==
  \A b \in Buckets, h \in Cells : table[b] = h =>
    /\ Known(h) /\ (~Passed(b) => Live(h))
    /\ Live(h) => Hashed(h) = b /\ \A c \in Cells : heap[c].next # h

(* A cell that is not linked yet is seen by its thread only.               *)
Unseen(c) ==
  /\ c \notin Collected
  /\ \A b \in Buckets : table[b] # c
  /\ \A d \in Cells : heap[d].next # c
  /\ \A q \in Procs : ptr[q] # c
News ==
  \A p \in Procs, n \in Cells : new[p] = n =>
    /\ Live(n) /\ heap[n].url = url[p] /\ heap[n].next = Null
    /\ Unseen(n)
    /\ \A q \in Procs : new[q] = n => q = p

(* A place in a chain may be stale, but it is one of the thread's bucket.  *)
Cursors ==
  \A p \in Procs, c \in Cells : ptr[p] = c =>
    Known(c) /\ (Following(p) /\ Live(c) => Hashed(c) = Hash[url[p]])

(* Nothing that destroy_hash_table will keep leads to what it will free,   *)
(* nor to the cell it has come to.                                         *)
Sweep ==
  pc[Updater] = "collect" =>
    /\ \A c \in Cells : c \in Collected \/ c = ptr[Updater] =>
         Live(c) /\ Hashed(c) = bucket
    /\ ptr[Updater] \notin Collected
    /\ \A c, d \in Cells : Live(c) /\ c \notin Collected /\ heap[c].next = d =>
         d \notin Collected /\ d # ptr[Updater]

(* The cells of a chain stand in an order, so that it ends.                *)
Ranked ==
  \E r \in [Cells -> Nat] :
    \A c \in Cells : heap[c].next # Null => r[heap[c].next] > r[c]

LinkInv == Links /\ Single /\ Heads /\ News /\ Cursors /\ Sweep /\ Ranked

LEMMA CellIs ==
  ASSUME TypeInv, NEW c \in Cells
  PROVE  /\ heap[c].next \in Cells \cup {Null} /\ heap[c].url \in Urls
         /\ Hashed(c) \in Buckets
         /\ heap[c].st \in {"unused", "live", "freed"}
         /\ Live(c) => Known(c)
<1>1. heap[c] \in CellRecords
  BY TypeIs DEF TypeInv
<1>2. heap[c].next \in Cells \cup {Null} /\ heap[c].url \in Urls
      /\ heap[c].st \in {"unused", "live", "freed"}
  BY <1>1 DEF CellRecords
<1> QED BY <1>2, Constants DEF Hashed, Live, Known

LEMMA CollectedIs == TypeInv => Collected \subseteq Cells
BY TypeIs, ElementOfSeq, LenProperties DEF TypeInv, Collected

LEMMA InitLinkInv == Init => LinkInv
<1> SUFFICES ASSUME Init PROVE LinkInv
  OBVIOUS
<1>1. \A c \in Cells : heap[c].next = Null /\ ~Live(c)
  BY FreeIs DEF Init, Live
<1>2. /\ \A b \in Buckets : table[b] = Null
      /\ \A p \in Procs : new[p] = Null /\ ptr[p] = Null
      /\ pc[Updater] # "collect"
  BY Constants DEF Init
<1>3. Ranked
  <2>1. PICK r : r = [c \in Cells |-> 0]
    OBVIOUS
  <2> QED BY <1>1, <2>1 DEF Ranked
<1> QED BY <1>1, <1>2, <1>3, Constants DEF LinkInv, Links, Single, Heads, News, Cursors, Sweep

(* A start of the process.                                                 *)
LEMMA RestartLinkInv ==
  ASSUME Restart
  PROVE  LinkInv'
<1>1. \A c \in Cells : heap'[c].next = Null
  BY FreeIs DEF Restart
<1>2. /\ \A b \in Buckets : table'[b] = Null
      /\ \A p \in Procs : new'[p] = Null /\ ptr'[p] = Null
      /\ pc'[Updater] # "collect"
  BY Constants DEF Restart
<1>3. Ranked'
  <2>1. PICK r : r = [c \in Cells |-> 0]
    OBVIOUS
  <2> QED BY <1>1, <2>1 DEF Ranked
<1> QED BY <1>1, <1>2, <1>3, Constants DEF LinkInv, Links, Single, Heads, News, Cursors, Sweep

(* Steps that move one thread and change no chain: the place it comes to   *)
(* is the head of its bucket, or follows a live cell of it.                *)
Reaches(p, c) ==
  \/ c = table[Hash[url[p]]]
  \/ \E d \in Cells : Live(d) /\ Hashed(d) = Hash[url[p]] /\ heap[d].next = c

Moves(p) ==
  /\ UNCHANGED <<table, heap, new, bucket, arr>>
  /\ \A q \in Procs : q # p => ptr'[q] = ptr[q] /\ url'[q] = url[q] /\ pc'[q] = pc[q]
  /\ pc[p] # "collect" /\ pc'[p] # "collect"
  /\ new[p] # Null => url'[p] = url[p]
  /\ ptr'[p] # Null => /\ url'[p] = url[p]
                       /\ (ptr'[p] = ptr[p] /\ Following(p)) \/ Reaches(p, ptr'[p])

LEMMA ReachesIs ==
  ASSUME TypeInv, LinkInv, NEW p \in Procs, NEW c \in Cells, Reaches(p, c)
  PROVE  /\ Known(c) /\ (Live(c) => Hashed(c) = Hash[url[p]])
         /\ \A q \in Procs : new[q] # c
<1> USE Constants DEF LinkInv
<1>1. Hash[url[p]] \in Buckets
  BY TypeIs DEF TypeInv
<1>2. CASE c = table[Hash[url[p]]]
  BY <1>1, <1>2 DEF Heads, News, Unseen
<1>3. CASE \E d \in Cells : Live(d) /\ Hashed(d) = Hash[url[p]] /\ heap[d].next = c
  BY <1>3, CellIs DEF Links, News, Unseen
<1> QED BY <1>2, <1>3 DEF Reaches

LEMMA MovesLinkInv ==
  ASSUME TypeInv, TypeInv', LinkInv, NEW p \in Procs, Moves(p)
  PROVE  LinkInv'
<1> USE DEF LinkInv
<1>1. /\ \A c : Live(c)' = Live(c) /\ Known(c)' = Known(c) /\ Hashed(c)' = Hashed(c)
      /\ Collected' = Collected
      /\ UNCHANGED <<table, heap, new, bucket>>
  BY DEF Moves, Live, Known, Hashed, Collected
<1>2. ASSUME NEW q \in Procs, NEW c \in Cells, ptr'[q] = c
      PROVE  /\ Known(c) /\ (Following(q)' /\ Live(c) => Hashed(c) = Hash[url'[q]])
             /\ \A s \in Procs : new[s] # c
  <2>1. ptr'[q] # Null
    BY <1>2, Constants
  <2>2. CASE q # p \/ (ptr'[p] = ptr[p] /\ Following(p))
    <3>1. ptr[q] = c /\ url'[q] = url[q] /\ (Following(q)' => Following(q))
      BY <1>2, <2>1, <2>2 DEF Moves, Following
    <3> QED BY <3>1, Constants DEF Cursors, News, Unseen
  <2>3. CASE q = p /\ Reaches(p, c)
    BY <1>2, <2>1, <2>3, ReachesIs DEF Moves
  <2> QED BY <1>2, <2>1, <2>2, <2>3 DEF Moves
<1>3. Links' /\ Single' /\ Ranked'
  BY <1>1 DEF Links, Single, Ranked
<1>4. pc'[Updater] = "collect" <=> pc[Updater] = "collect"
  BY Constants DEF Moves
<1>5. Heads'
  BY <1>1, <1>4 DEF Heads, Passed
<1>6. News'
  <2> SUFFICES ASSUME NEW q \in Procs, NEW n \in Cells, new[q] = n
               PROVE  url'[q] = url[q] /\ Unseen(n)'
    BY <1>1 DEF News
  <2>1. url'[q] = url[q]
    BY Constants DEF Moves
  <2>2. \A s \in Procs : ptr'[s] # n
    BY <1>2
  <2> QED BY <1>1, <2>1, <2>2 DEF News, Unseen
<1>7. Cursors'
  BY <1>1, <1>2 DEF Cursors
<1>8. Sweep'
  <2>1. pc[Updater] = "collect" => ptr'[Updater] = ptr[Updater]
    BY Constants DEF Moves
  <2> QED BY <1>1, <1>4, <2>1 DEF Sweep
<1> QED BY <1>3, <1>5, <1>6, <1>7, <1>8

(* These steps are such moves.                                             *)
LEMMA WakeMoves ==
  ASSUME TypeInv, Wake \/ Stamp \/ Check \/ RunBlacklist
  PROVE  Moves(Updater)
<1>1. /\ UNCHANGED <<table, heap, new, bucket, arr, ptr, url>>
      /\ pc[Updater] \in {"idle", "stamp", "check", "blacklist"}
      /\ \E l \in {"stamp", "check", "open", "destroy", "idle"} :
           pc' = [pc EXCEPT ![Updater] = l]
  BY DEF Wake, Stamp, Check, RunBlacklist, At, Goto, globals, files, counts, destroy
<1>2. ptr[Updater] = Null
  BY <1>1, Constants DEF TypeInv, Stages, Following
<1> QED BY <1>1, <1>2, TypeIs, Constants DEF Moves, TypeInv

LEMMA PageMoves ==
  ASSUME TypeInv, NEW p \in Procs,
         \/ p \in Workers /\ (Request(p) \/ SendSigPipe(p))
         \/ Open(p) \/ Match(p) \/ MatchEnds(p) \/ Write(p) \/ CloseFile(p)
  PROVE  Moves(p)
<1>1. /\ UNCHANGED <<table, heap, new, bucket, arr, ptr>>
      /\ pc[p] \in {"idle", "open", "match", "write", "close"}
      /\ \E l \in {"open", "match", "head", "close", "idle", "blacklist"} :
           pc' = [pc EXCEPT ![p] = l]
      /\ \A q \in Procs : q # p => url'[q] = url[q]
  BY TypeIs DEF TypeInv, Request, SendSigPipe, Open, Match, MatchEnds, Write, CloseFile, At, Goto,
         globals, files, counts, destroy
<1>2. ptr[p] = Null /\ new[p] = Null
  BY <1>1, Constants DEF TypeInv, Stages, Following, Linking
<1> QED BY <1>1, <1>2, TypeIs, Constants DEF Moves, TypeInv

LEMMA SearchMoves ==
  ASSUME TypeInv, NEW p \in Procs, SearchHead(p) \/ Compare(p) \/ Walk(p),
         LinkInv
  PROVE  Moves(p)
<1> USE DEF At, Goto, globals, files, counts, destroy
<1>1. Hash[url[p]] \in Buckets
  BY TypeIs, Constants DEF TypeInv
<1>2. UNCHANGED <<table, heap, new, url, bucket, arr>>
  BY DEF SearchHead, Compare, Walk
<1>3. \A c \in Cells : Live(c) /\ ptr[p] = c /\ Following(p) => Reaches(p, heap[c].next)
  BY Constants DEF LinkInv, Cursors, Reaches
<1>4. ptr[p] \in Cells \cup {Null} /\ ptr \in [Procs -> Cells \cup {Null}]
      /\ pc \in [Procs -> PCs]
  BY TypeIs DEF TypeInv
<1>5. CASE SearchHead(p)
  BY <1>2, <1>4, <1>5 DEF SearchHead, Moves, Reaches
<1>6. CASE Compare(p) /\ (ptr[p] = Null \/ Found(p))
  BY <1>2, <1>4, <1>6 DEF Compare, Moves
<1>7. CASE Compare(p) /\ ptr[p] # Null /\ ~Found(p)
  <2>1. ptr' = [ptr EXCEPT ![p] = heap[ptr[p]].next] /\ UNCHANGED pc /\ pc[p] = "compare"
        /\ Live(ptr[p])
    BY <1>7 DEF Compare
  <2>2. Reaches(p, ptr'[p])
    BY <1>3, <1>4, <1>7, <2>1 DEF Following
  <2> QED BY <1>2, <1>4, <2>1, <2>2 DEF Moves
<1>8. CASE Walk(p) /\ Deref(p) = Null
  BY <1>2, <1>4, <1>8 DEF Walk, Moves, Following
<1>9. CASE Walk(p) /\ Deref(p) # Null
  <2>1. ptr' = [ptr EXCEPT ![p] = Deref(p)] /\ UNCHANGED pc /\ pc[p] = "walk"
        /\ (ptr[p] # Null => Live(ptr[p]))
    BY <1>9 DEF Walk
  <2>2. Reaches(p, ptr'[p])
    <3>1. CASE ptr[p] = Null
      BY <1>4, <2>1, <3>1 DEF Reaches, Deref
    <3>2. CASE ptr[p] # Null
      BY <1>3, <1>4, <2>1, <3>2 DEF Following, Deref
    <3> QED BY <3>1, <3>2
  <2> QED BY <1>2, <1>4, <2>1, <2>2 DEF Moves
<1> QED BY <1>5, <1>6, <1>7, <1>8, <1>9

(* destroy_hash_table comes to a bucket, or to its end.                    *)
LEMMA DestroyLinkInv ==
  ASSUME TypeInv, TypeInv', LinkInv, DestroyBucket
  PROVE  LinkInv'
<1> USE Constants DEF At, Goto, LinkInv, TypeInv
<1>1. /\ UNCHANGED <<table, heap, new, url, arr>> /\ pc[Updater] = "destroy"
      /\ \A q \in Procs : q # Updater => ptr'[q] = ptr[q] /\ pc'[q] = pc[q]
  BY TypeIs DEF DestroyBucket, globals, files, counts
<1>2. /\ \A c : Live(c)' = Live(c) /\ Known(c)' = Known(c) /\ Hashed(c)' = Hashed(c)
      /\ Collected' = Collected /\ Collected = {}
  BY <1>1 DEF Live, Known, Hashed, Collected, Stages
<1>3. ptr[Updater] = Null
  BY <1>1 DEF Stages, Following
<1>4. Links' /\ Single' /\ Ranked'
  BY <1>1, <1>2 DEF Links, Single, Ranked
<1>5. new[Updater] = Null /\ new'[Updater] = Null
  BY <1>1 DEF Stages, Linking
<1>6. CASE bucket = HashLen \/ table[bucket] = Null
  <2>1. /\ ptr' = ptr /\ pc'[Updater] # "collect"
        /\ (bucket' = bucket \/ (bucket' = bucket + 1 /\ table[bucket] = Null))
    BY <1>1, <1>6, TypeIs DEF DestroyBucket
  <2>2. \A q \in Procs : ptr[q] # Null => (Following(q)' => Following(q))
    BY <1>1, <1>3 DEF Following
  <2>3. Heads'
    <3> SUFFICES ASSUME NEW b \in Buckets, NEW h \in Cells, table[b] = h, ~Passed(b)'
                 PROVE  Live(h)
      BY <1>1, <1>2 DEF Heads
    <3>1. ~(b < bucket')
      BY DEF Passed
    <3>2. ~Passed(b)
      BY <1>1, <2>1, <3>1, TypeIs DEF Passed
    <3> QED BY <3>2 DEF Heads
  <2>4. News' /\ Cursors' /\ Sweep'
    BY <1>1, <1>2, <2>1, <2>2 DEF News, Unseen, Cursors, Sweep
  <2> QED BY <1>4, <2>3, <2>4
<1>7. CASE bucket # HashLen /\ table[bucket] # Null
  <2>1. /\ ptr' = [ptr EXCEPT ![Updater] = table[bucket]]
        /\ pc' = [pc EXCEPT ![Updater] = "collect"] /\ bucket' = bucket
    BY <1>7 DEF DestroyBucket
  <2>2. bucket \in Buckets /\ ~Passed(bucket)
    BY <1>1, <1>7, TypeIs DEF Passed
  <2>3. PICK x \in Cells : x = table[bucket]
    BY <1>7, <2>2, TypeIs
  <2>4. /\ Known(x) /\ Live(x) /\ Hashed(x) = bucket
        /\ \A c \in Cells : heap[c].next # x
    BY <2>2, <2>3 DEF Heads
  <2>5. ptr'[Updater] = x /\ pc'[Updater] = "collect"
    BY <2>1, <2>3, TypeIs
  <2>6. Heads'
    BY <1>1, <1>2, <2>1, <2>5 DEF Heads, Passed
  <2>7. News'
    <3>1. \A q \in Procs : new[q] # x
      BY <2>2, <2>3 DEF News, Unseen
    <3> QED BY <1>1, <1>2, <2>5, <3>1 DEF News, Unseen
  <2>8. Cursors'
    BY <1>1, <1>2, <2>4, <2>5 DEF Cursors, Following
  <2>9. Sweep'
    BY <1>1, <1>2, <2>1, <2>4, <2>5 DEF Sweep
  <2> QED BY <1>4, <2>6, <2>7, <2>8, <2>9
<1> QED BY <1>6, <1>7

(* The cells that are freed hung in nothing that stays.                    *)
LEMMA FlushLinkInv ==
  ASSUME TypeInv, TypeInv', LinkInv, Collect, Flush(ptr[Updater])
  PROVE  /\ \A c \in Cells : c \in Collected =>
              ~Live(c)' /\ Known(c)' /\ heap'[c].next = Null
         /\ \A c \in Cells : c \notin Collected => heap'[c] = heap[c]
BY FreeIs DEF Collect, Freed, Live, Known

LEMMA CollectLinkInv ==
  ASSUME TypeInv, TypeInv', LinkInv, Collect
  PROVE  LinkInv'
<1> USE Constants DEF At, LinkInv
<1>1. PICK x \in Cells \cup {Null} : x = ptr[Updater]
  BY TypeIs DEF TypeInv
<1>2. PICK gone : gone = IF Flush(x) THEN Collected ELSE {}
  OBVIOUS
<1>3. /\ \A c \in Cells : c \in gone => ~Live(c)' /\ Known(c)' /\ heap'[c].next = Null
      /\ \A c \in Cells : c \notin gone => heap'[c] = heap[c]
      /\ gone \subseteq Collected
  <2>1. CASE Flush(x)
    BY <1>1, <1>2, <2>1, FlushLinkInv
  <2>2. CASE ~Flush(x)
    BY <1>1, <1>2, <2>2 DEF Collect
  <2> QED BY <2>1, <2>2
<1>4. /\ UNCHANGED <<table, new, url>> /\ pc[Updater] = "collect"
      /\ \A q \in Procs : q # Updater => ptr'[q] = ptr[q] /\ pc'[q] = pc[q]
  BY TypeIs DEF Collect, TypeInv, Goto, globals, files, counts
<1>5. \A c \in Cells : c \notin gone =>
        Live(c)' = Live(c) /\ Known(c)' = Known(c) /\ Hashed(c)' = Hashed(c)
  BY <1>3 DEF Live, Known, Hashed
<1>6. /\ \A c \in Cells : c \in Collected \/ c = x => Live(c) /\ Hashed(c) = bucket
      /\ x \notin Collected
      /\ \A c, d \in Cells : Live(c) /\ c \notin Collected /\ heap[c].next = d =>
           d \notin Collected /\ d # x
  BY <1>1, <1>4 DEF Sweep
<1>7. \A c \in Cells : heap'[c].next # Null => c \notin gone /\ heap'[c].next = heap[c].next
  BY <1>3
<1>8. \A c, d \in Cells : heap'[c].next = d => d \notin gone
  <2>1. CASE Flush(x)
    BY <1>2, <1>6, <1>7, <2>1 DEF Links
  <2>2. CASE ~Flush(x)
    BY <1>2, <2>2
  <2> QED BY <2>1, <2>2
<1>9. Links'
  <2> SUFFICES ASSUME NEW c \in Cells, NEW d \in Cells, heap'[c].next = d
               PROVE  Live(c)' /\ Live(d)' /\ Hashed(d)' = Hashed(c)'
    BY DEF Links
  <2>1. c \notin gone /\ d \notin gone /\ heap[c].next = d
    BY <1>7, <1>8
  <2> QED BY <1>5, <2>1 DEF Links
<1>10. Single' /\ Ranked'
  BY <1>7 DEF Single, Ranked
<1>11. \A b \in Buckets, h \in Cells : b # bucket /\ table[b] = h /\ Live(h) =>
         h \notin gone
  BY <1>3, <1>6 DEF Heads
<1>12. bucket \in Buckets /\ bucket \in Nat /\ bucket < HashLen
  BY <1>4, TypeIs DEF TypeInv, Stages
<1>13. Heads'
  <2>1. \/ bucket' = bucket /\ pc'[Updater] = "collect"
        \/ bucket' = bucket + 1 /\ pc'[Updater] # "collect"
    BY <1>4, TypeIs DEF Collect, Goto, TypeInv
  <2>2. \A b \in Buckets : ~Passed(b)' => b # bucket /\ ~Passed(b)
    BY <1>4, <1>12, <2>1, Constants DEF Passed
  <2> SUFFICES ASSUME NEW b \in Buckets, NEW h \in Cells, table[b] = h
               PROVE  /\ Known(h)' /\ (~Passed(b)' => Live(h)')
                      /\ Live(h)' => Hashed(h)' = b /\ \A c \in Cells : heap'[c].next # h
    BY <1>4 DEF Heads
  <2>4. Known(h)' /\ (Live(h)' => Live(h) /\ Hashed(h)' = Hashed(h))
    BY <1>3, <1>5 DEF Heads
  <2>5. ~Passed(b)' => Live(h)'
    BY <1>5, <1>11, <2>2 DEF Heads
  <2>6. Live(h)' => Hashed(h)' = b /\ \A c \in Cells : heap'[c].next # h
    BY <1>7, <2>4 DEF Heads
  <2> QED BY <2>4, <2>5, <2>6
<1>14. \A q \in Procs, n \in Cells : new[q] = n => n \notin gone /\ n # x
  BY <1>1, <1>3 DEF News, Unseen
<1>15. PICK y \in Cells \cup {Null} : y = ptr'[Updater]
  BY DEF TypeInv, TypeOK
<1>16. \/ /\ x = Null /\ y = Null /\ Collected' = {} /\ pc'[Updater] # "collect"
       \/ /\ x # Null /\ y = heap[x].next /\ pc' = pc /\ bucket' = bucket
          /\ Collected' = (Collected \ gone) \cup {x}
  <2>1. CASE x = Null
    <3>1. arr' = <<>> /\ pc' = [pc EXCEPT ![Updater] = "destroy"] /\ UNCHANGED ptr
      BY <1>1, <2>1 DEF Collect, Goto
    <3>2. Collected' = {}
      BY <3>1 DEF Collected
    <3>3. pc'[Updater] # "collect"
      BY <3>1, TypeIs DEF TypeInv
    <3> QED BY <1>1, <1>15, <2>1, <3>1, <3>2, <3>3
  <2>2. CASE x # Null
    <3>1. PICK s : s = IF Flush(x) THEN <<>> ELSE arr
      OBVIOUS
    <3>2. s \in Seq(Cells)
      <4>1. CASE Flush(x)
        BY <3>1, <4>1
      <4>2. CASE ~Flush(x)
        BY <3>1, <4>2, TypeIs DEF TypeInv
      <4> QED BY <4>1, <4>2
    <3>3. {s[k] : k \in DOMAIN s} = Collected \ gone
      <4>1. CASE Flush(x)
        BY <1>2, <3>1, <4>1
      <4>2. CASE ~Flush(x)
        BY <1>2, <3>1, <4>2 DEF Collected
      <4> QED BY <4>1, <4>2
    <3>4. PICK t : t = Append(s, x)
      OBVIOUS
    <3>5. /\ DOMAIN t = 1 .. Len(s) + 1 /\ DOMAIN s = 1 .. Len(s) /\ Len(s) \in Nat
          /\ t[Len(s) + 1] = x /\ \A k \in 1 .. Len(s) : t[k] = s[k]
      BY <2>2, <3>2, <3>4, AppendProperties, LenProperties
    <3>6. {t[k] : k \in DOMAIN t} = {s[k] : k \in DOMAIN s} \cup {x}
      BY <3>5
    <3>7. arr' = t /\ ptr' = [ptr EXCEPT ![Updater] = heap[x].next] /\ UNCHANGED <<pc, bucket>>
      BY <1>1, <2>2, <3>1, <3>4 DEF Collect
    <3>8. Collected' = (Collected \ gone) \cup {x}
      <4>1. Collected' = {t[k] : k \in DOMAIN t}
        BY <3>7 DEF Collected
      <4> QED BY <4>1, <3>3, <3>6
    <3>9. y = heap[x].next
      BY <1>15, <3>7, TypeIs DEF TypeInv
    <3> QED BY <2>2, <3>7, <3>8, <3>9
  <2> QED BY <2>1, <2>2
<1>17. y # Null => /\ x # Null /\ Live(y) /\ Hashed(y) = bucket /\ y # x /\ y \notin Collected
                   /\ \A q \in Procs : new[q] # y
  BY <1>1, <1>6, <1>16 DEF Links, News, Unseen
<1>18. y # Null => Live(y)' /\ Known(y)' /\ Hashed(y)' = bucket
  BY <1>3, <1>5, <1>17, CellIs
<1>19. News'
  <2> SUFFICES ASSUME NEW q \in Procs, NEW n \in Cells, new[q] = n
               PROVE  Unseen(n)' /\ heap'[n] = heap[n]
    BY <1>4 DEF News, Live
  <2>1. Unseen(n) /\ n \notin gone /\ n # x
    BY <1>14 DEF News
  <2>2. n \notin Collected'
    BY <1>16, <2>1 DEF Unseen
  <2>3. \A s \in Procs : ptr'[s] # n
    BY <1>4, <1>15, <1>17, <2>1 DEF Unseen
  <2>4. \A d \in Cells : heap'[d].next # n
    BY <1>7, <2>1 DEF Unseen
  <2> QED BY <1>3, <1>4, <2>1, <2>2, <2>3, <2>4 DEF Unseen
<1>20. Cursors'
  <2> SUFFICES ASSUME NEW q \in Procs, NEW c \in Cells, c = ptr'[q]
               PROVE  Known(c)' /\ (Following(q)' /\ Live(c)' => Hashed(c)' = Hash[url'[q]])
    <3>1. \A q \in Procs : ptr'[q] # Null => ptr'[q] \in Cells
      BY DEF TypeInv, TypeOK
    <3>2. \A q \in Procs, c \in Cells : c = ptr'[q] =>
            Known(c)' /\ (Following(q)' /\ Live(c)' => Hashed(c)' = Hash[url'[q]])
      OBVIOUS
    <3> QED BY <3>1, <3>2 DEF Cursors, Known, Live, Hashed
  <2>1. CASE q = Updater
    <3>1. c = y /\ y # Null
      BY <1>15, <2>1
    <3>2. ~Following(Updater)'
      BY <1>4, <1>16, <3>1 DEF Following
    <3> QED BY <1>18, <2>1, <3>1, <3>2
  <2>2. CASE q # Updater
    <3>1. c = ptr[q]
      BY <1>4, <2>2
    <3>2. Known(c) /\ (Following(q) /\ Live(c) => Hashed(c) = Hash[url[q]])
      BY <3>1 DEF Cursors
    <3>3. Known(c)' /\ (Live(c)' => Live(c) /\ Hashed(c)' = Hashed(c))
      BY <1>3, <1>5, <3>2
    <3> QED BY <1>4, <2>2, <3>1, <3>2, <3>3 DEF Following
  <2> QED BY <2>1, <2>2
<1>21. Sweep'
  <2> SUFFICES ASSUME pc'[Updater] = "collect"
               PROVE  Sweep'
    BY DEF Sweep
  <2>1. x # Null /\ y = heap[x].next /\ bucket' = bucket /\ Collected' = (Collected \ gone) \cup {x}
    BY <1>16
  <2>2. \A c \in Cells : c \in Collected' \/ c = y => Live(c)' /\ Hashed(c)' = bucket
    BY <1>3, <1>5, <1>6, <1>18, <2>1
  <2>3. y \notin Collected'
    <3>1. CASE y = Null
      BY <2>1, <3>1, CollectedIs
    <3> QED BY <1>17, <2>1, <3>1
  <2>4. ASSUME NEW c \in Cells, NEW d \in Cells, Live(c)', c \notin Collected', heap'[c].next = d
        PROVE  d \notin Collected' /\ d # y
    <3>1. c \notin gone /\ heap[c].next = d /\ Live(c) /\ c # x /\ c \notin Collected
      BY <1>3, <1>5, <2>1, <2>4, <1>7
    <3>2. d \notin Collected /\ d # x
      BY <1>6, <3>1
    <3>3. d # y
      BY <2>1, <3>1 DEF Single
    <3> QED BY <2>1, <3>2, <3>3
  <2> QED BY <1>15, <2>1, <2>2, <2>3, <2>4 DEF Sweep
<1> QED BY <1>9, <1>10, <1>13, <1>19, <1>20, <1>21

(* The heads are emptied; the cells that new heads led to are never freed. *)
LEMMA ResetLinkInv ==
  ASSUME TypeInv, TypeInv', LinkInv, DestroyReset
  PROVE  LinkInv'
<1> USE Constants DEF At, Goto, LinkInv, TypeInv
<1>1. /\ UNCHANGED <<heap, new, url, ptr, arr>> /\ \A b \in Buckets : table'[b] = Null
      /\ pc[Updater] = "reset" /\ pc' = [pc EXCEPT ![Updater] = "open"]
  BY DEF DestroyReset, NoHeads, globals, files, counts
<1>2. /\ \A c : Live(c)' = Live(c) /\ Known(c)' = Known(c) /\ Hashed(c)' = Hashed(c)
      /\ Collected' = Collected
  BY <1>1 DEF Live, Known, Hashed, Collected
<1>3. pc'[Updater] = "open" /\ \A q \in Procs : q # Updater => pc'[q] = pc[q]
  BY <1>1, TypeIs
<1>4. Links' /\ Single' /\ Ranked'
  BY <1>1, <1>2 DEF Links, Single, Ranked
<1>5. Heads' /\ Sweep'
  BY <1>1, <1>3 DEF Heads, Sweep
<1>6. News'
  BY <1>1, <1>2 DEF News, Unseen
<1>7. Cursors'
  BY <1>1, <1>2, <1>3 DEF Cursors, Following
<1> QED BY <1>4, <1>5, <1>6, <1>7

(* A new cell: nothing has led to it, for it was not in use.               *)
LEMMA AllocLinkInv ==
  ASSUME TypeInv, TypeInv', LinkInv, NEW p \in Procs, Alloc(p)
  PROVE  LinkInv'
<1> USE Constants DEF At, Goto, LinkInv, TypeInv
<1>1. PICK n \in Cells :
        /\ heap[n].st = "unused"
        /\ heap' = [heap EXCEPT ![n] = [st |-> "live", url |-> url[p], next |-> Null]]
        /\ new' = [new EXCEPT ![p] = n]
  BY DEF Alloc
<1>2. /\ UNCHANGED <<table, url, ptr, arr, bucket>>
      /\ pc[p] = "alloc" /\ pc' = [pc EXCEPT ![p] = "walk"]
      /\ Collected' = Collected
  BY DEF Alloc, globals, files, counts, destroy, Collected
<1>3. /\ heap'[n].st = "live" /\ heap'[n].url = url[p] /\ heap'[n].next = Null
      /\ \A c \in Cells : c # n => heap'[c] = heap[c]
      /\ new'[p] = n /\ \A q \in Procs : q # p => new'[q] = new[q]
  BY <1>1, TypeIs
<1>4. /\ pc'[p] = "walk" /\ \A q \in Procs : q # p => pc'[q] = pc[q]
  BY <1>2, TypeIs
<1>5. /\ ~Known(n) /\ ~Live(n) /\ Live(n)' /\ Known(n)' /\ heap[n].next = Null
      /\ \A c \in Cells : c # n =>
           Live(c)' = Live(c) /\ Known(c)' = Known(c) /\ Hashed(c)' = Hashed(c)
  <2>1. ~Live(n) /\ ~Known(n)
    BY <1>1 DEF Known, Live
  <2>2. heap[n].next = Null
    BY <2>1, CellIs DEF Links
  <2> QED BY <1>3, <2>1, <2>2 DEF Known, Live, Hashed
<1>6. Unseen(n)
  <2>1. n \notin Collected
    <3>1. CASE pc[Updater] = "collect"
      BY <1>5, <3>1 DEF Sweep
    <3>2. CASE pc[Updater] # "collect"
      BY <3>2 DEF Stages, Collected
    <3> QED BY <3>1, <3>2
  <2>2. \A b \in Buckets : table[b] # n
    BY <1>5 DEF Heads
  <2>3. \A c \in Cells : heap[c].next # n
    BY <1>5 DEF Links
  <2>4. \A q \in Procs : ptr[q] # n
    BY <1>5 DEF Cursors
  <2> QED BY <2>1, <2>2, <2>3, <2>4 DEF Unseen
<1>7. \A c \in Cells : heap'[c].next = heap[c].next
  BY <1>3, <1>5
<1>8. Links'
  <2> SUFFICES ASSUME NEW c \in Cells, NEW d \in Cells, heap'[c].next = d
               PROVE  Live(c)' /\ Live(d)' /\ Hashed(d)' = Hashed(c)'
    BY DEF Links
  <2>1. heap[c].next = d /\ d # n
    BY <1>6, <1>7 DEF Unseen
  <2>2. Live(c) /\ Live(d) /\ Hashed(d) = Hashed(c)
    BY <2>1 DEF Links
  <2>3. c # n
    BY <1>5, <2>2
  <2> QED BY <1>5, <2>1, <2>2, <2>3
<1>9. Single' /\ Ranked'
  BY <1>7 DEF Single, Ranked
<1>10. \A c : Unseen(c) => Unseen(c)'
  BY <1>2, <1>7 DEF Unseen
<1>11. Heads'
  <2> SUFFICES ASSUME NEW b \in Buckets, NEW h \in Cells, h = table[b]
               PROVE  /\ Known(h)' /\ (~Passed(b)' => Live(h)')
                      /\ Live(h)' => Hashed(h)' = b /\ \A c \in Cells : heap'[c].next # h
    BY <1>2 DEF Heads
  <2>1. h # n /\ (Passed(b)' <=> Passed(b))
    BY <1>2, <1>4, <1>6 DEF Unseen, Passed
  <2> QED BY <1>5, <1>7, <2>1 DEF Heads
<1>12. News'
  <2> SUFFICES ASSUME NEW q \in Procs, NEW c \in Cells, c = new'[q]
               PROVE  /\ Live(c)' /\ heap'[c].url = url'[q] /\ heap'[c].next = Null
                      /\ Unseen(c)'
                      /\ \A s \in Procs : new'[s] = c => s = q
    BY DEF News
  <2>1. \A s \in Procs : new[s] # n
    BY <1>5, CellIs DEF News
  <2>2. CASE q = p
    BY <1>2, <1>3, <1>5, <1>6, <1>10, <2>1, <2>2
  <2>3. CASE q # p
    <3>1. c = new[q] /\ c # n
      BY <1>3, <2>1, <2>3
    <3>2. Unseen(c)'
      BY <1>10, <3>1 DEF News
    <3> QED BY <1>2, <1>3, <1>5, <2>3, <3>1, <3>2 DEF News
  <2> QED BY <2>2, <2>3
<1>13. Cursors'
  <2> SUFFICES ASSUME NEW q \in Procs, NEW c \in Cells, c = ptr[q]
               PROVE  Known(c)' /\ (Following(q)' /\ Live(c)' => Hashed(c)' = Hash[url[q]])
    BY <1>2 DEF Cursors
  <2>1. c # n
    BY <1>6 DEF Unseen
  <2>2. q # p
    BY <1>2 DEF Stages, Following
  <2> QED BY <1>4, <1>5, <2>1, <2>2 DEF Cursors, Following
<1>14. Sweep'
  <2> SUFFICES ASSUME pc'[Updater] = "collect" PROVE Sweep'
    BY DEF Sweep
  <2>1. pc[Updater] = "collect"
    BY <1>4
  <2>2. \A c \in Cells : c \in Collected \/ c = ptr[Updater] => Live(c)' /\ Hashed(c)' = bucket
    BY <1>5, <1>6, <2>1 DEF Sweep, Unseen
  <2>3. \A c, d \in Cells : Live(c)' /\ c \notin Collected /\ heap'[c].next = d =>
          d \notin Collected /\ d # ptr[Updater]
    BY <1>3, <1>5, <1>7, <2>1 DEF Sweep
  <2> QED BY <1>2, <2>1, <2>2, <2>3 DEF Sweep
<1> QED BY <1>8, <1>9, <1>11, <1>12, <1>13, <1>14

(* The store of the link, of the head or of the last cell of a chain.      *)
LEMMA LinkLinkInv ==
  ASSUME TypeInv, TypeInv', LinkInv, NEW p \in Procs, Link(p)
  PROVE  LinkInv'
<1> USE Constants DEF At, Goto, LinkInv, TypeInv
<1>1. PICK n \in Cells : n = new[p]
  BY TypeIs DEF Link, Stages, Linking
<1>2. /\ ptr' = [ptr EXCEPT ![p] = Null] /\ new' = [new EXCEPT ![p] = Null]
      /\ pc[p] = "link" /\ pc' = [pc EXCEPT ![p] = "write"]
      /\ UNCHANGED <<url, arr, bucket>> /\ Collected' = Collected
  BY DEF Link, globals, files, counts, destroy, Collected
<1>3. /\ ptr'[p] = Null /\ new'[p] = Null /\ pc'[p] = "write"
      /\ \A q \in Procs : q # p => ptr'[q] = ptr[q] /\ new'[q] = new[q] /\ pc'[q] = pc[q]
  BY <1>2, TypeIs
<1>4. /\ Live(n) /\ heap[n].url = url[p] /\ heap[n].next = Null /\ Unseen(n)
      /\ \A q \in Procs : new[q] = n => q = p
  BY <1>1 DEF News
<1>5. Hashed(n) = Hash[url[p]] /\ Hash[url[p]] \in Buckets /\ Known(n)
  BY <1>4, CellIs DEF Hashed
<1>6. \/ /\ ptr[p] = Null
         /\ table' = [table EXCEPT ![Hash[url[p]]] = n] /\ UNCHANGED heap
      \/ /\ ptr[p] \in Cells /\ Live(ptr[p]) /\ UNCHANGED table
         /\ heap' = [heap EXCEPT ![ptr[p]] = [heap[ptr[p]] EXCEPT !.next = n]]
  BY <1>1, PushLastIs
<1>7. \A c \in Cells :
        /\ heap'[c].st = heap[c].st /\ heap'[c].url = heap[c].url
        /\ ptr[p] = c => heap'[c].next = n /\ Live(c) /\ Hashed(c) = Hash[url[p]] /\ UNCHANGED table
        /\ ptr[p] # c => heap'[c].next = heap[c].next
  <2> SUFFICES ASSUME NEW c \in Cells
               PROVE  /\ heap'[c].st = heap[c].st /\ heap'[c].url = heap[c].url
                      /\ ptr[p] = c => /\ heap'[c].next = n /\ Live(c) /\ UNCHANGED table
                                       /\ Hashed(c) = Hash[url[p]]
                      /\ ptr[p] # c => heap'[c].next = heap[c].next
    OBVIOUS
  <2>1. PICK h \in CellRecords : h = heap[c]
    BY TypeIs
  <2>2. PICK g : g = [h EXCEPT !.next = n]
    OBVIOUS
  <2>3. g.st = h.st /\ g.url = h.url /\ g.next = n
    BY <2>2 DEF CellRecords
  <2>4. CASE ptr[p] = c
    <3>1. heap'[c] = g /\ Live(c) /\ UNCHANGED table
      BY <1>6, <2>1, <2>2, <2>4, TypeIs
    <3>2. Hashed(c) = Hash[url[p]]
      BY <1>2, <2>4, <3>1 DEF Cursors, Following
    <3> QED BY <2>1, <2>3, <2>4, <3>1, <3>2
  <2>5. CASE ptr[p] # c
    BY <1>6, <2>5, TypeIs
  <2> QED BY <2>4, <2>5
<1>8. \A c \in Cells : Live(c)' = Live(c) /\ Known(c)' = Known(c) /\ Hashed(c)' = Hashed(c)
  BY <1>7 DEF Live, Known, Hashed
<1>9. \A b \in Buckets : table'[b] # n => table'[b] = table[b]
  BY <1>6, TypeIs
<1>10. \A b \in Buckets : table'[b] = n => b = Hash[url[p]] /\ ptr[p] = Null
  BY <1>4, <1>6, TypeIs DEF Unseen
<1>11. \A c \in Cells : heap'[c].next # n => heap'[c].next = heap[c].next
  BY <1>7
<1>12. \A c \in Cells : heap'[c].next = n => /\ ptr[p] = c /\ Live(c) /\ UNCHANGED table
                                            /\ Hashed(c) = Hash[url[p]]
  BY <1>4, <1>7 DEF Unseen
<1>13. Links'
  <2> SUFFICES ASSUME NEW c \in Cells, NEW d \in Cells, d = heap'[c].next
               PROVE  Live(c) /\ Live(d) /\ Hashed(d) = Hashed(c)
    BY <1>8 DEF Links
  <2>1. CASE d = n
    BY <1>4, <1>5, <1>12, <2>1
  <2>2. CASE d # n
    BY <1>11, <2>2 DEF Links
  <2> QED BY <2>1, <2>2
<1>14. Single'
  BY <1>11, <1>12 DEF Single
<1>15. Heads'
  <2> SUFFICES ASSUME NEW b \in Buckets, NEW h \in Cells, h = table'[b]
               PROVE  /\ Known(h) /\ (~Passed(b)' => Live(h))
                      /\ Live(h) => Hashed(h) = b /\ \A c \in Cells : heap'[c].next # h
    BY <1>8 DEF Heads
  <2>1. Passed(b)' <=> Passed(b)
    BY <1>2, <1>3 DEF Passed
  <2>2. CASE h = n
    BY <1>4, <1>5, <1>10, <1>12, <2>2
  <2>3. CASE h # n
    BY <1>9, <1>11, <2>1, <2>3 DEF Heads
  <2> QED BY <2>2, <2>3
<1>16. News'
  <2> SUFFICES ASSUME NEW q \in Procs, NEW c \in Cells, c = new'[q]
               PROVE  /\ Live(c) /\ heap[c].url = url[q] /\ heap'[c].next = Null
                      /\ Unseen(c)'
                      /\ \A s \in Procs : new'[s] = c => s = q
    BY <1>2, <1>7, <1>8 DEF News
  <2>1. q # p /\ c = new[q] /\ c # n
    BY <1>3, <1>4
  <2>2. Unseen(c) /\ Live(c) /\ heap[c].url = url[q] /\ heap[c].next = Null
        /\ \A s \in Procs : new[s] = c => s = q
    BY <2>1 DEF News
  <2>3. heap'[c].next = Null
    BY <1>7, <2>2 DEF Unseen
  <2>4. Unseen(c)'
    BY <1>2, <1>3, <1>9, <1>11, <2>1, <2>2 DEF Unseen
  <2>5. \A s \in Procs : new'[s] = c => s = q
    BY <1>3, <2>2
  <2> QED BY <2>2, <2>3, <2>4, <2>5
<1>17. Cursors'
  <2> SUFFICES ASSUME NEW q \in Procs, NEW c \in Cells, c = ptr'[q]
               PROVE  Known(c) /\ (Following(q)' /\ Live(c) => Hashed(c) = Hash[url[q]])
    BY <1>2, <1>8 DEF Cursors
  <2>1. q # p /\ c = ptr[q]
    BY <1>3
  <2> QED BY <1>3, <2>1 DEF Cursors, Following
<1>18. Sweep'
  <2> SUFFICES ASSUME pc'[Updater] = "collect" PROVE Sweep'
    BY DEF Sweep
  <2>1. pc[Updater] = "collect" /\ p # Updater /\ ptr'[Updater] = ptr[Updater]
    BY <1>2, <1>3
  <2>2. \A c \in Cells : c \in Collected \/ c = ptr[Updater] => Live(c)' /\ Hashed(c)' = bucket
    BY <1>8, <2>1 DEF Sweep
  <2>3. ASSUME NEW c \in Cells, NEW d \in Cells, Live(c)', c \notin Collected, heap'[c].next = d
        PROVE  d \notin Collected /\ d # ptr[Updater]
    <3>1. CASE d = n
      BY <1>4, <3>1 DEF Unseen
    <3>2. CASE d # n
      BY <1>8, <1>11, <2>1, <2>3, <3>2 DEF Sweep
    <3> QED BY <3>1, <3>2
  <2> QED BY <1>2, <2>1, <2>2, <2>3 DEF Sweep
<1>19. Ranked'
  <2>1. PICK r \in [Cells -> Nat] :
          \A c \in Cells : heap[c].next # Null => r[heap[c].next] > r[c]
    BY DEF Ranked
  <2>2. CASE ptr[p] = Null
    BY <1>6, <2>1, <2>2 DEF Ranked
  <2>3. CASE ptr[p] # Null
    <3>1. PICK d \in Cells : d = ptr[p] /\ d # n
      BY <1>4, <2>3, TypeIs DEF Unseen
    <3>2. PICK s \in [Cells -> Nat] : s = [c \in Cells |-> IF c = n THEN r[d] + 1 ELSE r[c]]
      <4>1. [c \in Cells |-> IF c = n THEN r[d] + 1 ELSE r[c]] \in [Cells -> Nat]
        BY <2>1, <3>1
      <4> QED BY <4>1
    <3>3. ASSUME NEW c \in Cells, heap'[c].next # Null
          PROVE  s[heap'[c].next] > s[c]
      <4>1. CASE heap'[c].next = n
        BY <1>12, <2>1, <3>1, <3>2, <4>1
      <4>2. CASE heap'[c].next # n
        <5>1. heap'[c].next = heap[c].next /\ c # n /\ heap[c].next \in Cells
          BY <1>4, <1>11, <3>3, <4>2, CellIs
        <5> QED BY <2>1, <3>2, <3>3, <4>2, <5>1
      <4> QED BY <4>1, <4>2
    <3> QED BY <3>3 DEF Ranked
  <2> QED BY <2>2, <2>3
<1> QED BY <1>13, <1>14, <1>15, <1>16, <1>17, <1>18, <1>19

LEMMA StepLinkInv == TypeInv /\ LinkInv /\ [Next]_vars => LinkInv'
<1> SUFFICES ASSUME TypeInv, LinkInv, [Next]_vars PROVE LinkInv'
  OBVIOUS
<1>0. TypeInv'
  BY StepTypeInv
<1>1. CASE \/ UNCHANGED <<table, heap, new, url, ptr, pc, bucket, arr>>
           \/ UNCHANGED vars \/ NewDay \/ Undefined
  <2>1. UNCHANGED <<table, heap, new, url, ptr, pc, bucket, arr>>
    BY <1>1 DEF NewDay, Undefined, vars, destroy
  <2>2. /\ \A c : Live(c)' = Live(c) /\ Known(c)' = Known(c) /\ Hashed(c)' = Hashed(c)
        /\ Collected' = Collected
    BY <2>1 DEF Live, Known, Hashed, Collected
  <2>3. Links' /\ Single' /\ Ranked'
    BY <2>1, <2>2 DEF LinkInv, Links, Single, Ranked
  <2>4. Heads' /\ News' /\ Cursors' /\ Sweep'
    BY <2>1, <2>2 DEF LinkInv, Heads, Passed, News, Unseen, Cursors, Following, Sweep
  <2> QED BY <2>3, <2>4 DEF LinkInv
<1>2. CASE Restart
  BY <1>2, RestartLinkInv
<1>3. CASE Wake \/ Stamp \/ Check \/ RunBlacklist
  BY <1>0, <1>3, WakeMoves, MovesLinkInv, Constants
<1>4. CASE DestroyBucket \/ DestroyReset
  BY <1>0, <1>4, DestroyLinkInv, ResetLinkInv
<1>5. CASE Collect
  BY <1>0, <1>5, CollectLinkInv
<1>6. ASSUME NEW w \in Workers, Request(w) \/ SendSigPipe(w) PROVE LinkInv'
  BY <1>0, <1>6, PageMoves, MovesLinkInv, Constants
<1>7. ASSUME NEW p \in Procs, UpdateStep(p) PROVE LinkInv'
  <2>1. CASE Open(p) \/ Match(p) \/ MatchEnds(p) \/ Write(p) \/ CloseFile(p)
    BY <1>0, <2>1, PageMoves, MovesLinkInv
  <2>2. CASE OpenBlank(p) \/ FreedUsed(p)
    BY <1>1, <2>2 DEF OpenBlank, FreedUsed
  <2>3. CASE SearchHead(p) \/ Compare(p) \/ Walk(p)
    BY <1>0, <2>3, SearchMoves, MovesLinkInv
  <2>4. CASE Alloc(p) \/ Link(p)
    BY <1>0, <2>4, AllocLinkInv, LinkLinkInv
  <2> QED BY <1>7, <2>1, <2>2, <2>3, <2>4 DEF UpdateStep
<1> QED BY <1>1, <1>2, <1>3, <1>4, <1>5, <1>6, <1>7 DEF Next, UpdaterStep

-----------------------------------------------------------------------------
(* What holds in every reachable state.                                    *)
IndexInv == TypeInv /\ LinkInv

LEMMA IndexInvariant == Spec => []IndexInv
<1>1. Init => IndexInv
  BY InitTypeInv, InitLinkInv DEF IndexInv
<1>2. IndexInv /\ [Next]_vars => IndexInv'
  BY StepTypeInv, StepLinkInv DEF IndexInv
<1> QED BY <1>1, <1>2, PTL DEF Spec

(* The finite subsets of Nat are well ordered, so Nat is: an induction     *)
(* that needs no operator as a parameter.                                  *)
LEMMA LeastNumber ==
  ASSUME NEW T \in SUBSET Nat, T # {}
  PROVE  \E x \in T : \A y \in T : x <= y
<1> DEFINE U == {0 .. x : x \in T}
<1>1. U \subseteq FiniteSubsetsOf(Nat)
  <2> SUFFICES ASSUME NEW x \in T PROVE 0 .. x \in FiniteSubsetsOf(Nat)
    OBVIOUS
  <2>1. IsFiniteSet(0 .. x)
    BY FS_Interval
  <2> QED BY <2>1 DEF FiniteSubsetsOf
<1>2. U # {}
  OBVIOUS
<1>3. PICK s \in U : \A t \in U : ~ (<<t, s>> \in StrictSubsetOrdering(Nat))
  <2> HIDE DEF U
  <2> QED BY <1>1, <1>2, WFMin, FS_StrictSubsetOrderingWellFounded
<1>4. PICK x \in T : s = 0 .. x
  BY <1>3
<1>5. ASSUME NEW y \in T PROVE x <= y
  <2> SUFFICES ASSUME y < x PROVE FALSE
    OBVIOUS
  <2>1. 0 .. y \subseteq 0 .. x /\ 0 .. y # 0 .. x
    <3>1. x \in 0 .. x /\ x \notin 0 .. y
      OBVIOUS
    <3> QED BY <3>1
  <2>2. <<0 .. y, s>> \in StrictSubsetOrdering(Nat)
    <3>1. 0 .. y \in SUBSET Nat /\ s \in SUBSET Nat
      BY <1>4
    <3> QED BY <3>1, <2>1, <1>4 DEF StrictSubsetOrdering
  <2> QED BY <2>2, <1>3
<1> QED BY <1>5

(* So is what Chain defines by recursion: the function exists.             *)
After(c) == IF c = Null THEN Null ELSE heap[c].next

LEMMA ChainIs ==
  ASSUME TypeInv, NEW b \in Buckets
  PROVE  /\ Chain(b) \in [1 .. CellCount + 1 -> Cells \cup {Null}]
         /\ Chain(b)[1] = table[b]
         /\ \A k \in 2 .. CellCount + 1 : Chain(b)[k] = After(Chain(b)[k - 1])
<1> USE Constants
<1>1. table[b] \in Cells \cup {Null}
  BY TypeIs DEF TypeInv
<1>2. \A c \in Cells \cup {Null} : After(c) \in Cells \cup {Null}
  BY CellIs DEF After
<1> DEFINE F(m) == [1 .. m -> Cells \cup {Null}]
           IsChain(f, m) == f[1] = table[b] /\ \A k \in 2 .. m : f[k] = After(f[k - 1])
           Short == {m \in 1 .. CellCount + 1 : ~ \E f \in F(m) : IsChain(f, m)}
<1>3. Short = {}
  <2> SUFFICES ASSUME Short # {} PROVE FALSE
    OBVIOUS
  <2>1. PICK m \in Short : \A l \in Short : m <= l
    <3>1. Short \in SUBSET Nat
      OBVIOUS
    <3> HIDE DEF Short
    <3> QED BY <3>1, LeastNumber
  <2>2. m # 1
    <3>1. PICK f : f = [k \in 1 .. 1 |-> table[b]]
      OBVIOUS
    <3>2. f \in F(1) /\ IsChain(f, 1)
      BY <1>1, <3>1
    <3> QED BY <3>2
  <2>3. PICK f \in F(m - 1) : IsChain(f, m - 1)
    <3>1. m \in 1 .. CellCount + 1 /\ ~(m <= m - 1)
      BY <2>1
    <3>2. m - 1 \in 1 .. CellCount + 1
      BY <2>2, <3>1
    <3>3. m - 1 \notin Short
      <4> HIDE DEF Short
      <4> QED BY <2>1, <3>1
    <3> QED BY <3>2, <3>3
  <2>4. PICK g : g = [k \in 1 .. m |-> IF k = m THEN After(f[m - 1]) ELSE f[k]]
    OBVIOUS
  <2>5. g \in F(m)
    <3>1. f[m - 1] \in Cells \cup {Null}
      BY <2>2, <2>3
    <3> QED BY <1>2, <2>3, <2>4, <3>1
  <2>6. IsChain(g, m)
    BY <2>2, <2>3, <2>4
  <2> QED BY <2>5, <2>6
<1>0. PICK f \in F(CellCount + 1) : IsChain(f, CellCount + 1)
  <2>1. CellCount + 1 \in 1 .. CellCount + 1
    OBVIOUS
  <2> QED BY <1>3, <2>1
<1>4. f = [k \in 1 .. CellCount + 1 |->
             IF k = 1 THEN table[b]
             ELSE IF f[k - 1] = Null THEN Null ELSE heap[f[k - 1]].next]
  BY <1>0 DEF After
<1>5. Chain(b) = [k \in 1 .. CellCount + 1 |->
                    IF k = 1 THEN table[b]
                    ELSE IF Chain(b)[k - 1] = Null THEN Null
                    ELSE heap[Chain(b)[k - 1]].next]
  <2> HIDE DEF F, IsChain, Short
  <2> QED BY <1>4, Zenon DEF Chain
<1>6. PICK g : g = Chain(b)
  OBVIOUS
<1>7. /\ DOMAIN g = 1 .. CellCount + 1 /\ g[1] = table[b]
      /\ \A k \in 2 .. CellCount + 1 : g[k] = After(g[k - 1])
  BY <1>5, <1>6 DEF After
<1>8. \A k \in 1 .. CellCount + 1 : g[k] \in Cells \cup {Null}
  <2> DEFINE Bad == {k \in 1 .. CellCount + 1 : g[k] \notin Cells \cup {Null}}
  <2> SUFFICES ASSUME Bad # {} PROVE FALSE
    OBVIOUS
  <2>1. PICK m \in Bad : \A l \in Bad : m <= l
    <3>1. Bad \in SUBSET Nat
      OBVIOUS
    <3> HIDE DEF Bad
    <3> QED BY <3>1, LeastNumber
  <2>2. m # 1 /\ m - 1 \in 1 .. CellCount + 1 /\ m - 1 \notin Bad
    BY <1>1, <1>7, <2>1
  <2> QED BY <1>2, <1>7, <2>1, <2>2
<1>9. g = [k \in 1 .. CellCount + 1 |-> g[k]]
  BY <1>5, <1>6
<1> QED BY <1>6, <1>7, <1>8, <1>9

(* Along a chain.                                                          *)
LEMMA AlongChain ==
  ASSUME IndexInv, ~Destroying, NEW b \in Buckets,
         NEW r \in [Cells -> Nat],
         \A c \in Cells : heap[c].next # Null => r[heap[c].next] > r[c],
         NEW k \in 1 .. CellCount + 1, Chain(b)[k] # Null
  PROVE  LET c == Chain(b)[k] IN
         /\ c \in Cells /\ Live(c) /\ Hashed(c) = b
         /\ \A p \in Procs : new[p] # c
         /\ \A j \in 1 .. k - 1 : Chain(b)[j] \in Cells /\ r[c] > r[Chain(b)[j]]
<1> USE Constants DEF IndexInv
<1> DEFINE OnWay(c) == c \in Cells /\ Live(c) /\ Hashed(c) = b /\ \A p \in Procs : new[p] # c
           Ahead(g, i) == \A j \in 1 .. i - 1 : g[j] \in Cells /\ r[g[i]] > r[g[j]]
<1>1. PICK g \in [1 .. CellCount + 1 -> Cells \cup {Null}] :
        /\ g = Chain(b) /\ g[1] = table[b]
        /\ \A i \in 2 .. CellCount + 1 : g[i] = After(g[i - 1])
  BY ChainIs
<1> DEFINE Bad == {i \in 1 .. CellCount + 1 : g[i] # Null /\ ~(OnWay(g[i]) /\ Ahead(g, i))}
<1>2. Bad = {}
  <2> SUFFICES ASSUME Bad # {} PROVE FALSE
    OBVIOUS
  <2>1. PICK m \in Bad : \A l \in Bad : m <= l
    <3>1. Bad \in SUBSET Nat
      OBVIOUS
    <3> HIDE DEF Bad
    <3> QED BY <3>1, LeastNumber
  <2>2. PICK c \in Cells : c = g[m]
    BY <1>1, <2>1
  <2>3. m # 1
    <3> SUFFICES ASSUME m = 1 PROVE FALSE
      OBVIOUS
    <3>1. table[b] = c /\ ~Passed(b)
      BY <1>1, <2>2 DEF Passed, Destroying, TypeInv, Stages
    <3>2. Live(c) /\ Hashed(c) = b
      BY <3>1 DEF LinkInv, Heads
    <3>3. \A p \in Procs : new[p] # c
      BY <3>1 DEF LinkInv, News, Unseen
    <3> QED BY <2>1, <2>2, <3>2, <3>3
  <2>4. PICK i \in 1 .. CellCount : m = i + 1
    BY <2>1, <2>3
  <2>5. g[m] = After(g[i]) /\ i \in 1 .. CellCount + 1 /\ i \notin Bad
    <3>1. m \in 2 .. CellCount + 1 /\ m - 1 = i /\ ~(m <= i)
      BY <2>1, <2>4
    <3> HIDE DEF Bad
    <3> QED BY <1>1, <2>1, <2>4, <3>1
  <2>6. g[i] # Null /\ heap[g[i]].next = c
    BY <2>2, <2>5 DEF After
  <2>7. PICK d \in Cells : d = g[i] /\ OnWay(d) /\ Ahead(g, i)
    <3>1. OnWay(g[i]) /\ Ahead(g, i)
      BY <2>5, <2>6
    <3> QED BY <3>1
  <2>8. Live(c) /\ Hashed(c) = b /\ \A p \in Procs : new[p] # c
    <3>1. heap[d].next = c /\ Live(d) /\ Hashed(d) = b
      BY <2>6, <2>7
    <3>2. Live(c) /\ Hashed(c) = b
      BY <3>1 DEF LinkInv, Links
    <3>3. \A p \in Procs : new[p] # c
      <4> SUFFICES ASSUME NEW p \in Procs, new[p] = c PROVE FALSE
        OBVIOUS
      <4>1. Unseen(c)
        BY DEF LinkInv, News
      <4> QED BY <3>1, <4>1 DEF Unseen
    <3> QED BY <3>2, <3>3
  <2>9. r[c] > r[d]
    BY <2>6, <2>7
  <2>10. Ahead(g, m)
    <3> SUFFICES ASSUME NEW j \in 1 .. m - 1 PROVE g[j] \in Cells /\ r[c] > r[g[j]]
      BY <2>2
    <3>1. CASE j = i
      BY <2>7, <2>9, <3>1
    <3>2. CASE j # i
      <4>1. j \in 1 .. i - 1
        BY <2>4, <3>2
      <4>2. g[j] \in Cells /\ r[d] > r[g[j]]
        BY <2>7, <4>1
      <4>3. r[c] \in Nat /\ r[d] \in Nat /\ r[g[j]] \in Nat
        BY <4>2
      <4> QED BY <2>9, <4>2, <4>3
    <3> QED BY <3>1, <3>2
  <2> QED BY <2>1, <2>2, <2>8, <2>10
<1>3. OnWay(g[k]) /\ Ahead(g, k)
  BY <1>1, <1>2
<1> QED BY <1>1, <1>3

LEMMA ChainEnds ==
  ASSUME IndexInv, ~Destroying, NEW b \in Buckets
  PROVE  Chain(b)[CellCount + 1] = Null
<1> USE Constants
<1>1. PICK r \in [Cells -> Nat] :
        \A c \in Cells : heap[c].next # Null => r[heap[c].next] > r[c]
  BY DEF IndexInv, LinkInv, Ranked
<1>2. PICK g : g = Chain(b)
  OBVIOUS
<1> SUFFICES ASSUME g[CellCount + 1] # Null PROVE FALSE
  BY <1>2
<1>3. /\ g[CellCount + 1] \in Cells
      /\ \A j \in 1 .. CellCount : g[j] \in Cells
  <2>1. CellCount + 1 \in 1 .. CellCount + 1
    OBVIOUS
  <2>2. Chain(b)[CellCount + 1] # Null
    BY <1>2
  <2>3. /\ Chain(b)[CellCount + 1] \in Cells
        /\ \A j \in 1 .. CellCount + 1 - 1 : Chain(b)[j] \in Cells
    BY <1>1, <2>1, <2>2, AlongChain
  <2> QED BY <1>2, <2>3
<1>4. \A k \in 1 .. CellCount + 1 : g[k] \in Cells /\ \A j \in 1 .. k - 1 : r[g[k]] > r[g[j]]
  <2> SUFFICES ASSUME NEW k \in 1 .. CellCount + 1
               PROVE  g[k] \in Cells /\ \A j \in 1 .. k - 1 : r[g[k]] > r[g[j]]
    OBVIOUS
  <2>1. g[k] \in Cells
    <3>1. k = CellCount + 1 \/ k \in 1 .. CellCount
      OBVIOUS
    <3> QED BY <1>3, <3>1
  <2>2. Chain(b)[k] # Null
    BY <1>2, <2>1
  <2>3. \A j \in 1 .. k - 1 : r[Chain(b)[k]] > r[Chain(b)[j]]
    BY <1>1, <2>2, AlongChain
  <2> QED BY <1>2, <2>1, <2>3
<1>5. g \in [1 .. CellCount + 1 -> Cells]
  BY <1>2, <1>3, ChainIs DEF IndexInv
<1>6. /\ IsFiniteSet(1 .. CellCount + 1) /\ IsFiniteSet(Cells)
      /\ Cardinality(Cells) < Cardinality(1 .. CellCount + 1)
  <2>1. /\ IsFiniteSet(1 .. CellCount + 1) /\ IsFiniteSet(1 .. CellCount)
        /\ Cardinality(1 .. CellCount + 1) = CellCount + 1
        /\ Cardinality(1 .. CellCount) = CellCount
    BY FS_Interval
  <2> QED BY <2>1
<1>7. PICK i \in 1 .. CellCount + 1, j \in 1 .. CellCount + 1 : i # j /\ g[i] = g[j]
  BY <1>5, <1>6, FS_PigeonHole
<1>8. r[g[i]] \in Nat
  BY <1>4
<1> QED BY <1>4, <1>7, <1>8

LEMMA IndexedIs ==
  ASSUME IndexInv, ~Destroying, NEW b \in Buckets, NEW c \in CellsOf(b)
  PROVE  c \in Cells /\ Live(c) /\ Hashed(c) = b /\ \A p \in Procs : new[p] # c
<1>1. PICK r \in [Cells -> Nat] :
        \A d \in Cells : heap[d].next # Null => r[heap[d].next] > r[d]
  BY DEF IndexInv, LinkInv, Ranked
<1>2. PICK k \in 1 .. CellCount + 1 : c = Chain(b)[k] /\ c # Null
  BY DEF CellsOf
<1> QED BY <1>1, <1>2, AlongChain

(* A chain ends, and holds live cells of its own bucket only, whoever      *)
(* pushes at the same time, through every destroy_hash_table but the one   *)
(* that is going on.                                                       *)
THEOREM ChainsAreSound == Spec => []ChainsSound
<1>1. IndexInv => ChainsSound
  BY ChainEnds, IndexedIs DEF ChainsSound, Hashed
<1> QED BY <1>1, IndexInvariant, PTL

-----------------------------------------------------------------------------
(* An item that was pushed is saved, or on its way.                        *)
Covered(u) ==
  \/ u \in lost \cup Blacklist
  \/ \E f \in Titles : saved[f][u] > 0
  \/ \E p \in Procs : out[p][u] > 0 \/ (pc[p] = "write" /\ url[p] = u)

Delivered ==
  \A c \in Cells, u \in Urls : Live(c) /\ heap[c].url = u =>
    (\E p \in Procs : new[p] = c) \/ Covered(u)

(* Steps that leave the cells alone, and that no item on its way is lost   *)
(* by: what was saved stays, but for the blacklisted.                      *)
Carries ==
  /\ UNCHANGED <<heap, new>>
  /\ \A u \in Urls : Covered(u) => Covered(u)'

LEMMA CarriesDelivered == Delivered /\ Carries /\ TypeInv => Delivered'
BY CellIs DEF Delivered, Carries, Live

(* The steps that touch no file.                                           *)
LEMMA SilentCarries ==
  ASSUME TypeInv, UNCHANGED <<heap, new, files>>,
         \A p \in Procs : pc[p] = "write" => pc'[p] = "write" /\ url'[p] = url[p]
  PROVE  Carries
BY DEF Carries, Covered, files

LEMMA BlacklistCarries ==
  ASSUME TypeInv, RunBlacklist
  PROVE  Carries
<1> USE DEF TypeInv
<1>1. /\ UNCHANGED <<heap, new, out, lost, url>>
      /\ pc[Updater] = "blacklist" /\ pc' = [pc EXCEPT ![Updater] = "idle"]
  BY DEF RunBlacklist, At, Goto
<1>2. \A p \in Procs : pc[p] = "write" => pc'[p] = "write"
  BY <1>1, TypeIs
<1>3. ASSUME NEW f \in Titles, NEW u \in Urls, u \notin Blacklist, saved[f][u] > 0
      PROVE  saved'[f][u] > 0
  <2>1. PICK r : r = [v \in Urls |-> IF v \in Blacklist THEN 0 ELSE saved[name][v]]
    OBVIOUS
  <2>2. saved' = [saved EXCEPT ![name] = r]
    BY <2>1 DEF RunBlacklist
  <2>3. CASE f = name
    BY <1>3, <2>1, <2>2, <2>3, TypeIs
  <2>4. CASE f # name
    BY <1>3, <2>2, <2>4, TypeIs
  <2> QED BY <2>3, <2>4
<1> QED BY <1>1, <1>2, <1>3 DEF Carries, Covered

LEMMA WriteCarries ==
  ASSUME TypeInv, NEW p \in Procs, Write(p)
  PROVE  Carries
<1> USE DEF TypeInv
<1>1. PICK lines : lines = [out[p] EXCEPT ![url[p]] = IF @ = 2 THEN 2 ELSE @ + 1]
  OBVIOUS
<1>2. \/ out' = [out EXCEPT ![p] = lines] /\ UNCHANGED <<saved, lost>>
      \/ out' = [out EXCEPT ![p] = NoLines] /\ Output(p, lines)
  BY <1>1 DEF Write
<1>3. /\ lines \in [Urls -> 0 .. 2] /\ lines[url[p]] > 0
      /\ \A u \in Urls : out[p][u] > 0 => lines[u] > 0
  BY <1>1, LinesIs
<1>4. /\ UNCHANGED <<heap, new, url>>
      /\ \A q \in Procs : q # p => pc'[q] = pc[q] /\ out'[q] = out[q]
  BY <1>2, TypeIs DEF Write, At, Goto
<1>5. ASSUME NEW u \in Urls, lines[u] > 0 PROVE Covered(u)'
  <2>1. CASE out' = [out EXCEPT ![p] = lines]
    <3>1. out'[p] = lines
      BY <2>1, TypeIs
    <3> QED BY <1>5, <3>1 DEF Covered
  <2>2. CASE Output(p, lines)
    BY <1>3, <1>5, <2>2, OutputIs DEF Covered
  <2> QED BY <1>2, <2>1, <2>2
<1>6. /\ lost \subseteq lost'
      /\ \A f \in Titles, u \in Urls : saved[f][u] > 0 => saved'[f][u] > 0
  BY <1>2, <1>3, OutputIs
<1>7. ASSUME NEW u \in Urls, Covered(u) PROVE Covered(u)'
  <2>1. CASE u \in lost \cup Blacklist \/ \E f \in Titles : saved[f][u] > 0
    BY <1>6, <2>1 DEF Covered
  <2>2. ASSUME NEW q \in Procs, out[q][u] > 0 \/ (pc[q] = "write" /\ url[q] = u)
        PROVE  Covered(u)'
    <3>1. CASE q = p
      BY <1>3, <1>5, <2>2, <3>1
    <3>2. CASE q # p
      BY <1>4, <2>2, <3>2 DEF Covered
    <3> QED BY <3>1, <3>2
  <2> QED BY <1>7, <2>1, <2>2 DEF Covered
<1> QED BY <1>4, <1>7 DEF Carries

LEMMA CloseCarries ==
  ASSUME TypeInv, NEW p \in Procs, CloseFile(p) \/ (p \in Workers /\ SendSigPipe(p))
  PROVE  Carries
<1> USE DEF TypeInv
<1>1. /\ UNCHANGED <<heap, new>> /\ pc[p] = "close"
      /\ \A q \in Procs : q # p => pc'[q] = pc[q] /\ out'[q] = out[q] /\ url'[q] = url[q]
  BY TypeIs DEF CloseFile, SendSigPipe, At, Goto
<1>2. /\ lost \subseteq lost'
      /\ \A f \in Titles, u \in Urls : saved[f][u] > 0 => saved'[f][u] > 0
      /\ \A u \in Urls : out[p][u] > 0 => u \in lost' \/ \E f \in Titles : saved'[f][u] > 0
  <2>1. CASE CloseFile(p)
    <3>1. PICK lines \in [Urls -> 0 .. 2] : lines = out[p]
      BY TypeIs
    <3>2. Output(p, lines)
      BY <2>1, <3>1 DEF CloseFile
    <3> QED BY <3>1, <3>2, OutputIs
  <2>2. CASE p \in Workers /\ SendSigPipe(p)
    BY <2>2, SigPipeIs
  <2> QED BY <2>1, <2>2
<1>3. ASSUME NEW u \in Urls, Covered(u) PROVE Covered(u)'
  <2>1. CASE u \in lost \cup Blacklist \/ \E f \in Titles : saved[f][u] > 0
    BY <1>2, <2>1 DEF Covered
  <2>2. ASSUME NEW q \in Procs, out[q][u] > 0 \/ (pc[q] = "write" /\ url[q] = u)
        PROVE  Covered(u)'
    <3>1. CASE q = p
      BY <1>1, <1>2, <2>2, <3>1 DEF Covered
    <3>2. CASE q # p
      BY <1>1, <2>2, <3>2 DEF Covered
    <3> QED BY <3>1, <3>2
  <2> QED BY <1>3, <2>1, <2>2 DEF Covered
<1> QED BY <1>1, <1>3 DEF Carries

LEMMA StepDelivered == IndexInv /\ Delivered /\ [Next]_vars => Delivered'
<1> SUFFICES ASSUME IndexInv, Delivered, [Next]_vars PROVE Delivered'
  OBVIOUS
<1> USE DEF IndexInv, TypeInv
<1>1. CASE Restart
  BY <1>1, FreeIs DEF Restart, Delivered, Live
<1>2. CASE Collect
  <2>1. \A c \in Cells : Live(c)' => Live(c) /\ heap'[c] = heap[c]
    BY <1>2, FreeIs DEF Collect, Live
  <2>2. UNCHANGED <<new, files>>
        /\ \A p \in Procs : pc[p] = "write" => pc'[p] = "write" /\ url'[p] = url[p]
    BY <1>2, TypeIs DEF Collect, At, Goto
  <2>3. \A u : Covered(u) => Covered(u)'
    BY <2>2 DEF Covered, files
  <2> QED BY <2>1, <2>2, <2>3 DEF Delivered
<1>3. ASSUME NEW p \in Procs, Alloc(p) PROVE Delivered'
  <2>1. PICK n \in Cells :
          /\ heap' = [heap EXCEPT ![n] = [st |-> "live", url |-> url[p], next |-> Null]]
          /\ new' = [new EXCEPT ![p] = n]
    BY <1>3 DEF Alloc
  <2>2. new[p] = Null /\ UNCHANGED <<files, url>>
        /\ \A q \in Procs : pc[q] = "write" => pc'[q] = "write"
    BY <1>3, TypeIs DEF Alloc, Stages, Linking, At, Goto
  <2>3. \A u : Covered(u) => Covered(u)'
    BY <2>2 DEF Covered, files
  <2>4. ASSUME NEW c \in Cells, NEW u \in Urls, Live(c)', heap'[c].url = u
        PROVE  (\E q \in Procs : new'[q] = c) \/ Covered(u)'
    <3>1. CASE c = n
      BY <2>1, <3>1, TypeIs
    <3>2. CASE c # n
      <4>1. heap'[c] = heap[c] /\ Live(c)
        BY <2>1, <2>4, <3>2 DEF Live
      <4>2. \A q \in Procs : new[q] = c => new'[q] = c
        BY <2>1, <2>2, Constants, TypeIs
      <4> QED BY <2>3, <2>4, <4>1, <4>2 DEF Delivered
    <3> QED BY <3>1, <3>2
  <2> QED BY <2>4 DEF Delivered
<1>4. ASSUME NEW p \in Procs, Link(p) PROVE Delivered'
  <2>1. /\ new' = [new EXCEPT ![p] = Null] /\ pc' = [pc EXCEPT ![p] = "write"]
        /\ UNCHANGED <<files, url>>
    BY <1>4 DEF Link, Goto
  <2>2. \A c \in Cells : heap'[c].st = heap[c].st /\ heap'[c].url = heap[c].url
    BY <1>4, LinkKeeps
  <2>3. \A u : Covered(u) => Covered(u)'
    BY <2>1, TypeIs DEF Covered, files
  <2>4. ASSUME NEW c \in Cells, NEW u \in Urls, Live(c), heap[c].url = u
        PROVE  (\E q \in Procs : new'[q] = c) \/ Covered(u)'
    <3>1. CASE new[p] = c
      <4>1. heap[c].url = url[p]
        BY <3>1 DEF LinkInv, News
      <4>2. pc'[p] = "write" /\ url'[p] = url[p]
        BY <2>1, TypeIs
      <4> QED BY <2>4, <4>1, <4>2 DEF Covered
    <3>2. CASE new[p] # c
      <4>1. (\E q \in Procs : new[q] = c) \/ Covered(u)
        BY <2>4 DEF Delivered
      <4>2. \A q \in Procs : new[q] = c => new'[q] = c
        BY <2>1, <3>2, TypeIs
      <4> QED BY <2>3, <4>1, <4>2
    <3> QED BY <3>1, <3>2
  <2> QED BY <2>2, <2>4 DEF Delivered, Live
<1>5. CASE RunBlacklist
  BY <1>5, BlacklistCarries, CarriesDelivered
<1>6. ASSUME NEW p \in Procs,
             Write(p) \/ CloseFile(p) \/ (p \in Workers /\ SendSigPipe(p))
      PROVE  Delivered'
  BY <1>6, WriteCarries, CloseCarries, CarriesDelivered
<1>7. CASE NewDay \/ Undefined \/ UNCHANGED vars
  BY <1>7, SilentCarries, CarriesDelivered DEF NewDay, Undefined, vars
<1>8. CASE Wake \/ Stamp \/ Check \/ DestroyBucket \/ DestroyReset
  <2>1. UNCHANGED <<heap, new, files>>
        /\ \A p \in Procs : pc[p] = "write" => pc'[p] = "write" /\ url'[p] = url[p]
    BY <1>8, TypeIs DEF Wake, Stamp, Check, DestroyBucket, DestroyReset, At, Goto
  <2> QED BY <2>1, SilentCarries, CarriesDelivered
<1>9. ASSUME NEW p \in Procs,
             \/ p \in Workers /\ Request(p)
             \/ Open(p) \/ Match(p) \/ MatchEnds(p)
             \/ SearchHead(p) \/ Compare(p) \/ Walk(p)
      PROVE  Delivered'
  <2>1. UNCHANGED <<heap, new, files>>
        /\ \A q \in Procs : pc[q] = "write" => pc'[q] = "write" /\ url'[q] = url[q]
    BY <1>9, TypeIs DEF Request, Open, Match, MatchEnds, SearchHead, Compare, Walk, At, Goto
  <2> QED BY <2>1, SilentCarries, CarriesDelivered
<1>10. ASSUME NEW p \in Procs, UpdateStep(p) PROVE Delivered'
  BY <1>3, <1>4, <1>6, <1>7, <1>9, <1>10 DEF UpdateStep, OpenBlank, FreedUsed
<1> QED BY <1>1, <1>2, <1>5, <1>6, <1>7, <1>8, <1>9, <1>10, Constants
        DEF Next, UpdaterStep

(* An item in the index will not be written again; then it has been saved, *)
(* or is on its way, or was lost to sed or to SIGPIPE, and nowhere else.   *)
THEOREM IndexedAreSaved == Spec => []IndexedIsSaved
<1>1. Init => IndexInv /\ Delivered
  <2>1. Init => Delivered
    BY FreeIs DEF Init, Delivered, Live
  <2> QED BY <2>1, InitTypeInv, InitLinkInv DEF IndexInv
<1>2. IndexInv /\ Delivered /\ [Next]_vars => (IndexInv /\ Delivered)'
  BY StepTypeInv, StepLinkInv, StepDelivered DEF IndexInv
<1>3. IndexInv /\ Delivered => IndexedIsSaved
  <2> SUFFICES ASSUME IndexInv, Delivered, ~Destroying, NEW c \in Indexed
               PROVE  Covered(heap[c].url)
    BY DEF IndexedIsSaved, Covered
  <2>1. c \in Cells /\ Live(c) /\ \A p \in Procs : new[p] # c
    BY IndexedIs DEF Indexed
  <2>2. heap[c].url \in Urls
    BY <2>1, CellIs DEF IndexInv
  <2> QED BY <2>1, <2>2 DEF Delivered
<1> QED BY <1>1, <1>2, <1>3, PTL DEF Spec

-----------------------------------------------------------------------------
(* The updater alone.  No cell gets out of the chains: each one hangs from *)
(* a head or from another cell, until the updater links or frees it.       *)
InSweep(c) ==
  c \in Collected \/ (pc[Updater] = "collect" /\ c = ptr[Updater])
Hanging ==
  \A c \in Cells : Live(c) /\ c # new[Updater] /\ ~InSweep(c) =>
    \/ \E b \in Buckets : ~Passed(b) /\ table[b] = c
    \/ \E d \in Cells : Live(d) /\ d \notin Collected /\ heap[d].next = c
AtEnd == pc[Updater] = "link" => Deref(Updater) = Null

(* The cells that hash_search has compared hold other items; so when it    *)
(* comes to the end of the chain the item is nowhere.                      *)
Searched ==
  pc[Updater] = "compare" =>
    \E V \in SUBSET Cells :
      /\ \A c \in V : heap[c].url # url[Updater]
      /\ table[Hash[url[Updater]]] \in V \cup {ptr[Updater]}
      /\ \A c \in V : heap[c].next \in V \cup {ptr[Updater]}
Absent ==
  pc[Updater] \in {"alloc", "walk", "link"} =>
    \A c \in Cells : Live(c) /\ heap[c].url = url[Updater] => c = new[Updater]
Unique ==
  \A c, d \in Cells : Live(c) /\ Live(d) /\ heap[c].url = heap[d].url => c = d

(* destroy_hash_table comes to the reset of the heads after all buckets.    *)
Swept == pc[Updater] = "reset" => bucket = HashLen

AloneInv == Hanging /\ AtEnd /\ Searched /\ Absent /\ Unique /\ Swept

(* Cells that all hang from one another would hang in a circle.            *)
LEMMA NoCircle ==
  ASSUME IndexInv, NEW S \in SUBSET Cells,
         \A c \in S : \E d \in S : heap[d].next = c
  PROVE  S = {}
<1> SUFFICES ASSUME S # {} PROVE FALSE
  OBVIOUS
<1>1. PICK r \in [Cells -> Nat] :
        \A c \in Cells : heap[c].next # Null => r[heap[c].next] > r[c]
  BY DEF IndexInv, LinkInv, Ranked
<1> DEFINE T == {r[c] : c \in S}
<1>2. T \in SUBSET Nat /\ T # {}
  BY <1>1
<1>3. PICK c \in S : \A n \in T : r[c] <= n
  <2> HIDE DEF T
  <2>1. PICK m \in T : \A n \in T : m <= n
    BY <1>2, LeastNumber
  <2> QED BY <2>1 DEF T
<1>4. PICK d \in S : heap[d].next = c
  BY <1>3
<1>5. r[c] > r[d]
  BY <1>1, <1>4, Constants
<1>6. r[c] <= r[d]
  BY <1>3
<1>7. r[c] \in Nat /\ r[d] \in Nat
  BY <1>1
<1> QED BY <1>5, <1>6, <1>7

LEMMA OneThread == Workers = {} => Procs = {Updater}
BY DEF Procs

LEMMA EmptyHands ==
  ASSUME TypeInv
  PROVE  /\ pc[Updater] # "collect" => Collected = {}
         /\ ~Destroying => \A b \in Buckets : ~Passed(b)
         /\ pc[Updater] \notin {"walk", "link"} => new[Updater] = Null
         /\ pc[Updater] \notin {"compare", "walk", "link", "collect"} => ptr[Updater] = Null
         /\ new[Updater] \in Cells \cup {Null} /\ ptr[Updater] \in Cells \cup {Null}
         /\ url[Updater] \in Urls /\ Hash[url[Updater]] \in Buckets
<1> USE Constants DEF TypeInv
<1>1. pc[Updater] # "collect" => Collected = {}
  <2> SUFFICES ASSUME pc[Updater] # "collect" PROVE Collected = {}
    OBVIOUS
  <2>1. arr = <<>>
    BY DEF Stages
  <2> QED BY <2>1 DEF Collected
<1>2. ~Destroying => \A b \in Buckets : ~Passed(b)
  <2> SUFFICES ASSUME ~Destroying, NEW b \in Buckets PROVE ~Passed(b)
    OBVIOUS
  <2>1. bucket = 0 /\ pc[Updater] # "collect"
    BY DEF Stages, Destroying
  <2> QED BY <2>1 DEF Passed
<1>3. new[Updater] # Null <=> Linking(Updater)
  BY DEF Stages
<1>4. ptr[Updater] # Null => Following(Updater) \/ pc[Updater] = "collect"
  BY DEF Stages
<1>5. new[Updater] \in Cells \cup {Null} /\ ptr[Updater] \in Cells \cup {Null}
      /\ url[Updater] \in Urls
  BY TypeIs
<1>6. Hash[url[Updater]] \in Buckets
  BY <1>5
<1> QED BY <1>1, <1>2, <1>3, <1>4, <1>5, <1>6 DEF Linking, Following

(* When hash_search ends without a find.                                   *)
LEMMA SearchEnds ==
  ASSUME IndexInv, Hanging, Searched, pc[Updater] = "compare", ptr[Updater] = Null
  PROVE  \A c \in Cells : Live(c) => heap[c].url # url[Updater]
<1> USE Constants DEF IndexInv
<1>1. PICK b \in Buckets : b = Hash[url[Updater]]
  BY EmptyHands
<1>2. PICK V \in SUBSET Cells :
        /\ \A c \in V : heap[c].url # url[Updater]
        /\ table[b] \in V \cup {Null}
        /\ \A c \in V : heap[c].next \in V \cup {Null}
  BY <1>1 DEF Searched
<1> DEFINE S == {c \in Cells : Live(c) /\ Hashed(c) = b /\ c \notin V}
<1>3. ASSUME NEW c \in S PROVE \E d \in S : heap[d].next = c
  <2>1. c # new[Updater] /\ ~InSweep(c)
    BY EmptyHands DEF InSweep
  <2>2. ~ \E a \in Buckets : table[a] = c
    <3> SUFFICES ASSUME NEW a \in Buckets, table[a] = c PROVE FALSE
      OBVIOUS
    <3>1. a = b
      BY DEF LinkInv, Heads
    <3> QED BY <1>2, <3>1
  <2>3. PICK d \in Cells : Live(d) /\ heap[d].next = c
    BY <2>1, <2>2 DEF Hanging
  <2>4. Hashed(d) = b
    BY <2>3 DEF LinkInv, Links
  <2>5. d \notin V
    BY <1>2, <2>3
  <2> QED BY <2>3, <2>4, <2>5
<1>4. S = {}
  <2> HIDE DEF S
  <2>1. S \in SUBSET Cells
    BY DEF S
  <2> QED BY <1>3, <2>1, NoCircle
<1>5. \A c \in Cells : Live(c) /\ heap[c].url = url[Updater] => Hashed(c) = b
  BY <1>1 DEF Hashed
<1> QED BY <1>2, <1>4, <1>5

(* destroy_hash_table has freed every cell.                                *)
LEMMA AllFreed ==
  ASSUME IndexInv, Hanging, pc[Updater] = "reset", bucket = HashLen
  PROVE  \A c \in Cells : ~Live(c)
<1> USE Constants DEF IndexInv
<1> DEFINE S == {c \in Cells : Live(c)}
<1>1. ASSUME NEW c \in S PROVE \E d \in S : heap[d].next = c
  <2>1. c # new[Updater] /\ ~InSweep(c)
    BY EmptyHands DEF InSweep
  <2>2. \A b \in Buckets : Passed(b)
    BY DEF Passed
  <2> QED BY <2>1, <2>2 DEF Hanging
<1>2. S = {}
  <2> HIDE DEF S
  <2>1. S \in SUBSET Cells
    BY DEF S
  <2> QED BY <1>1, <2>1, NoCircle
<1> QED BY <1>2

(* Steps that follow no chain.                                             *)
Busy == {"reset", "collect", "compare", "alloc", "walk", "link"}

LEMMA QuietAlone ==
  ASSUME AloneInv, UNCHANGED <<table, heap, new, ptr, bucket, arr>>,
         \/ pc[Updater] \notin Busy /\ pc'[Updater] \notin Busy
         \/ UNCHANGED <<pc, url>>
  PROVE  AloneInv'
<1>1. /\ \A c : Live(c)' = Live(c)
      /\ Collected' = Collected
  BY DEF Live, Collected
<1>2. pc'[Updater] = "collect" <=> pc[Updater] = "collect"
  BY DEF Busy
<1>3. Hanging' /\ Unique'
  BY <1>1, <1>2 DEF AloneInv, Hanging, Unique, InSweep, Passed
<1>4. AtEnd' /\ Searched' /\ Absent' /\ Swept'
  BY <1>1 DEF AloneInv, AtEnd, Deref, Searched, Absent, Swept, Busy
<1> QED BY <1>3, <1>4 DEF AloneInv

LEMMA RestartAlone ==
  ASSUME Restart
  PROVE  AloneInv'
<1>1. \A c \in Cells : ~Live(c)'
  BY FreeIs DEF Restart, Live
<1>2. pc'[Updater] = "idle"
  BY Constants DEF Restart
<1> QED BY <1>1, <1>2 DEF AloneInv, Hanging, AtEnd, Searched, Absent, Unique, Swept

LEMMA SearchAlone ==
  ASSUME IndexInv, IndexInv', AloneInv,
         SearchHead(Updater) \/ Compare(Updater) \/ Walk(Updater)
  PROVE  AloneInv'
<1> USE Constants DEF IndexInv, AloneInv, At, Goto, globals, files, counts, destroy
<1>1. /\ UNCHANGED <<table, heap, new, url, bucket, arr>>
      /\ pc[Updater] \in {"head", "compare", "walk"}
      /\ pc'[Updater] \in {"compare", "alloc", "match", "walk", "link"}
  BY TypeIs DEF SearchHead, Compare, Walk, TypeInv
<1>2. /\ \A c : Live(c)' = Live(c)
      /\ Collected' = Collected
  BY <1>1 DEF Live, Collected
<1>3. Hanging' /\ Unique' /\ Swept'
  BY <1>1, <1>2 DEF Hanging, Unique, InSweep, Passed, Swept
<1>4. CASE SearchHead(Updater)
  <2>1. /\ ptr'[Updater] = table[Hash[url[Updater]]] /\ pc'[Updater] = "compare"
    BY <1>4, TypeIs DEF SearchHead, TypeInv
  <2>2. Searched'
    <3>1. table'[Hash[url'[Updater]]] \in {} \cup {ptr'[Updater]}
      BY <1>1, <2>1
    <3> QED BY <3>1 DEF Searched
  <2> QED BY <1>3, <2>1, <2>2 DEF AtEnd, Absent
<1>5. CASE Compare(Updater) /\ ptr[Updater] = Null
  <2>1. pc[Updater] = "compare" /\ pc'[Updater] = "alloc"
    BY <1>5, TypeIs DEF Compare, TypeInv
  <2>2. Absent'
    BY <1>1, <1>2, <1>5, <2>1, SearchEnds DEF Absent
  <2> QED BY <1>3, <2>1, <2>2 DEF AtEnd, Searched
<1>6. CASE Compare(Updater) /\ ptr[Updater] # Null /\ Found(Updater)
  <2>1. pc'[Updater] = "match"
    BY <1>6, TypeIs DEF Compare, TypeInv
  <2> QED BY <1>3, <2>1 DEF AtEnd, Searched, Absent
<1>7. CASE Compare(Updater) /\ ptr[Updater] # Null /\ ~Found(Updater)
  <2>1. PICK x \in Cells : x = ptr[Updater]
    BY <1>7, EmptyHands
  <2>2. /\ ptr'[Updater] = heap[x].next /\ pc[Updater] = "compare" /\ UNCHANGED pc
        /\ heap[x].url # url[Updater]
    BY <1>7, <2>1, TypeIs DEF Compare, TypeInv, Found
  <2>3. PICK V \in SUBSET Cells :
          /\ \A c \in V : heap[c].url # url[Updater]
          /\ table[Hash[url[Updater]]] \in V \cup {x}
          /\ \A c \in V : heap[c].next \in V \cup {x}
    BY <2>1, <2>2 DEF Searched
  <2>4. PICK W \in SUBSET Cells : W = V \cup {x}
    OBVIOUS
  <2>5. /\ \A c \in W : heap'[c].url # url'[Updater]
        /\ table'[Hash[url'[Updater]]] \in W \cup {ptr'[Updater]}
        /\ \A c \in W : heap'[c].next \in W \cup {ptr'[Updater]}
    BY <1>1, <2>2, <2>3, <2>4
  <2>6. Searched'
    BY <2>5 DEF Searched
  <2> QED BY <1>3, <2>2, <2>6 DEF AtEnd, Absent
<1>8. CASE Walk(Updater)
  <2>1. /\ pc[Updater] = "walk" /\ pc'[Updater] \in {"walk", "link"}
        /\ pc'[Updater] = "link" => Deref(Updater) = Null /\ UNCHANGED ptr
    BY <1>8, TypeIs DEF Walk, TypeInv
  <2>2. AtEnd'
    BY <1>1, <2>1 DEF AtEnd, Deref
  <2>3. Absent'
    BY <1>1, <1>2, <2>1 DEF Absent
  <2> QED BY <1>3, <2>1, <2>2, <2>3 DEF Searched
<1> QED BY <1>4, <1>5, <1>6, <1>7, <1>8

LEMMA AllocAlone ==
  ASSUME IndexInv, IndexInv', AloneInv, Alloc(Updater)
  PROVE  AloneInv'
<1> USE Constants DEF IndexInv, AloneInv, At, Goto, globals, files, counts, destroy
<1>1. PICK n \in Cells :
        /\ heap[n].st = "unused"
        /\ heap' = [heap EXCEPT ![n] = [st |-> "live", url |-> url[Updater], next |-> Null]]
        /\ new' = [new EXCEPT ![Updater] = n]
  BY DEF Alloc
<1>2. /\ UNCHANGED <<table, url, ptr, arr, bucket>> /\ Collected' = Collected
      /\ pc[Updater] = "alloc" /\ pc'[Updater] = "walk"
  BY TypeIs DEF Alloc, Collected, TypeInv
<1>3. /\ heap'[n].url = url[Updater] /\ heap'[n].next = Null /\ Live(n)' /\ ~Live(n)
      /\ \A c \in Cells : c # n => heap'[c] = heap[c] /\ Live(c)' = Live(c)
      /\ new'[Updater] = n /\ new[Updater] = Null
  BY <1>1, <1>2, TypeIs, EmptyHands DEF Live, TypeInv
<1>4. Hanging'
  <2> SUFFICES ASSUME NEW c \in Cells, Live(c), c # n, ~InSweep(c)
               PROVE  \/ \E b \in Buckets : ~Passed(b)' /\ table[b] = c
                      \/ \E d \in Cells : Live(d)' /\ d \notin Collected /\ heap'[d].next = c
    BY <1>2, <1>3 DEF Hanging, InSweep
  <2>1. \A b \in Buckets : Passed(b)' <=> Passed(b)
    BY <1>2 DEF Passed
  <2>2. \/ \E b \in Buckets : ~Passed(b) /\ table[b] = c
        \/ \E d \in Cells : Live(d) /\ d \notin Collected /\ heap[d].next = c
    BY <1>3 DEF Hanging
  <2> QED BY <1>3, <2>1, <2>2
<1>5. \A c \in Cells : Live(c) => heap[c].url # url[Updater]
  BY <1>2, <1>3 DEF Absent
<1>6. Absent' /\ Unique'
  BY <1>2, <1>3, <1>5 DEF Absent, Unique
<1> QED BY <1>2, <1>4, <1>6 DEF AtEnd, Searched, Swept

LEMMA LinkAlone ==
  ASSUME IndexInv, IndexInv', AloneInv, Link(Updater)
  PROVE  AloneInv'
<1> USE Constants DEF IndexInv, AloneInv, At, Goto, globals, files, counts, destroy
<1>1. /\ UNCHANGED <<url, arr, bucket>> /\ Collected' = Collected /\ Collected = {}
      /\ pc[Updater] = "link" /\ pc'[Updater] = "write" /\ new'[Updater] = Null
      /\ \A b \in Buckets : ~Passed(b) /\ ~Passed(b)'
  <2>1. /\ UNCHANGED <<url, arr, bucket>>
        /\ pc[Updater] = "link" /\ pc'[Updater] = "write" /\ new'[Updater] = Null
    BY TypeIs DEF Link, TypeInv
  <2>2. Collected' = Collected /\ Collected = {}
    BY <2>1, EmptyHands DEF Collected
  <2>3. \A b \in Buckets : ~Passed(b)
    BY <2>1, EmptyHands DEF Destroying
  <2>4. \A b \in Buckets : ~Passed(b)'
    BY <2>1, <2>3 DEF Passed
  <2> QED BY <2>1, <2>2, <2>3, <2>4
<1>2. PICK n \in Cells, x \in Cells \cup {Null} : n = new[Updater] /\ x = ptr[Updater]
  BY <1>1, EmptyHands DEF TypeInv, Stages, Linking
<1>3. \A c \in Cells : heap'[c].st = heap[c].st /\ heap'[c].url = heap[c].url
  BY LinkKeeps
<1>4. \A c \in Cells : Live(c)' = Live(c)
  BY <1>3 DEF Live
<1>5. Unique'
  BY <1>3, <1>4 DEF Unique
<1>6. \/ /\ x = Null /\ table[Hash[url[Updater]]] = Null
         /\ table' = [table EXCEPT ![Hash[url[Updater]]] = n] /\ heap' = heap
      \/ /\ x \in Cells /\ Live(x) /\ heap[x].next = Null /\ table' = table
         /\ heap'[x].next = n /\ \A c \in Cells : c # x => heap'[c] = heap[c]
  <2>1. Deref(Updater) = Null
    BY <1>1 DEF AtEnd
  <2>2. CASE x = Null
    <3>1. table[Hash[url[Updater]]] = Null
      BY <1>2, <2>1, <2>2 DEF Deref
    <3>2. table' = [table EXCEPT ![Hash[url[Updater]]] = n] /\ heap' = heap
      BY <1>2, <2>2 DEF Link, PushLast
    <3> QED BY <2>2, <3>1, <3>2
  <2>3. CASE x # Null
    <3>1. PICK h \in CellRecords : h = heap[x]
      BY <2>3, TypeIs DEF TypeInv
    <3>0. PICK g : g = [h EXCEPT !.next = n]
      OBVIOUS
    <3>2. g.next = n
      BY <3>0 DEF CellRecords
    <3>3. /\ Live(x) /\ table' = table /\ heap' = [heap EXCEPT ![x] = g]
      BY <1>2, <2>3, <3>0, <3>1, PushLastIs
    <3> QED BY <1>2, <2>1, <2>3, <3>2, <3>3, TypeIs DEF Deref, TypeInv
  <2> QED BY <2>2, <2>3
<1>7. Hanging'
  <2> SUFFICES ASSUME NEW c \in Cells, Live(c)
               PROVE  \/ \E b \in Buckets : table'[b] = c
                      \/ \E d \in Cells : Live(d) /\ heap'[d].next = c
    BY <1>1, <1>4 DEF Hanging
  <2>1. CASE c = n
    BY <1>6, <2>1, EmptyHands, TypeIs DEF TypeInv
  <2>2. CASE c # n
    <3>1. \/ \E b \in Buckets : table[b] = c
          \/ \E d \in Cells : Live(d) /\ heap[d].next = c
      BY <1>1, <1>2, <2>2 DEF Hanging, InSweep
    <3> QED BY <1>6, <3>1, TypeIs DEF TypeInv
  <2> QED BY <2>1, <2>2
<1> QED BY <1>1, <1>5, <1>7 DEF AtEnd, Searched, Absent, Swept

LEMMA DestroyAlone ==
  ASSUME IndexInv, IndexInv', AloneInv, DestroyBucket
  PROVE  AloneInv'
<1> USE Constants DEF IndexInv, AloneInv, At, Goto, globals, files, counts
<1>1. /\ UNCHANGED <<table, heap, new, url, arr>> /\ pc[Updater] = "destroy"
      /\ pc'[Updater] \in {"reset", "destroy", "collect"}
      /\ Collected' = Collected /\ \A c : Live(c)' = Live(c)
  BY TypeIs DEF DestroyBucket, TypeInv, Collected, Live
<1>2. Unique' /\ AtEnd' /\ Searched' /\ Absent'
  BY <1>1 DEF Unique, AtEnd, Searched, Absent
<1>5. Swept'
  BY <1>1, TypeIs DEF DestroyBucket, Swept, TypeInv
<1>3. \A b \in Buckets : Passed(b)' /\ ~Passed(b) =>
        b = bucket /\ (table[b] = Null \/ (pc'[Updater] = "collect" /\ ptr'[Updater] = table[b]))
  <2>1. CASE bucket = HashLen
    BY <1>1, <2>1, TypeIs DEF DestroyBucket, Passed, TypeInv
  <2>2. CASE bucket # HashLen /\ table[bucket] = Null
    <3>1. bucket' = bucket + 1 /\ UNCHANGED pc
      BY <2>2 DEF DestroyBucket
    <3> QED BY <1>1, <2>2, <3>1, TypeIs DEF Passed, TypeInv
  <2>3. CASE bucket # HashLen /\ table[bucket] # Null
    <3>1. bucket' = bucket /\ pc'[Updater] = "collect" /\ ptr'[Updater] = table[bucket]
      BY <2>3, TypeIs DEF DestroyBucket, TypeInv
    <3> QED BY <1>1, <3>1, TypeIs DEF Passed, TypeInv
  <2> QED BY <2>1, <2>2, <2>3
<1>4. Hanging'
  <2> SUFFICES ASSUME NEW c \in Cells, Live(c), c # new[Updater], ~InSweep(c)'
               PROVE  \/ \E b \in Buckets : ~Passed(b)' /\ table[b] = c
                      \/ \E d \in Cells : Live(d) /\ d \notin Collected /\ heap[d].next = c
    BY <1>1 DEF Hanging
  <2>1. ~InSweep(c)
    BY <1>1 DEF InSweep
  <2>2. \A b \in Buckets : ~Passed(b) /\ table[b] = c => ~Passed(b)'
    BY <1>3 DEF InSweep
  <2> QED BY <2>1, <2>2 DEF Hanging
<1> QED BY <1>2, <1>4, <1>5

LEMMA CollectAlone ==
  ASSUME IndexInv, IndexInv', AloneInv, Collect
  PROVE  AloneInv'
<1> USE Constants DEF IndexInv, AloneInv, At, Goto, globals, files, counts
<1>1. PICK x \in Cells \cup {Null} : x = ptr[Updater]
  BY EmptyHands
<1>2. /\ UNCHANGED <<table, new, url>> /\ pc[Updater] = "collect"
      /\ pc'[Updater] \in {"destroy", "collect"}
  BY TypeIs DEF Collect, TypeInv
<1>3. \A c \in Cells : Live(c)' => Live(c) /\ heap'[c] = heap[c]
  BY FreeIs DEF Collect, Live
<1>4. \A c \in Cells : c \notin Collected => heap'[c] = heap[c] /\ Live(c)' = Live(c)
  BY DEF Collect, Freed, Live
<1>5. \A c \in Cells : Live(c)' /\ c \in Collected' => c \in Collected \/ c = x
  <2>1. CASE x = Null
    BY <1>1, <2>1 DEF Collect, Collected
  <2>2. CASE x # Null
    <3>1. PICK s : s = IF Flush(x) THEN <<>> ELSE arr
      OBVIOUS
    <3>2. s \in Seq(Cells) /\ {s[k] : k \in DOMAIN s} \subseteq Collected
      <4>1. CASE Flush(x)
        BY <3>1, <4>1
      <4>2. CASE ~Flush(x)
        BY <3>1, <4>2, TypeIs DEF TypeInv, Collected
      <4> QED BY <4>1, <4>2
    <3>3. PICK t : t = Append(s, x)
      OBVIOUS
    <3>4. /\ DOMAIN t = 1 .. Len(s) + 1 /\ DOMAIN s = 1 .. Len(s) /\ Len(s) \in Nat
          /\ t[Len(s) + 1] = x /\ \A k \in 1 .. Len(s) : t[k] = s[k]
      BY <2>2, <3>2, <3>3, AppendProperties, LenProperties
    <3>5. {t[k] : k \in DOMAIN t} = {s[k] : k \in DOMAIN s} \cup {x}
      BY <3>4
    <3>6. arr' = t
      BY <1>1, <2>2, <3>1, <3>3 DEF Collect
    <3>7. Collected' = {t[k] : k \in DOMAIN t}
      BY <3>6 DEF Collected
    <3> QED BY <3>2, <3>5, <3>7
  <2> QED BY <2>1, <2>2
<1>6. x \in Cells => /\ x \in Collected' /\ ptr'[Updater] = heap[x].next
                    /\ pc'[Updater] = "collect"
  <2> SUFFICES ASSUME x \in Cells
               PROVE  /\ x \in Collected' /\ ptr'[Updater] = heap[x].next
                      /\ pc'[Updater] = "collect"
    OBVIOUS
  <2>1. x # Null
    OBVIOUS
  <2>2. ptr'[Updater] = heap[x].next /\ pc'[Updater] = "collect"
    BY <1>1, <1>2, <2>1, TypeIs DEF Collect, TypeInv
  <2>3. PICK s \in Seq(Cells) : arr' = Append(s, x)
    <3>1. CASE Flush(x)
      <4>1. arr' = Append(<<>>, x) /\ <<>> \in Seq(Cells)
        BY <1>1, <2>1, <3>1 DEF Collect
      <4> QED BY <4>1
    <3>2. CASE ~Flush(x)
      BY <1>1, <2>1, <3>2, TypeIs DEF Collect, TypeInv
    <3> QED BY <3>1, <3>2
  <2>4. PICK t : t = Append(s, x)
    OBVIOUS
  <2>5. Len(s) + 1 \in DOMAIN t /\ t[Len(s) + 1] = x
    BY <2>4, AppendProperties, LenProperties
  <2>6. Collected' = {t[k] : k \in DOMAIN t}
    BY <2>3, <2>4 DEF Collected
  <2> QED BY <2>2, <2>5, <2>6
<1>7. \A c \in Cells : c \in Collected => ~Live(c)' \/ c \in Collected'
  <2> SUFFICES ASSUME NEW c \in Cells, c \in Collected, Live(c)' PROVE c \in Collected'
    OBVIOUS
  <2>1. ~Flush(x)
    BY <1>1, FreeIs DEF Collect, Freed, Live
  <2>2. x \in Cells
    BY <2>1 DEF Flush
  <2>3. arr' = Append(arr, x) /\ arr \in Seq(Cells)
    BY <1>1, <2>1, <2>2, TypeIs DEF Collect, TypeInv
  <2>4. PICK s, t : s = arr /\ t = arr'
    OBVIOUS
  <2>5. DOMAIN s = 1 .. Len(s) /\ DOMAIN t = 1 .. Len(s) + 1 /\ Len(s) \in Nat
        /\ \A k \in 1 .. Len(s) : t[k] = s[k]
    BY <2>2, <2>3, <2>4, AppendProperties, LenProperties
  <2>6. PICK k \in DOMAIN s : s[k] = c
    BY <2>4 DEF Collected
  <2>7. k \in DOMAIN t /\ t[k] = c
    BY <2>5, <2>6
  <2> QED BY <2>4, <2>7 DEF Collected
<1>8. \/ (bucket' = bucket /\ pc'[Updater] = "collect")
      \/ (bucket' = bucket + 1 /\ pc'[Updater] = "destroy")
  <2>1. CASE x = Null
    BY <1>1, <2>1, TypeIs DEF Collect, TypeInv
  <2>2. CASE x # Null
    BY <1>1, <1>2, <2>2, TypeIs DEF Collect, TypeInv
  <2> QED BY <2>1, <2>2
<1>9. Unique' /\ AtEnd' /\ Searched' /\ Absent' /\ Swept'
  BY <1>2, <1>3 DEF Unique, AtEnd, Searched, Absent, Swept
<1>10. Hanging'
  <2> SUFFICES ASSUME NEW c \in Cells, Live(c)', c # new[Updater], ~InSweep(c)'
               PROVE  \/ \E b \in Buckets : ~Passed(b)' /\ table[b] = c
                      \/ \E d \in Cells : Live(d)' /\ d \notin Collected' /\ heap'[d].next = c
    BY <1>2 DEF Hanging
  <2>1. c \notin Collected' /\ Live(c)
    BY <1>3 DEF InSweep
  <2>2. c # x /\ c \notin Collected
    <3>1. ASSUME x \in Cells PROVE x \in Collected'
      BY <1>6, <3>1
    <3>2. CASE c \in Collected
      BY <1>7, <2>1, <3>2
    <3> QED BY <2>1, <3>1, <3>2
  <2>3. CASE \E b \in Buckets : ~Passed(b) /\ table[b] = c
    <3>1. PICK b \in Buckets : ~Passed(b) /\ table[b] = c
      BY <2>3
    <3>2. b \in Nat /\ bucket \in Nat
      BY TypeIs DEF TypeInv
    <3>3. ~(b <= bucket)
      BY <1>2, <3>1, <3>2 DEF Passed
    <3>4. ~Passed(b)'
      BY <1>8, <3>2, <3>3 DEF Passed
    <3> QED BY <3>1, <3>4
  <2>4. CASE \E d \in Cells : Live(d) /\ d \notin Collected /\ heap[d].next = c
    <3>1. PICK d \in Cells : Live(d) /\ d \notin Collected /\ heap[d].next = c
      BY <2>4
    <3>2. d # x
      <4> SUFFICES ASSUME d = x PROVE FALSE
        OBVIOUS
      <4>1. ptr'[Updater] = c /\ pc'[Updater] = "collect"
        BY <1>6, <3>1
      <4> QED BY <4>1 DEF InSweep
    <3>3. d \notin Collected'
      BY <1>4, <1>5, <3>1, <3>2
    <3>4. heap'[d].next = c /\ Live(d)'
      BY <1>4, <3>1
    <3> QED BY <3>3, <3>4
  <2>5. c # new[Updater] /\ ~InSweep(c)
    BY <1>1, <2>2 DEF InSweep
  <2> QED BY <2>1, <2>3, <2>4, <2>5 DEF Hanging
<1> QED BY <1>9, <1>10

LEMMA ResetAlone ==
  ASSUME IndexInv, IndexInv', AloneInv, DestroyReset
  PROVE  AloneInv'
<1> USE Constants DEF IndexInv, AloneInv, At, Goto, globals, files, counts
<1>1. /\ UNCHANGED <<heap, new, url>> /\ pc[Updater] = "reset" /\ pc'[Updater] = "open"
  BY TypeIs DEF DestroyReset, TypeInv
<1>2. \A c \in Cells : ~Live(c)
  BY <1>1, AllFreed DEF Swept
<1>3. \A c \in Cells : ~Live(c)'
  BY <1>1, <1>2 DEF Live
<1> QED BY <1>1, <1>3 DEF Hanging, AtEnd, Searched, Absent, Unique, Swept

LEMMA StepAlone ==
  ASSUME Workers = {}, IndexInv, IndexInv', AloneInv, [Next]_vars
  PROVE  AloneInv'
<1>1. CASE NewDay \/ Undefined \/ UNCHANGED vars
  BY <1>1, QuietAlone DEF NewDay, Undefined, vars, destroy
<1>2. CASE Restart
  BY <1>2, RestartAlone
<1>3. CASE \/ Wake \/ Stamp \/ Check \/ RunBlacklist
           \/ Open(Updater) \/ Match(Updater) \/ MatchEnds(Updater)
           \/ Write(Updater) \/ CloseFile(Updater)
  <2>1. /\ UNCHANGED <<table, heap, new, ptr, bucket, arr>>
        /\ pc[Updater] \notin Busy /\ pc'[Updater] \notin Busy
    BY <1>3, TypeIs, Constants
       DEF IndexInv, TypeInv, Busy, At, Goto, destroy, Wake, Stamp, Check, RunBlacklist,
           Open, Match, MatchEnds, Write, CloseFile
  <2> QED BY <2>1, QuietAlone
<1>4. CASE DestroyBucket
  BY <1>4, DestroyAlone
<1>5. CASE Collect
  BY <1>5, CollectAlone
<1>6. CASE DestroyReset
  BY <1>6, ResetAlone
<1>7. CASE SearchHead(Updater) \/ Compare(Updater) \/ Walk(Updater)
  BY <1>7, SearchAlone
<1>8. CASE Alloc(Updater) \/ Link(Updater)
  BY <1>8, AllocAlone, LinkAlone
<1>9. CASE \E p \in Procs : UpdateStep(p)
  <2>1. UpdateStep(Updater)
    BY <1>9, OneThread
  <2> QED BY <1>1, <1>3, <1>7, <1>8, <2>1 DEF UpdateStep, OpenBlank, FreedUsed
<1> QED BY <1>1, <1>2, <1>3, <1>4, <1>5, <1>6, <1>9 DEF Next, UpdaterStep

LEMMA AloneInvariant ==
  ASSUME Workers = {}
  PROVE  Spec => [](IndexInv /\ AloneInv)
<1>1. Init => IndexInv /\ AloneInv
  <2> SUFFICES ASSUME Init PROVE AloneInv
    BY InitTypeInv, InitLinkInv DEF IndexInv
  <2>1. pc[Updater] = "idle" /\ \A c \in Cells : ~Live(c)
    BY FreeIs, Constants DEF Init, Live
  <2> QED BY <2>1 DEF AloneInv, Hanging, AtEnd, Searched, Absent, Unique, Swept
<1>2. IndexInv /\ AloneInv /\ [Next]_vars => (IndexInv /\ AloneInv)'
  BY StepTypeInv, StepLinkInv, StepAlone DEF IndexInv
<1> QED BY <1>1, <1>2, PTL DEF Spec

(* What hangs in the chains is what has been linked and not freed.         *)
LEMMA LiveIsIndexed ==
  ASSUME IndexInv, Hanging, ~Destroying
  PROVE  {c \in Cells : Live(c)} = Indexed \cup ({new[Updater]} \ {Null})
<1> USE Constants DEF IndexInv
<1> DEFINE S == {c \in Cells : Live(c) /\ c # new[Updater] /\ c \notin Indexed}
<1>1. ASSUME NEW c \in S PROVE \E d \in S : heap[d].next = c
  <2>1. pc[Updater] # "collect" /\ ~InSweep(c) /\ \A b \in Buckets : ~Passed(b)
    BY EmptyHands DEF InSweep, Destroying
  <2>2. \A b \in Buckets, k \in 1 .. CellCount + 1 : Chain(b)[k] # c
    BY DEF Indexed, CellsOf
  <2>3. \A b \in Buckets : table[b] # c
    <3> SUFFICES ASSUME NEW b \in Buckets, table[b] = c PROVE FALSE
      OBVIOUS
    <3>1. Chain(b)[1] = c
      BY ChainIs
    <3> QED BY <2>2, <3>1
  <2>4. PICK d \in Cells : Live(d) /\ heap[d].next = c
    BY <2>1, <2>3 DEF Hanging
  <2>5. d # new[Updater]
    BY <2>4 DEF LinkInv, News
  <2>6. d \notin Indexed
    <3> SUFFICES ASSUME d \in Indexed PROVE FALSE
      OBVIOUS
    <3>1. PICK b \in Buckets, k \in 1 .. CellCount + 1 : Chain(b)[k] = d
      BY DEF Indexed, CellsOf
    <3>2. k # CellCount + 1
      BY <3>1, ChainEnds
    <3>3. k + 1 \in 2 .. CellCount + 1 /\ k + 1 - 1 = k /\ k + 1 \in 1 .. CellCount + 1
      BY <3>2
    <3>4. Chain(b)[k + 1] = After(Chain(b)[k + 1 - 1])
      BY <3>3, ChainIs
    <3>5. Chain(b)[k + 1] = c
      BY <2>4, <3>1, <3>3, <3>4 DEF After
    <3> QED BY <2>2, <3>3, <3>5
  <2> QED BY <2>4, <2>5, <2>6
<1>2. S = {}
  <2> HIDE DEF S
  <2>1. S \in SUBSET Cells
    BY DEF S
  <2> QED BY <1>1, <2>1, NoCircle
<1>3. \A c \in Indexed : c \in Cells /\ Live(c)
  BY IndexedIs DEF Indexed
<1>4. new[Updater] # Null => new[Updater] \in Cells /\ Live(new[Updater])
  BY EmptyHands DEF LinkInv, News
<1> QED BY <1>2, <1>3, <1>4

(* While only the updater pushes, every cell that is not freed is in the   *)
(* index or in its hands: destroy_hash_table and hash_push neither lose a  *)
(* cell nor free one that the table leads to.                              *)
THEOREM NothingLeaks ==
  ASSUME Workers = {}
  PROVE  Spec => []NoLeak
<1>1. IndexInv /\ AloneInv => NoLeak
  BY LiveIsIndexed DEF NoLeak, AloneInv, Destroying
<1> QED BY <1>1, AloneInvariant, PTL

-----------------------------------------------------------------------------
(* The title file of the day, while the process is not started again.      *)
InFile  == {"match", "head", "compare", "alloc", "walk", "link", "write", "close"}
Named   == InFile \cup {"check", "destroy", "collect", "reset", "open", "blacklist"}
Opened  == InFile \cup {"blacklist"}

(* The line of an item may be on its way to the file.                      *)
Under(u) == out[Updater][u] + (IF pc[Updater] = "write" /\ url[Updater] = u THEN 1 ELSE 0)
Has(u)   == \E c \in Cells : Live(c) /\ heap[c].url = u /\ c # new[Updater]
Matches(f) ==
  \A u \in Urls \ Blacklist : saved[f][u] + Under(u) = IF Has(u) THEN 1 ELSE 0

(* The index is that of one day, after which no file has been made.        *)
OfDay(s) ==
  /\ s <= date
  /\ \A f \in created : \E d \in Days : d <= s /\ Title(d) = f
  /\ name # Blank => name = Title(s)
  /\ ~Destroying /\ Title(s) \in created /\ OwnTitle(Title(s)) => Matches(Title(s))
Dated == \E s \in Days : OfDay(s)

Files ==
  /\ \A f \in Titles \ created : \A u \in Urls : saved[f][u] = 0
  /\ Destroying => name \notin created
  /\ pc[Updater] = "open" /\ name \notin created => \A c \in Cells : ~Live(c)
  /\ pc[Updater] \in InFile => file[Updater] = name
  /\ pc[Updater] \notin InFile => \A u \in Urls : out[Updater][u] = 0
  /\ pc[Updater] \in Opened => name \in created
  /\ pc[Updater] = "idle" => name \in created \cup {Blank}
  /\ pc[Updater] \in Named => name # Blank

FileInv == Dated /\ Files

LEMMA TitleIs ==
  ASSUME NEW d \in Days PROVE Title(d) # Blank
<1>1. Len(Decimal(Calendar[d][1])) \in 1 .. 2 /\ Len(Decimal(Calendar[d][2])) \in 1 .. 2
  BY DEF Decimal
<1> QED BY <1>1 DEF Title, Blank

LEMMA OwnIs ==
  ASSUME NEW f, OwnTitle(f)
  PROVE  /\ \E d \in Days : Title(d) = f
         /\ \A d, e \in Days : Title(d) = f /\ Title(e) = f => d = e
<1> DEFINE D == {d \in Days : Title(d) = f}
<1>1. IsFiniteSet(D)
  <2>1. Len(Calendar) \in Nat
    BY IndexAssumption, LenProperties
  <2>2. IsFiniteSet(Days)
    BY <2>1, FS_Interval DEF Days
  <2> QED BY <2>2, FS_Subset
<1>2. Cardinality(D) = 1
  BY DEF OwnTitle
<1>3. \E d : D = {d}
  <2> HIDE DEF D
  <2> QED BY <1>1, <1>2, FS_Singleton
<1> QED BY <1>3

LEMMA CarryDated ==
  ASSUME TypeInv, TypeInv', Dated, date <= date', created' = created,
         name' \in {name, Blank}, ~Destroying' => ~Destroying,
         \A f \in created : (name # Blank => f = name) /\ Matches(f) => Matches(f)'
  PROVE  Dated'
<1>1. PICK s \in Days : OfDay(s)
  BY DEF Dated
<1>2. s \in Nat /\ date \in Nat /\ date' \in Nat
  BY Constants DEF TypeInv, TypeOK
<1>3. s <= date'
  BY <1>1, <1>2 DEF OfDay
<1>4. ~Destroying' /\ Title(s) \in created' /\ OwnTitle(Title(s)) => Matches(Title(s))'
  <2>1. PICK f : f = Title(s)
    OBVIOUS
  <2>2. ~Destroying' /\ f \in created' /\ OwnTitle(f) => Matches(f)'
    BY <1>1, <2>1 DEF OfDay
  <2> QED BY <2>1, <2>2
<1>5. OfDay(s)'
  BY <1>1, <1>3, <1>4 DEF OfDay
<1> QED BY <1>5 DEF Dated

(* The step leaves all that Matches looks at.                              *)
LEMMA SameMatches ==
  ASSUME saved' = saved, \A u \in Urls : Under(u)' = Under(u) /\ (Has(u)' <=> Has(u)),
         NEW f, Matches(f)
  PROVE  Matches(f)'
BY DEF Matches

LEMMA SameHas ==
  ASSUME UNCHANGED <<heap, new>>, NEW u PROVE Has(u)' <=> Has(u)
BY DEF Has, Live

LEMMA ClockFile ==
  ASSUME TypeInv, TypeInv', FileInv, NewDay \/ Undefined \/ UNCHANGED vars
  PROVE  FileInv'
<1>1. UNCHANGED <<heap, new, name, created, saved, out, pc, url, file>>
  BY DEF NewDay, Undefined, vars, globals, files
<1>2. date <= date'
  <2>1. date \in Nat
    BY Constants DEF TypeInv, TypeOK
  <2>2. date' = date \/ date' = date + 1
    BY DEF NewDay, Undefined, vars, globals
  <2> QED BY <2>1, <2>2
<1>3. \A u \in Urls : Under(u)' = Under(u) /\ (Has(u)' <=> Has(u))
  BY <1>1, SameHas DEF Under
<1>4. Dated'
  BY <1>1, <1>2, <1>3, SameMatches, CarryDated DEF FileInv, Destroying
<1>5. Files'
  BY <1>1 DEF FileInv, Files, Destroying, Live
<1> QED BY <1>4, <1>5 DEF FileInv

(* The updater wakes; it looks for the file of the day.                    *)
LEMMA CheckFile ==
  ASSUME TypeInv, TypeInv', FileInv, Wake \/ Check \/ DestroyBucket
  PROVE  FileInv'
<1> USE Constants DEF FileInv
<1>1. /\ UNCHANGED <<heap, new, date, created, saved, out, url>>
      /\ name' \in {name, Blank}
  BY DEF Wake, Check, DestroyBucket, globals, files
<1>2. /\ pc[Updater] \in {"idle", "check", "destroy"}
      /\ pc'[Updater] \in {"stamp", "open", "destroy", "reset", "collect"}
      /\ Destroying => Destroying'
  BY TypeIs DEF Wake, Check, DestroyBucket, At, Goto, TypeInv, Destroying
<1>3. \A u \in Urls : Under(u)' = Under(u) /\ (Has(u)' <=> Has(u))
  BY <1>1, <1>2, SameHas DEF Under
<1>4. date <= date'
  BY <1>1 DEF TypeInv, TypeOK
<1>5. Dated'
  BY <1>1, <1>2, <1>3, <1>4, SameMatches, CarryDated
<1>6. CASE Wake
  <2>1. pc'[Updater] = "stamp"
    BY <1>6, TypeIs DEF Wake, Goto, TypeInv
  <2> QED BY <1>1, <1>2, <1>5, <2>1 DEF Files, Destroying, InFile, Opened, Named
<1>7. CASE Check
  <2>1. /\ name' = name
        /\ \/ name \in created /\ pc'[Updater] = "open"
           \/ name \notin created /\ pc'[Updater] = "destroy"
        /\ pc[Updater] = "check"
    BY <1>7, TypeIs DEF Check, At, Goto, TypeInv, globals
  <2> QED BY <1>1, <1>5, <2>1 DEF Files, Destroying, InFile, Opened, Named
<1>8. CASE DestroyBucket
  <2>1. /\ name' = name /\ pc[Updater] = "destroy"
        /\ pc'[Updater] \in {"destroy", "reset", "collect"}
    BY <1>8, TypeIs DEF DestroyBucket, At, Goto, TypeInv, globals
  <2> QED BY <1>1, <1>5, <2>1 DEF Files, Destroying, InFile, Opened, Named
<1> QED BY <1>6, <1>7, <1>8

(* The name of the day: no other day has had a file of that name, if the   *)
(* day has the title alone.                                                *)
LEMMA StampFile ==
  ASSUME TypeInv, TypeInv', FileInv, Stamp
  PROVE  FileInv'
<1> USE Constants DEF FileInv
<1>1. /\ UNCHANGED <<heap, new, date, created, saved, out, url>>
      /\ name' = Title(date) /\ date \in Days
      /\ pc[Updater] = "stamp" /\ pc'[Updater] = "check"
  BY TypeIs DEF Stamp, At, Goto, TypeInv, files
<1>2. \A u \in Urls : Under(u)' = Under(u) /\ (Has(u)' <=> Has(u))
  BY <1>1, SameHas DEF Under
<1>3. PICK s \in Days : OfDay(s)
  BY DEF Dated
<1>4. s \in Nat /\ date \in Nat
  BY <1>1
<1>5. ASSUME s = date PROVE Dated'
  <2>1. Title(s) \in created /\ OwnTitle(Title(s)) => Matches(Title(s))
    BY <1>1, <1>3 DEF OfDay, Destroying
  <2>2. PICK f : f = Title(s)
    OBVIOUS
  <2>3. f \in created /\ OwnTitle(f) => Matches(f)'
    BY <1>1, <1>2, <2>1, <2>2, SameMatches
  <2>4. Title(s) \in created' /\ OwnTitle(Title(s)) => Matches(Title(s))'
    BY <1>1, <2>2, <2>3
  <2>5. name' = Title(s) /\ s <= date'
    BY <1>1, <1>4, <1>5
  <2>6. OfDay(s)'
    BY <1>1, <1>3, <2>4, <2>5 DEF OfDay
  <2> QED BY <2>6 DEF Dated
<1>6. ASSUME s # date PROVE Dated'
  <2>1. s < date
    BY <1>3, <1>4, <1>6 DEF OfDay
  <2>2. ~(Title(date) \in created /\ OwnTitle(Title(date)))
    <3> SUFFICES ASSUME Title(date) \in created, OwnTitle(Title(date)) PROVE FALSE
      OBVIOUS
    <3>1. PICK d \in Days : d <= s /\ Title(d) = Title(date)
      BY <1>3 DEF OfDay
    <3>2. d # date /\ d \in Nat
      BY <1>4, <2>1, <3>1
    <3> QED BY <1>1, <3>1, <3>2, OwnIs
  <2>3. \A f \in created : \E d \in Days : d <= date /\ Title(d) = f
    <3> SUFFICES ASSUME NEW f \in created PROVE \E d \in Days : d <= date /\ Title(d) = f
      OBVIOUS
    <3>1. PICK d \in Days : d <= s /\ Title(d) = f
      BY <1>3 DEF OfDay
    <3> QED BY <1>4, <2>1, <3>1
  <2>4. PICK t \in Days : t = date
    BY <1>1
  <2>5. t <= date' /\ created' = created /\ name' = Title(t)
        /\ ~(Title(t) \in created' /\ OwnTitle(Title(t)))
        /\ \A f \in created' : \E d \in Days : d <= t /\ Title(d) = f
    BY <1>1, <1>4, <2>2, <2>3, <2>4
  <2>6. OfDay(t)'
    BY <2>5 DEF OfDay
  <2> QED BY <2>6 DEF Dated
<1>7. name' # Blank
  BY <1>1, TitleIs
<1>8. Files'
  BY <1>1, <1>7 DEF Files, Destroying, InFile, Opened, Named
<1> QED BY <1>5, <1>6, <1>8

(* destroy_hash_table runs when the day has no file.                       *)
LEMMA CollectFile ==
  ASSUME TypeInv, TypeInv', FileInv, Collect
  PROVE  FileInv'
<1> USE Constants DEF FileInv
<1>1. /\ UNCHANGED <<new, name, date, created, saved, out, url, file>>
      /\ pc[Updater] = "collect" /\ pc'[Updater] \in {"destroy", "collect"}
  BY TypeIs DEF Collect, At, Goto, TypeInv, globals, files
<1>2. Destroying' /\ Destroying
  BY <1>1 DEF Destroying
<1>3. Dated'
  <2>1. PICK s \in Days : OfDay(s)
    BY DEF Dated
  <2>2. OfDay(s)'
    BY <1>1, <1>2, <2>1 DEF OfDay
  <2> QED BY <2>2 DEF Dated
<1>4. Files'
  BY <1>1, <1>2 DEF Files, InFile, Opened, Named
<1> QED BY <1>3, <1>4

LEMMA ResetFile ==
  ASSUME IndexInv, TypeInv', AloneInv, FileInv, DestroyReset
  PROVE  FileInv'
<1> USE Constants DEF FileInv, IndexInv, AloneInv
<1>1. /\ UNCHANGED <<heap, new, name, date, created, saved, out, url, file>>
      /\ pc[Updater] = "reset" /\ pc'[Updater] = "open"
  BY TypeIs DEF DestroyReset, At, Goto, TypeInv, globals, files
<1>2. \A c \in Cells : ~Live(c)
  BY <1>1, AllFreed DEF Swept
<1>3. name # Blank /\ name \notin created
  BY <1>1 DEF Files, Named, Destroying
<1>4. Dated'
  <2>1. PICK s \in Days : OfDay(s)
    BY DEF Dated
  <2>2. Title(s) \notin created'
    BY <1>1, <1>3, <2>1 DEF OfDay
  <2>3. OfDay(s)'
    BY <1>1, <2>1, <2>2 DEF OfDay
  <2> QED BY <2>3 DEF Dated
<1>5. Files'
  BY <1>1, <1>2 DEF Files, InFile, Opened, Named, Destroying, Live
<1> QED BY <1>4, <1>5

(* A new file matches the empty index.                                     *)
LEMMA OpenFile ==
  ASSUME TypeInv, TypeInv', FileInv, Open(Updater)
  PROVE  FileInv'
<1> USE Constants DEF FileInv
<1>1. /\ UNCHANGED <<heap, new, name, date, saved, out, url>>
      /\ pc[Updater] = "open" /\ pc'[Updater] = "match"
      /\ file'[Updater] = name /\ created' = created \cup {name} /\ name # Blank
  BY TypeIs DEF Open, At, Goto, TypeInv, files
<1>2. \A u \in Urls : Under(u)' = Under(u) /\ (Has(u)' <=> Has(u))
  BY <1>1, SameHas DEF Under
<1>3. PICK s \in Days : OfDay(s)
  BY DEF Dated
<1>4. PICK f : f = name
  OBVIOUS
<1>5. f = Title(s) /\ f \in Titles
  BY <1>1, <1>3, <1>4 DEF OfDay
<1>6. OwnTitle(f) => Matches(f)
  <2>1. CASE f \in created
    BY <1>1, <1>3, <1>5, <2>1 DEF OfDay, Destroying
  <2>2. CASE f \notin created
    <3>1. \A u \in Urls : saved[f][u] = 0 /\ out[Updater][u] = 0 /\ ~Has(u)
      BY <1>1, <1>4, <1>5, <2>2 DEF Files, Has, InFile
    <3>2. \A u \in Urls : Under(u) = 0
      BY <1>1, <3>1 DEF Under
    <3> QED BY <3>1, <3>2 DEF Matches
  <2> QED BY <2>1, <2>2
<1>7. OwnTitle(f) => Matches(f)'
  BY <1>1, <1>2, <1>6, SameMatches
<1>8. Dated'
  <2>1. OwnTitle(Title(s)) => Matches(Title(s))'
    BY <1>5, <1>7
  <2>2. s \in Nat
    OBVIOUS
  <2>3. \A g \in created' : \E d \in Days : d <= s /\ Title(d) = g
    <3> SUFFICES ASSUME NEW g \in created' PROVE \E d \in Days : d <= s /\ Title(d) = g
      OBVIOUS
    <3>1. CASE g = f
      BY <1>5, <2>2, <3>1
    <3>2. CASE g # f
      BY <1>1, <1>3, <1>4, <3>2 DEF OfDay
    <3> QED BY <3>1, <3>2
  <2>4. OfDay(s)'
    BY <1>1, <1>3, <2>1, <2>3 DEF OfDay
  <2> QED BY <2>4 DEF Dated
<1>9. Files'
  BY <1>1 DEF Files, InFile, Opened, Named, Destroying, Live
<1> QED BY <1>8, <1>9

(* Inside update_all_news the lines of the file only change by Output.     *)
LEMMA InFileFiles ==
  ASSUME TypeInv, Files, UNCHANGED <<name, created, file>>,
         pc[Updater] \in InFile, pc'[Updater] \in InFile,
         \A f \in Titles \ created : saved'[f] = saved[f]
  PROVE  Files'
BY DEF Files, InFile, Opened, Named, Destroying

LEMMA SearchFile ==
  ASSUME TypeInv, TypeInv', FileInv,
         \/ Match(Updater) \/ MatchEnds(Updater)
         \/ SearchHead(Updater) \/ Compare(Updater) \/ Walk(Updater)
  PROVE  FileInv'
<1> USE Constants DEF FileInv
<1>1. /\ UNCHANGED <<heap, new, name, date, created, saved, out, file>>
      /\ pc[Updater] \in InFile \ {"write"} /\ pc'[Updater] \in InFile \ {"write"}
  BY TypeIs DEF Match, MatchEnds, SearchHead, Compare, Walk, At, Goto, TypeInv, globals,
                files, InFile
<1>2. \A u \in Urls : Under(u)' = Under(u) /\ (Has(u)' <=> Has(u))
  BY <1>1, SameHas DEF Under
<1>3. date <= date'
  BY <1>1 DEF TypeInv, TypeOK
<1>4. ~Destroying
  BY <1>1 DEF Destroying, InFile
<1>5. Dated'
  BY <1>1, <1>2, <1>3, <1>4, SameMatches, CarryDated
<1>6. Files'
  BY <1>1, InFileFiles
<1> QED BY <1>5, <1>6

(* hash_push and the line that goes with it.                               *)
LEMMA PushFile ==
  ASSUME IndexInv, TypeInv', AloneInv, FileInv, Alloc(Updater) \/ Link(Updater)
  PROVE  FileInv'
<1> USE Constants DEF FileInv, IndexInv, AloneInv
<1>1. /\ UNCHANGED <<name, date, created, saved, out, file, url>>
      /\ pc[Updater] \in InFile \ {"write"} /\ pc'[Updater] \in InFile
      /\ ~Destroying
  BY TypeIs DEF Alloc, Link, At, Goto, TypeInv, globals, files, InFile, Destroying
<1>2. \A f \in Titles : Matches(f) => Matches(f)'
  <2>1. CASE Alloc(Updater)
    <3>1. PICK n \in Cells :
            /\ heap[n].st = "unused"
            /\ heap' = [heap EXCEPT ![n] = [st |-> "live", url |-> url[Updater], next |-> Null]]
            /\ new' = [new EXCEPT ![Updater] = n]
      BY <2>1 DEF Alloc
    <3>2. /\ new'[Updater] = n /\ new[Updater] = Null /\ ~Live(n)
          /\ \A c \in Cells : c # n => heap'[c] = heap[c] /\ Live(c)' = Live(c)
          /\ pc'[Updater] = "walk"
      BY <2>1, <3>1, TypeIs, EmptyHands DEF Live, TypeInv, Alloc, At, Goto
    <3>3. \A u \in Urls : Has(u)' <=> Has(u)
      BY <3>2 DEF Has
    <3>4. \A u \in Urls : Under(u)' = Under(u)
      BY <1>1, <3>2 DEF Under
    <3> QED BY <1>1, <3>3, <3>4, SameMatches
  <2>2. CASE Link(Updater)
    <3>1. pc[Updater] = "link" /\ pc'[Updater] = "write" /\ new'[Updater] = Null
      BY <2>2, TypeIs DEF Link, At, Goto, TypeInv
    <3>2. PICK n \in Cells : n = new[Updater]
      BY <3>1, EmptyHands DEF TypeInv, Stages, Linking
    <3>3. Live(n) /\ heap[n].url = url[Updater]
      BY <3>2 DEF LinkInv, News
    <3>4. \A c \in Cells : heap'[c].url = heap[c].url /\ Live(c)' = Live(c)
      BY <2>2, LinkKeeps DEF Live
    <3>5. ~Has(url[Updater])
      BY <3>1 DEF Absent, Has
    <3>6. \A u \in Urls : Has(u)' <=> Has(u) \/ u = url[Updater]
      BY <3>1, <3>2, <3>3, <3>4 DEF Has
    <3>7. \A u \in Urls : out[Updater][u] \in 0 .. 2
      BY TypeIs DEF TypeInv
    <3>8. \A u \in Urls : Under(u)' = Under(u) + (IF u = url[Updater] THEN 1 ELSE 0)
      BY <1>1, <3>1, <3>7 DEF Under
    <3> SUFFICES ASSUME NEW f \in Titles, Matches(f), NEW u \in Urls \ Blacklist
                 PROVE  saved[f][u] + Under(u)' = IF Has(u)' THEN 1 ELSE 0
      BY <1>1 DEF Matches
    <3>9. saved[f][u] + Under(u) = IF Has(u) THEN 1 ELSE 0
      BY DEF Matches
    <3>10. saved[f][u] \in Nat /\ Under(u) \in Nat
      <4>1. saved[f] \in [Urls -> 0 .. 2]
        BY TypeIs DEF TypeInv
      <4>2. out[Updater][u] \in Nat
        BY <3>7
      <4>3. Under(u) \in Nat
        BY <4>2 DEF Under
      <4> QED BY <4>1, <4>3
    <3> QED BY <3>5, <3>6, <3>8, <3>9, <3>10
  <2> QED BY <2>1, <2>2
<1>3. date <= date'
  BY <1>1 DEF TypeInv, TypeOK
<1>4. Dated'
  BY <1>1, <1>2, <1>3, CarryDated, TypeIs DEF TypeInv
<1>5. Files'
  BY <1>1, InFileFiles
<1> QED BY <1>4, <1>5

LEMMA OutputMatches ==
  ASSUME TypeInv, NEW lines \in [Urls -> 0 .. 2], Output(Updater, lines),
         NEW f \in Titles, file[Updater] = f
  PROVE  /\ \A g \in Titles : g # f => saved'[g] = saved[g]
         /\ \A u \in Urls : saved'[f][u] = Written(saved[f][u], lines[u])
<1>1. f # Blank
  BY TitleIs DEF Titles
<1>2. saved' = [saved EXCEPT ![f] = [u \in Urls |-> Written(@[u], lines[u])]]
  BY <1>1 DEF Output
<1>3. PICK r, s : s = saved' /\ r = [u \in Urls |-> Written(saved[f][u], lines[u])]
  OBVIOUS
<1>4. s = [saved EXCEPT ![f] = r]
  BY <1>2, <1>3
<1>5. /\ \A u \in Urls : s[f][u] = Written(saved[f][u], lines[u])
      /\ \A g \in Titles \ {f} : s[g] = saved[g]
  BY <1>3, <1>4, SavedWith DEF TypeInv
<1> QED BY <1>3, <1>5

(* The numbers of lines.                                                   *)
LEMMA LinesAre ==
  ASSUME TypeInv, NEW f \in Titles, NEW u \in Urls
  PROVE  /\ saved[f][u] \in 0 .. 2 /\ out[Updater][u] \in 0 .. 2
         /\ Under(u) \in Nat
<1>1. saved[f] \in [Urls -> 0 .. 2] /\ out[Updater] \in [Urls -> 0 .. 2]
  BY TypeIs, Constants DEF TypeInv
<1>2. saved[f][u] \in 0 .. 2 /\ out[Updater][u] \in 0 .. 2
  BY <1>1
<1> QED BY <1>2 DEF Under

(* A line goes to the buffer, or with the buffer to the file.              *)
LEMMA WriteFile ==
  ASSUME IndexInv, TypeInv', FileInv, Write(Updater)
  PROVE  FileInv'
<1> USE Constants DEF FileInv, IndexInv
<1>1. /\ UNCHANGED <<heap, new, name, date, created, file, url>>
      /\ pc[Updater] = "write" /\ pc'[Updater] = "match"
  BY TypeIs DEF Write, At, Goto, TypeInv, globals
<1>2. PICK f \in Titles : f = name /\ f = file[Updater] /\ f \in created
  BY <1>1, TypeIs DEF Files, InFile, Opened, TypeInv
<1>3. PICK v \in Urls : v = url[Updater]
  BY TypeIs DEF TypeInv
<1>4. PICK o \in [Urls -> 0 .. 2] : o = out[Updater]
  BY TypeIs DEF TypeInv
<1>5. PICK lines : lines = [o EXCEPT ![v] = IF @ = 2 THEN 2 ELSE @ + 1]
  OBVIOUS
<1>6. /\ lines \in [Urls -> 0 .. 2]
      /\ \A u \in Urls : lines[u] = IF u = v /\ o[u] # 2 THEN o[u] + 1 ELSE o[u]
  <2>1. (IF o[v] = 2 THEN 2 ELSE o[v] + 1) \in 0 .. 2
    OBVIOUS
  <2> QED BY <1>5, <2>1
<1>7. \/ out' = [out EXCEPT ![Updater] = lines] /\ saved' = saved
      \/ out' = [out EXCEPT ![Updater] = NoLines] /\ Output(Updater, lines)
  BY <1>3, <1>4, <1>5, Zenon DEF Write
<1>8. \A g \in Titles : g # f => saved'[g] = saved[g]
  BY <1>2, <1>6, <1>7, OutputMatches
<1>9. \A u \in Urls : Has(u)' <=> Has(u)
  BY <1>1, SameHas
<1>10. ASSUME Matches(f) PROVE Matches(f)'
  <2> SUFFICES ASSUME NEW u \in Urls \ Blacklist
               PROVE  saved'[f][u] + Under(u)' = saved[f][u] + Under(u)
    BY <1>9, <1>10 DEF Matches
  <2>1. /\ saved[f][u] \in 0 .. 2 /\ o[u] \in 0 .. 2
        /\ Under(u) = o[u] + (IF u = v THEN 1 ELSE 0)
        /\ saved[f][u] + Under(u) \in {0, 1}
    BY <1>1, <1>3, <1>4, <1>10, LinesAre DEF Under, Matches
  <2>2. Under(u)' = out'[Updater][u]
    <3>1. out'[Updater] \in [Urls -> 0 .. 2]
      BY DEF TypeInv, TypeOK
    <3>2. out'[Updater][u] \in 0 .. 2
      BY <3>1
    <3> QED BY <1>1, <3>2 DEF Under
  <2>3. lines[u] = Under(u)
    BY <1>6, <2>1
  <2>4. CASE out' = [out EXCEPT ![Updater] = lines] /\ saved' = saved
    BY <2>2, <2>3, <2>4, TypeIs DEF TypeInv
  <2>5. CASE out' = [out EXCEPT ![Updater] = NoLines] /\ Output(Updater, lines)
    <3>1. Under(u)' = 0
      BY <2>2, <2>5, TypeIs, NoLinesIs DEF TypeInv
    <3>2. saved'[f][u] = Written(saved[f][u], lines[u])
      BY <1>2, <1>6, <2>5, OutputMatches
    <3>3. Written(saved[f][u], lines[u]) = saved[f][u] + lines[u]
      BY <2>1, <2>3 DEF Written
    <3> QED BY <2>1, <2>3, <3>1, <3>2, <3>3
  <2> QED BY <1>7, <2>4, <2>5
<1>11. f # Blank
  BY TitleIs DEF Titles
<1>12. date <= date' /\ ~Destroying
  BY <1>1 DEF TypeInv, TypeOK, Destroying
<1>13. Dated'
  BY <1>1, <1>2, <1>10, <1>11, <1>12, CarryDated
<1>14. Files'
  BY <1>1, <1>2, <1>8, InFileFiles DEF InFile
<1> QED BY <1>13, <1>14

(* fclose.                                                                 *)
LEMMA CloseFileFile ==
  ASSUME IndexInv, TypeInv', FileInv, CloseFile(Updater)
  PROVE  FileInv'
<1> USE Constants DEF FileInv, IndexInv
<1>1. /\ UNCHANGED <<heap, new, name, date, created>>
      /\ pc[Updater] = "close" /\ pc'[Updater] = "blacklist"
      /\ out' = [out EXCEPT ![Updater] = NoLines]
  BY TypeIs DEF CloseFile, At, Goto, TypeInv, globals
<1>2. PICK f \in Titles : f = name /\ f = file[Updater] /\ f \in created
  BY <1>1, TypeIs DEF Files, InFile, Opened, TypeInv
<1>3. PICK o \in [Urls -> 0 .. 2] : o = out[Updater] /\ Output(Updater, o)
  BY TypeIs DEF TypeInv, CloseFile
<1>4. /\ \A g \in Titles : g # f => saved'[g] = saved[g]
      /\ \A u \in Urls : saved'[f][u] = Written(saved[f][u], o[u])
  BY <1>2, <1>3, OutputMatches
<1>5. \A u \in Urls : Has(u)' <=> Has(u)
  BY <1>1, SameHas
<1>6. \A u \in Urls : out'[Updater][u] = 0
  BY <1>1, TypeIs, NoLinesIs DEF TypeInv
<1>7. ASSUME Matches(f) PROVE Matches(f)'
  <2> SUFFICES ASSUME NEW u \in Urls \ Blacklist
               PROVE  saved'[f][u] + Under(u)' = saved[f][u] + Under(u)
    BY <1>5, <1>7 DEF Matches
  <2>1. /\ saved[f][u] \in 0 .. 2 /\ o[u] \in 0 .. 2
        /\ Under(u) = o[u]
        /\ saved[f][u] + Under(u) \in {0, 1}
    BY <1>1, <1>3, <1>7, LinesAre DEF Under, Matches
  <2>2. Under(u)' = 0
    BY <1>1, <1>6 DEF Under
  <2>3. Written(saved[f][u], o[u]) = saved[f][u] + o[u]
    BY <2>1 DEF Written
  <2> QED BY <1>4, <2>1, <2>2, <2>3
<1>8. f # Blank
  BY TitleIs DEF Titles
<1>9. date <= date' /\ ~Destroying
  BY <1>1 DEF TypeInv, TypeOK, Destroying
<1>10. Dated'
  BY <1>1, <1>2, <1>7, <1>8, <1>9, CarryDated
<1>11. Files'
  BY <1>1, <1>2, <1>4, <1>6, <1>8 DEF Files, InFile, Opened, Named, Destroying
<1> QED BY <1>10, <1>11

(* add_blacklist.sh takes no line that Matches looks at.                   *)
LEMMA BlacklistFile ==
  ASSUME IndexInv, TypeInv', FileInv, RunBlacklist
  PROVE  FileInv'
<1> USE Constants DEF FileInv, IndexInv
<1>1. /\ UNCHANGED <<heap, new, name, date, created, out, url>>
      /\ pc[Updater] = "blacklist" /\ pc'[Updater] = "idle"
  BY TypeIs DEF RunBlacklist, At, Goto, TypeInv, globals
<1>2. PICK f \in Titles : f = name /\ f \in created
  BY <1>1, TypeIs DEF Files, Opened, TypeInv
<1>3. PICK r : r = [u \in Urls |-> IF u \in Blacklist THEN 0 ELSE saved[f][u]]
  OBVIOUS
<1>4. saved' = [saved EXCEPT ![f] = r]
  BY <1>2, <1>3 DEF RunBlacklist
<1>5. /\ \A g \in Titles : g # f => saved'[g] = saved[g]
      /\ \A u \in Urls \ Blacklist : saved'[f][u] = saved[f][u]
  BY <1>3, <1>4, TypeIs DEF TypeInv
<1>6. \A u \in Urls : Under(u)' = Under(u) /\ (Has(u)' <=> Has(u))
  BY <1>1, SameHas DEF Under
<1>7. Matches(f) => Matches(f)'
  BY <1>5, <1>6 DEF Matches
<1>8. f # Blank
  BY TitleIs DEF Titles
<1>9. date <= date' /\ ~Destroying
  BY <1>1 DEF TypeInv, TypeOK, Destroying
<1>10. Dated'
  BY <1>1, <1>2, <1>7, <1>8, <1>9, CarryDated
<1>11. Files'
  BY <1>1, <1>2, <1>5, <1>8 DEF Files, InFile, Opened, Named, Destroying
<1> QED BY <1>10, <1>11

LEMMA StepFile ==
  ASSUME Workers = {}, RestartMax = 0, IndexInv, TypeInv', AloneInv, FileInv, [Next]_vars
  PROVE  FileInv'
<1> USE DEF IndexInv
<1>1. CASE NewDay \/ Undefined \/ UNCHANGED vars
  BY <1>1, ClockFile
<1>2. ~Restart
  BY TypeIs DEF Restart, TypeInv
<1>3. CASE Wake \/ Stamp \/ Check \/ DestroyBucket
  BY <1>3, CheckFile, StampFile
<1>4. CASE Collect \/ DestroyReset \/ RunBlacklist
  BY <1>4, CollectFile, ResetFile, BlacklistFile
<1>5. CASE \E p \in Procs : UpdateStep(p)
  <2>1. UpdateStep(Updater)
    BY <1>5, OneThread
  <2>2. CASE Open(Updater) \/ OpenBlank(Updater) \/ FreedUsed(Updater)
    BY <1>1, <2>2, OpenFile DEF OpenBlank, FreedUsed
  <2>3. CASE \/ Match(Updater) \/ MatchEnds(Updater)
             \/ SearchHead(Updater) \/ Compare(Updater) \/ Walk(Updater)
    BY <2>3, SearchFile
  <2>4. CASE Alloc(Updater) \/ Link(Updater)
    BY <2>4, PushFile
  <2>5. CASE Write(Updater) \/ CloseFile(Updater)
    BY <2>5, WriteFile, CloseFileFile
  <2> QED BY <2>1, <2>2, <2>3, <2>4, <2>5 DEF UpdateStep
<1> QED BY <1>1, <1>2, <1>3, <1>4, <1>5 DEF Next, UpdaterStep

LEMMA InitFile == Init => FileInv
<1> SUFFICES ASSUME Init PROVE FileInv
  OBVIOUS
<1> USE Constants
<1>1. /\ pc[Updater] = "idle" /\ created = {} /\ name = Blank /\ date = 1
      /\ \A f \in Titles, u \in Urls : saved[f][u] = 0
      /\ \A u \in Urls : out[Updater][u] = 0
  BY NoLinesIs DEF Init
<1>2. PICK s \in Days : s = 1
  OBVIOUS
<1>3. OfDay(s)
  BY <1>1, <1>2 DEF OfDay
<1>4. Files
  BY <1>1 DEF Files, InFile, Opened, Named, Destroying
<1> QED BY <1>3, <1>4 DEF FileInv, Dated

(* With one updater and no restart, the index at rest is the title file of *)
(* its day, if no other day of the calendar has that title: each item that *)
(* is not blacklisted has one line if it is in the index, and none else;   *)
(* and it is in the index once.                                            *)
THEOREM IndexMatchesFile ==
  ASSUME Workers = {}, RestartMax = 0
  PROVE  Spec => []IndexIsFile
<1>1. Init => FileInv
  BY InitFile
<1>2. IndexInv /\ AloneInv /\ (IndexInv /\ AloneInv)' /\ FileInv /\ [Next]_vars => FileInv'
  BY StepFile DEF IndexInv
<1>3. IndexInv /\ AloneInv /\ FileInv => IndexIsFile
  <2> SUFFICES ASSUME IndexInv, AloneInv, FileInv, pc[Updater] = "idle", OwnTitle(name),
                      NEW u \in Urls
               PROVE  /\ Cardinality({c \in Indexed : heap[c].url = u}) <= 1
                      /\ u \notin Blacklist =>
                           saved[name][u] = Cardinality({c \in Indexed : heap[c].url = u})
    BY DEF IndexIsFile, At
  <2> USE Constants DEF IndexInv, AloneInv, FileInv
  <2>1. new[Updater] = Null /\ ~Destroying
    BY EmptyHands DEF Destroying
  <2>2. Indexed = {c \in Cells : Live(c)}
    BY <2>1, LiveIsIndexed
  <2> DEFINE C == {c \in Indexed : heap[c].url = u}
  <2>3. Cardinality(C) = IF Has(u) THEN 1 ELSE 0
    <3>1. CASE Has(u)
      <4>1. PICK c \in Cells : Live(c) /\ heap[c].url = u
        BY <3>1 DEF Has
      <4>2. C = {c}
        BY <2>2, <4>1 DEF Unique
      <4>3. Cardinality({c}) = 1
        BY FS_Singleton
      <4> QED BY <3>1, <4>2, <4>3
    <3>2. CASE ~Has(u)
      <4>1. C = {}
        BY <2>1, <2>2, <3>2 DEF Has
      <4>2. Cardinality({}) = 0
        BY FS_EmptySet
      <4> QED BY <3>2, <4>1, <4>2
    <3> QED BY <3>1, <3>2
  <2>4. ASSUME u \notin Blacklist PROVE saved[name][u] = IF Has(u) THEN 1 ELSE 0
    <3>1. PICK d \in Days : Title(d) = name
      BY OwnIs
    <3>2. PICK f \in Titles : f = name /\ f # Blank
      BY <3>1, TitleIs
    <3>3. PICK s \in Days : OfDay(s)
      BY DEF Dated
    <3>4. f = Title(s) /\ f \in created
      BY <3>2, <3>3 DEF OfDay, Files
    <3>5. Matches(f)
      BY <2>1, <3>2, <3>3, <3>4 DEF OfDay
    <3>6. Under(u) = 0 /\ saved[f][u] \in 0 .. 2
      BY LinesAre DEF Under, Files, InFile
    <3> QED BY <2>4, <3>2, <3>5, <3>6 DEF Matches
  <2> QED BY <2>3, <2>4
<1> QED BY <1>1, <1>2, <1>3, AloneInvariant, PTL DEF Spec
=====
