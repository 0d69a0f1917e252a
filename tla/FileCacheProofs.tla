-------------------------- MODULE FileCacheProofs --------------------------
(***************************************************************************)
(* Machine-checked proofs about FileCache, for any number of threads, files *)
(* and versions and any size of the cache.                                  *)
(***************************************************************************)
EXTENDS FileCache, SequenceTheorems, FiniteSetTheorems, TLAPS

\* What a request found on the disk is a version of a file; versions are never empty.
RequestInv ==
    /\ pc \in [Threads -> PCs]
    /\ disk \in [Files -> Seq(Stats)] /\ \A f \in Files : disk[f] # <<>>
    /\ stat \in [Threads -> Stats]
-----------------------------------------------------------------------------
\* The last version of a file is one of its versions.
LEMMA LastVersion ==
    ASSUME NEW s \in Seq(Stats), s # <<>>
    PROVE  Len(s) \in Nat \ {0} /\ Last(s) = s[Len(s)] /\ Last(s) \in Stats
  BY ElementOfSeq, EmptySeq DEF Last

LEMMA RequestInit == Init => RequestInv
<1> SUFFICES ASSUME Init PROVE RequestInv
  OBVIOUS
<1>1. PICK size \in [Files -> Sizes] :
        disk = [f \in Files |-> <<[mtime |-> 0, size |-> size[f]]>>]
  BY DEF Init
<1>2. \A f \in Files : <<[mtime |-> 0, size |-> size[f]]>> \in Seq(Stats)
  BY DEF Stats
<1>3. disk \in [Files -> Seq(Stats)] /\ \A f \in Files : disk[f] # <<>>
  BY <1>1, <1>2
<1> QED
  BY <1>3, FileCacheAssumption DEF Init, RequestInv, PCs, Stats, Sizes

LEMMA RequestNext == RequestInv /\ [Next]_vars => RequestInv'
<1> SUFFICES ASSUME RequestInv, [Next]_vars PROVE RequestInv'
  OBVIOUS
<1> USE DEF RequestInv, shared, locals
<1>1. ASSUME NEW t \in Threads, NEW f \in Files, Request(t, f) PROVE RequestInv'
  <2>1. Last(disk[f]) \in Stats
    BY LastVersion
  <2> QED
    BY <1>1, <2>1 DEF Request, Goto, PCs
<1>2. ASSUME NEW f \in Files, Edit(f) PROVE RequestInv'
  <2>1. PICK size \in Sizes, mtime \in {Last(disk[f]).mtime, Last(disk[f]).mtime + 1} :
          disk' = [disk EXCEPT ![f] = Append(@, [mtime |-> mtime, size |-> size])]
    BY <1>2 DEF Edit
  <2>2. [mtime |-> mtime, size |-> size] \in Stats
    <3>1. Last(disk[f]) \in Stats
      BY LastVersion
    <3>2. mtime \in Nat
      BY <2>1, <3>1 DEF Stats
    <3> QED
      BY <3>2 DEF Stats
  <2>3. /\ Append(disk[f], [mtime |-> mtime, size |-> size]) \in Seq(Stats)
        /\ Append(disk[f], [mtime |-> mtime, size |-> size]) # <<>>
    BY <2>2
  <2> QED
    BY <1>2, <2>1, <2>3 DEF Edit
<1>3. ASSUME NEW t \in Threads,
             \/ Check(t) \/ Compare(t) \/ Erase(t) \/ CheckAbsent(t) \/ CheckRoom(t)
             \/ TryLock(t) \/ Publish(t) \/ Charge(t) \/ LoadFails(t) \/ LoadBuffer(t)
             \/ Lookup(t) \/ Fetch(t) \/ SendBuffer(t) \/ SendFails(t)
      PROVE  RequestInv'
  BY <1>3 DEF Check, Compare, Erase, CheckAbsent, CheckRoom, TryLock, Publish, Charge,
     LoadFails, LoadBuffer, Lookup, Fetch, SendBuffer, SendFails, Goto, Return, Crash, PCs
<1>4. CASE UNCHANGED vars
  BY <1>4 DEF vars
<1> QED
  BY <1>1, <1>2, <1>3, <1>4 DEF Next, Step, Dead
-----------------------------------------------------------------------------
(* The lock *)

LockInv == RequestInv /\ HolderLoads

\* Every way into and out of the loading code locks and unlocks; nothing else does.
LEMMA LockStep ==
    ASSUME LockInv, NEW t \in Threads, Step(t)
    PROVE  HolderLoads'
<1> USE FileCacheAssumption DEF LockInv, RequestInv, HolderLoads, shared, locals
<1>1. CASE TryLock(t) \/ Publish(t) \/ Charge(t)
  BY <1>1 DEF TryLock, Publish, Charge, Goto
<1>2. CASE LoadFails(t)
  BY <1>2 DEF LoadFails, Return, Goto, Unlocked
<1>3. CASE LoadBuffer(t)
  BY <1>3 DEF LoadBuffer, Crash, Goto
<1>4. CASE \/ \E f \in Files : Request(t, f)
           \/ Check(t) \/ Compare(t) \/ Erase(t) \/ CheckAbsent(t) \/ CheckRoom(t)
           \/ Lookup(t) \/ Fetch(t) \/ SendBuffer(t) \/ SendFails(t)
  BY <1>4 DEF Request, Check, Compare, Erase, CheckAbsent, CheckRoom, Lookup, Fetch,
     SendBuffer, SendFails, Goto, Return, Crash
<1> QED
  BY <1>1, <1>2, <1>3, <1>4 DEF Step

LEMMA LockNext == LockInv /\ [Next]_vars => LockInv'
<1> SUFFICES ASSUME LockInv, [Next]_vars PROVE LockInv'
  OBVIOUS
<1>1. RequestInv'
  BY RequestNext DEF LockInv
<1>2. CASE \E t \in Threads : Step(t)
  BY <1>1, <1>2, LockStep DEF LockInv
<1>3. CASE UNCHANGED <<mutex, pc>>
  BY <1>1, <1>3 DEF LockInv, HolderLoads
<1> QED
  BY <1>2, <1>3 DEF Next, Dead, Edit, vars, shared, locals

LEMMA LockInit == Init => LockInv
  BY RequestInit, FileCacheAssumption DEF Init, LockInv, HolderLoads

\* file_cache_mutex is held by exactly the thread that loads, whichever of the early
\* returns of respond_http ends the loading.
THEOREM LockCorrect == Spec => []HolderLoads
<1>1. LockInv => HolderLoads
  BY DEF LockInv
<1> QED
  BY <1>1, LockInit, LockNext, PTL DEF Spec
-----------------------------------------------------------------------------
(* The bound of the cache *)

\* Threads between the check for room and the charge.
Charging == {"lock", "publish", "charge"}
Passed == {t \in Threads : pc[t] \in Charging}

\* What is left, less what the threads past the check may still take, is more than
\* what all threads could take.
RoomLeft ==
    /\ remaining \in Int
    /\ remaining - Cardinality(Passed) * MaxSize > -(Cardinality(Threads) * MaxSize)

RoomInv == RequestInv /\ RoomLeft

\* How the set of threads past the check changes when one thread moves.
LEMMA PassedMoves ==
    ASSUME RequestInv, NEW t \in Threads, NEW label \in PCs, Goto(t, label)
    PROVE  /\ Cardinality(Passed) \in Nat /\ Cardinality(Passed)' \in Nat
           /\ Cardinality(Passed)' <= Cardinality(Threads)
           /\ label \notin Charging \/ pc[t] \in Charging =>
                Cardinality(Passed)' <= Cardinality(Passed)
           /\ label \notin Charging /\ pc[t] \in Charging =>
                Cardinality(Passed)' = Cardinality(Passed) - 1
<1>1. IsFiniteSet(Passed) /\ IsFiniteSet(Passed')
  BY FS_Subset, FileCacheAssumption DEF Passed
<1>2. Cardinality(Passed') <= Cardinality(Threads)
  BY FS_Subset, FileCacheAssumption DEF Passed
<1>3. label \notin Charging => Passed' = Passed \ {t}
  BY DEF Passed, Goto, RequestInv
<1>4. /\ Cardinality(Passed) \in Nat /\ Cardinality(Passed') \in Nat
      /\ Cardinality(Passed \ {t}) =
           IF t \in Passed THEN Cardinality(Passed) - 1 ELSE Cardinality(Passed)
  BY <1>1, FS_CardinalityType, FS_RemoveElement
<1>5. t \in Passed <=> pc[t] \in Charging
  BY DEF Passed
<1>6. label \notin Charging =>
        Cardinality(Passed') = IF pc[t] \in Charging THEN Cardinality(Passed) - 1
                               ELSE Cardinality(Passed)
  BY <1>3, <1>4, <1>5
<1>7. label \in Charging /\ pc[t] \in Charging => Passed' = Passed
  BY DEF Passed, Goto, RequestInv
<1> QED
  BY <1>2, <1>4, <1>6, <1>7

\* Fewer threads past the check: at least as much is left.
LEMMA RoomKept ==
    ASSUME NEW r \in Int, NEW n \in Nat, NEW m \in Nat, NEW all \in Nat,
           r - n * MaxSize > -(all * MaxSize), m <= n
    PROVE  r - m * MaxSize > -(all * MaxSize)
<1>1. PICK d \in Nat : n = m + d
  <2> n - m \in Nat /\ n = m + (n - m)
    OBVIOUS
  <2> QED
    OBVIOUS
<1>2. n * MaxSize = m * MaxSize + d * MaxSize
  BY <1>1, FileCacheAssumption
<1>3. d * MaxSize \in Nat /\ m * MaxSize \in Nat /\ all * MaxSize \in Nat
  BY FileCacheAssumption
<1> QED
  BY <1>2, <1>3

\* One of them takes at most the size of the largest file.
LEMMA RoomTaken ==
    ASSUME NEW r \in Int, NEW s \in 0 .. MaxSize, NEW n \in Nat, NEW all \in Nat,
           r - n * MaxSize > -(all * MaxSize)
    PROVE  (r - s) - (n - 1) * MaxSize > -(all * MaxSize)
<1>1. (n - 1) * MaxSize = n * MaxSize - MaxSize
  BY FileCacheAssumption
<1>2. n * MaxSize \in Int /\ all * MaxSize \in Int
  BY FileCacheAssumption
<1> QED
  BY <1>1, <1>2, FileCacheAssumption

\* Passing the check needs room; only a thread that passed it takes any, once.
LEMMA RoomStep ==
    ASSUME RoomInv, NEW t \in Threads, Step(t)
    PROVE  RoomLeft'
<1>1. /\ Cardinality(Threads) \in Nat /\ Cardinality(Passed) \in Nat
      /\ MaxSize \in Nat \ {0} /\ remaining \in Int /\ RoomLeft
  <2>1. IsFiniteSet(Passed)
    BY FS_Subset, FileCacheAssumption DEF Passed
  <2> QED
    BY <2>1, FS_CardinalityType, FileCacheAssumption DEF RoomInv, RoomLeft
<1>2. stat[t].size \in 1 .. MaxSize
  BY DEF RoomInv, RequestInv, Stats, Sizes
<1>3. CASE Charge(t)
  <2>1. Cardinality(Passed)' = Cardinality(Passed) - 1
    BY <1>3, PassedMoves DEF Charge, RoomInv, PCs, Charging
  <2>2. remaining' = remaining - stat[t].size
    BY <1>3 DEF Charge, DataLength
  <2>3. (remaining - stat[t].size) - (Cardinality(Passed) - 1) * MaxSize
          > -(Cardinality(Threads) * MaxSize)
    BY <1>1, <1>2, RoomTaken DEF RoomLeft
  <2> QED
    BY <1>1, <1>2, <2>1, <2>2, <2>3 DEF RoomLeft
<1>4. CASE CheckRoom(t) /\ HasRoom(t)
  <2>1. Cardinality(Passed)' \in Nat /\ Cardinality(Passed)' <= Cardinality(Threads)
    BY <1>4, PassedMoves DEF CheckRoom, RoomInv, PCs
  <2>2. remaining' = remaining /\ remaining > 0
    BY <1>1, <1>2, <1>4 DEF CheckRoom, HasRoom, shared
  <2>3. Cardinality(Threads) * MaxSize \in Nat
    BY <1>1
  <2>4. remaining - Cardinality(Threads) * MaxSize > -(Cardinality(Threads) * MaxSize)
    BY <1>1, <2>2, <2>3
  <2>5. remaining - Cardinality(Passed)' * MaxSize > -(Cardinality(Threads) * MaxSize)
    BY <1>1, <2>1, <2>4, RoomKept
  <2> QED
    BY <1>1, <2>2, <2>5 DEF RoomLeft
<1>5. ASSUME UNCHANGED <<remaining, pc>> PROVE RoomLeft'
  BY <1>1, <1>5 DEF RoomLeft, Passed
<1>6. ASSUME NEW label \in PCs, label \notin Charging \/ pc[t] \in Charging, Goto(t, label),
             UNCHANGED remaining
      PROVE  RoomLeft'
  <2>1. Cardinality(Passed)' \in Nat /\ Cardinality(Passed)' <= Cardinality(Passed)
    BY <1>6, PassedMoves DEF RoomInv
  <2>2. remaining - Cardinality(Passed)' * MaxSize > -(Cardinality(Threads) * MaxSize)
    BY <1>1, <2>1, RoomKept DEF RoomLeft
  <2> QED
    BY <1>1, <1>6, <2>2 DEF RoomLeft
<1>7. CASE Check(t) \/ Compare(t) \/ Erase(t) \/ CheckAbsent(t)
  BY <1>5, <1>6, <1>7
  DEF Check, Compare, Erase, CheckAbsent, Crash, PCs, Charging, shared, locals
<1>8. CASE (CheckRoom(t) /\ ~HasRoom(t)) \/ LoadFails(t) \/ LoadBuffer(t)
  BY <1>5, <1>6, <1>8
  DEF CheckRoom, LoadFails, LoadBuffer, Crash, Return, PCs, Charging, shared, locals
<1>9. CASE Lookup(t) \/ Fetch(t) \/ SendBuffer(t) \/ SendFails(t)
  BY <1>5, <1>6, <1>9
  DEF Lookup, Fetch, SendBuffer, SendFails, Crash, Return, PCs, Charging, shared, locals
<1>10. ASSUME NEW f \in Files, Request(t, f) PROVE RoomLeft'
  BY <1>6, <1>10 DEF Request, PCs, Charging, shared
<1>11. CASE TryLock(t) \/ Publish(t)
  BY <1>6, <1>11 DEF TryLock, Publish, PCs, Charging
<1> QED
  BY <1>3, <1>4, <1>7, <1>8, <1>9, <1>10, <1>11 DEF Step

LEMMA RoomNext == RoomInv /\ [Next]_vars => RoomInv'
<1> SUFFICES ASSUME RoomInv, [Next]_vars PROVE RoomInv'
  OBVIOUS
<1>1. RequestInv'
  BY RequestNext DEF RoomInv
<1>2. CASE \E t \in Threads : Step(t)
  BY <1>1, <1>2, RoomStep DEF RoomInv
<1>3. CASE UNCHANGED <<remaining, pc>>
  BY <1>1, <1>3 DEF RoomInv, RoomLeft, Passed
<1> QED
  BY <1>2, <1>3 DEF Next, Dead, Edit, vars, shared, locals

LEMMA RoomInit == Init => RoomInv
<1> SUFFICES ASSUME Init PROVE RoomInv
  OBVIOUS
<1>1. Passed = {} /\ remaining = Budget
  BY DEF Passed, Charging, Init
<1>2. Cardinality(Threads) \in Nat \ {0}
  BY FileCacheAssumption, FS_CardinalityType, FS_EmptySet
<1>3. Cardinality(Threads) * MaxSize > 0
  BY <1>2, FileCacheAssumption
<1> QED
  BY <1>1, <1>2, <1>3, RequestInit, FS_EmptySet, FileCacheAssumption DEF RoomInv, RoomLeft

\* However many threads pass the check for room before one of them takes it, the cache
\* outgrows its size by less than one file for each thread.
THEOREM BoundCorrect == Spec => []CacheBounded
<1>1. RoomInv => CacheBounded
  <2> SUFFICES ASSUME RoomInv PROVE CacheBounded
    OBVIOUS
  <2>1. IsFiniteSet(Passed)
    BY FS_Subset, FileCacheAssumption DEF Passed
  <2>2. Cardinality(Passed) \in Nat /\ Cardinality(Threads) \in Nat
    BY <2>1, FS_CardinalityType, FileCacheAssumption
  <2>3. Cardinality(Passed) * MaxSize \in Nat /\ Cardinality(Threads) * MaxSize \in Nat
    BY <2>2, FileCacheAssumption
  <2> QED
    BY <2>2, <2>3 DEF RoomInv, RoomLeft, CacheBounded
<1> QED
  BY <1>1, RoomInit, RoomNext, PTL DEF Spec
-----------------------------------------------------------------------------
(* Type correctness *)

\* A response has a file; what the cache and a response refer to was allocated; an
\* entry has as many buffers as its size says, and what is sent is one of them.
ShapeInv ==
    /\ \A f \in Files : Len(disk[f]) \in 1 .. MaxEdits
    /\ \A i \in 1 .. Len(heap) : Len(heap[i].data) = heap[i].size
    /\ file_cache \in [Files -> 0 .. Len(heap)]
    /\ entry \in [Threads -> 0 .. Len(heap)]
    /\ \A t \in Threads :
         /\ pc[t] = "idle" => entry[t] = Absent
         /\ pc[t] # "idle" => route[t] \in Files
         /\ route[t] = NoFile => sent[t] = {}
         /\ pc[t] \in {"charge", "load", "send"} => entry[t] # Absent
         /\ pc[t] = "send" => offset[t] <= heap[entry[t]].size

TypeInv == TypeOK /\ ShapeInv

LEMMA NewEntry ==
    ASSUME NEW n \in Sizes, NEW m \in Nat
    PROVE  LET e == [size |-> n, modified |-> m, data |-> [i \in 1 .. n |-> Garbage]] IN
           e \in CachedFiles /\ Len(e.data) = n
<1>1. [i \in 1 .. n |-> Garbage] \in Seq(0 .. MaxEdits) /\ Len([i \in 1 .. n |-> Garbage]) = n
  <2>1. n \in Nat /\ Garbage \in 0 .. MaxEdits
    BY FileCacheAssumption DEF Sizes, Garbage
  <2>2. [i \in 1 .. n |-> Garbage] \in [1 .. n -> 0 .. MaxEdits]
    BY <2>1
  <2>3. [i \in 1 .. n |-> Garbage] \in Seq(0 .. MaxEdits)
    BY <2>1, <2>2, SeqDef
  <2> QED
    BY <2>1, <2>3
<1> QED
  BY <1>1 DEF CachedFiles

LEMMA TypeInit == Init => TypeInv
<1> SUFFICES ASSUME Init PROVE TypeInv
  OBVIOUS
<1> USE FileCacheAssumption
<1>1. RequestInv
  BY RequestInit
<1>2. PICK size \in [Files -> Sizes] :
        disk = [f \in Files |-> <<[mtime |-> 0, size |-> size[f]]>>]
  BY DEF Init
<1>3. \A f \in Files : Len(disk[f]) = 1
  BY <1>2
<1>4. heap = <<>> /\ heap \in Seq(CachedFiles) /\ Len(heap) = 0
  BY DEF Init
<1>5. TypeOK
  BY <1>1, <1>4 DEF Init, TypeOK, RequestInv, Absent, Sizes
<1>6. ShapeInv
  BY <1>3, <1>4 DEF Init, ShapeInv, Absent
<1> QED
  BY <1>5, <1>6 DEF TypeInv

\* What putting an unfilled entry into the cache does.
LEMMA PublishDoes ==
    ASSUME TypeInv, NEW t \in Threads, Publish(t)
    PROVE  LET n == Len(heap) + 1 IN
           /\ heap' \in Seq(CachedFiles) /\ Len(heap') = n
           /\ \A i \in 1 .. Len(heap) : heap'[i] = heap[i]
           /\ heap'[n].modified = stat[t].mtime /\ Len(heap'[n].data) = heap'[n].size
           /\ \A j \in 1 .. heap'[n].size : heap'[n].data[j] = Garbage
           /\ file_cache' = [file_cache EXCEPT ![route[t]] = n]
           /\ entry' = [entry EXCEPT ![t] = n] /\ route[t] \in Files
<1> DEFINE e == [size |-> stat[t].size, modified |-> stat[t].mtime,
                 data |-> [i \in 1 .. stat[t].size |-> Garbage]]
<1>1. stat[t].size \in Sizes /\ stat[t].mtime \in Nat
  BY DEF TypeInv, TypeOK, Stats
<1>2. e \in CachedFiles /\ Len(e.data) = e.size
  BY <1>1, NewEntry
<1>3. heap' = Append(heap, e) /\ heap \in Seq(CachedFiles)
  BY DEF Publish, TypeInv, TypeOK
<1>4. e.modified = stat[t].mtime /\ \A j \in 1 .. e.size : e.data[j] = Garbage
  OBVIOUS
<1> HIDE DEF e
<1>5. /\ heap' \in Seq(CachedFiles) /\ Len(heap') = Len(heap) + 1
      /\ \A i \in 1 .. Len(heap) : heap'[i] = heap[i]
      /\ heap'[Len(heap) + 1] = e
  BY <1>2, <1>3
<1> QED
  BY <1>2, <1>4, <1>5 DEF Publish, TypeInv, ShapeInv

\* What reading one buffer of the file does to the entries: one buffer of the thread's
\* own takes the version the file has now.
LEMMA LoadWrites ==
    ASSUME TypeInv, NEW t \in Threads, LoadBuffer(t), heap' # heap
    PROVE  /\ entry[t] \in 1 .. Len(heap) /\ offset[t] \in 1 .. heap[entry[t]].size
           /\ heap' \in Seq(CachedFiles) /\ Len(heap') = Len(heap)
           /\ \A i \in 1 .. Len(heap) :
                /\ heap'[i].size = heap[i].size /\ heap'[i].modified = heap[i].modified
                /\ Len(heap'[i].data) = Len(heap[i].data)
                /\ \A j \in 1 .. heap[i].size :
                     heap'[i].data[j] = IF i = entry[t] /\ j = offset[t]
                                        THEN Len(disk[route[t]]) ELSE heap[i].data[j]
<1> DEFINE e == entry[t]
           o == offset[t]
           v == Len(disk[route[t]])
<1>1. route[t] \in Files /\ e \in 1 .. Len(heap) /\ heap \in Seq(CachedFiles)
  BY DEF TypeInv, TypeOK, ShapeInv, LoadBuffer, Absent
<1>2. /\ heap[e] \in CachedFiles /\ heap[e].data \in Seq(0 .. MaxEdits)
      /\ Len(heap[e].data) = heap[e].size /\ heap[e].size \in Sizes /\ o \in Sizes
  <2>1. heap[e] \in CachedFiles
    BY <1>1, ElementOfSeq
  <2>2. Len(heap[e].data) = heap[e].size /\ o \in Sizes
    BY <1>1 DEF TypeInv, TypeOK, ShapeInv
  <2> QED
    BY <2>1, <2>2 DEF CachedFiles
<1>3. v \in 0 .. MaxEdits
  BY <1>1, FileCacheAssumption DEF TypeInv, ShapeInv
<1>4. Last(disk[route[t]]).size \in Sizes
  <2>1. disk[route[t]] \in Seq(Stats) /\ Len(disk[route[t]]) # 0
    BY <1>1, FileCacheAssumption DEF TypeInv, TypeOK, ShapeInv
  <2>2. Last(disk[route[t]]) \in Stats
    BY <2>1, EmptySeq, LastVersion
  <2> QED
    BY <2>2 DEF Stats
<1>5. /\ heap' = [heap EXCEPT ![e].data[o] = v]
      /\ ~(o > heap[e].size /\ o <= Last(disk[route[t]]).size) /\ ~(o > Last(disk[route[t]]).size)
  BY DEF LoadBuffer, Crash
<1>6. o \in 1 .. heap[e].size
  BY <1>2, <1>4, <1>5 DEF Sizes
<1> DEFINE d == [heap[e].data EXCEPT ![o] = v]
           new == [heap[e] EXCEPT !.data = d]
<1>7. /\ d \in Seq(0 .. MaxEdits) /\ Len(d) = Len(heap[e].data)
      /\ \A j \in 1 .. heap[e].size : d[j] = IF j = o THEN v ELSE heap[e].data[j]
  BY <1>2, <1>3, <1>6, ExceptSeq
<1>8. heap' = [heap EXCEPT ![e] = new]
  BY <1>5
<1> HIDE DEF d
<1>9. /\ new \in CachedFiles /\ new.size = heap[e].size
      /\ new.modified = heap[e].modified /\ new.data = d
  BY <1>2, <1>7 DEF CachedFiles
<1> HIDE DEF new
<1>10. /\ heap' \in Seq(CachedFiles) /\ Len(heap') = Len(heap)
       /\ \A i \in 1 .. Len(heap) : heap'[i] = IF i = e THEN new ELSE heap[i]
  BY <1>1, <1>8, <1>9, ExceptSeq
<1> QED
  BY <1>1, <1>6, <1>7, <1>9, <1>10

\* What an allocated entry looks like.
LEMMA Entries ==
    ASSUME TypeInv, NEW i \in 1 .. Len(heap)
    PROVE  /\ heap[i] \in CachedFiles /\ heap[i].size \in Sizes /\ heap[i].modified \in Nat
           /\ Len(heap[i].data) = heap[i].size
           /\ \A j \in 1 .. heap[i].size : heap[i].data[j] \in 0 .. MaxEdits
<1>1. heap \in Seq(CachedFiles) /\ Len(heap[i].data) = heap[i].size
  BY DEF TypeInv, TypeOK, ShapeInv
<1>2. heap[i] \in CachedFiles
  BY <1>1, ElementOfSeq
<1>3. \A j \in 1 .. Len(heap[i].data) : heap[i].data[j] \in 0 .. MaxEdits
  BY <1>2, ElementOfSeq DEF CachedFiles
<1> QED
  BY <1>1, <1>2, <1>3 DEF CachedFiles

\* The steps of a response that write nothing but its own locals, or erase an entry.
LEMMA TypeReads ==
    ASSUME TypeInv, NEW t \in Threads,
           \/ Check(t) \/ Compare(t) \/ Erase(t) \/ CheckAbsent(t) \/ CheckRoom(t)
           \/ TryLock(t) \/ LoadFails(t) \/ Lookup(t) \/ SendFails(t)
    PROVE  TypeInv'
<1>1. UNCHANGED <<disk, heap, route, stat, sent, remaining>>
  BY DEF Check, Compare, Erase, CheckAbsent, CheckRoom, TryLock, LoadFails, Lookup, SendFails, Crash,
     shared, locals
<1>2. /\ file_cache' = file_cache \/ file_cache' = [file_cache EXCEPT ![route[t]] = Absent]
      /\ mutex' \in {mutex, NoThread, t} /\ running' \in {running, FALSE}
  BY DEF Check, Compare, Erase, CheckAbsent, CheckRoom, TryLock, LoadFails, Lookup, SendFails, Crash,
     Unlocked, shared, locals
<1>3. \/ UNCHANGED <<pc, entry, offset>>
      \/ /\ \E label \in PCs \ {"idle", "charge", "load", "send"} : Goto(t, label)
         /\ pc[t] # "idle" /\ UNCHANGED <<entry, offset>>
      \/ Return(t) /\ pc[t] # "idle"
  BY DEF Check, Compare, Erase, CheckAbsent, CheckRoom, TryLock, LoadFails, Lookup, SendFails, Crash,
     PCs, locals
<1>4. TypeOK'
  <2>1. TypeOK /\ 1 \in Sizes /\ Absent \in Nat
    BY FileCacheAssumption DEF TypeInv, Sizes, Absent
  <2>2. pc' \in [Threads -> PCs] /\ entry' \in [Threads -> Nat] /\ offset' \in [Threads -> Sizes]
    <3>1. CASE UNCHANGED <<pc, entry, offset>>
      BY <2>1, <3>1 DEF TypeOK
    <3>2. CASE \E label \in PCs : Goto(t, label) /\ UNCHANGED <<entry, offset>>
      BY <2>1, <3>2 DEF TypeOK, Goto
    <3>3. CASE Return(t)
      BY <2>1, <3>3 DEF TypeOK, Goto, Return, PCs
    <3> QED
      BY <1>3, <3>1, <3>2, <3>3
  <2> QED
    BY <1>1, <1>2, <2>1, <2>2 DEF TypeOK
<1>5. ShapeInv'
  <2>1. TypeOK /\ ShapeInv /\ Absent \in 0 .. Len(heap)
    <3>1. Len(heap) \in Nat
      BY DEF TypeInv, TypeOK
    <3> QED
      BY <3>1 DEF TypeInv, Absent
  <2>2. file_cache' \in [Files -> 0 .. Len(heap)]
    BY <1>2, <2>1 DEF ShapeInv
  <2>3. entry' \in [Threads -> 0 .. Len(heap)]
    BY <1>3, <2>1 DEF ShapeInv, Return
  <2>4. ASSUME NEW u \in Threads
        PROVE  /\ pc'[u] = "idle" => entry'[u] = Absent
               /\ pc'[u] # "idle" => route[u] \in Files
               /\ pc'[u] \in {"charge", "load", "send"} => entry'[u] # Absent
               /\ pc'[u] = "send" => offset'[u] <= heap[entry'[u]].size
    BY <1>3, <2>1 DEF ShapeInv, TypeOK, Return, Goto
  <2> QED
    BY <1>1, <2>1, <2>2, <2>3, <2>4 DEF ShapeInv
<1> QED
  BY <1>4, <1>5 DEF TypeInv

LEMMA TypeRequest ==
    ASSUME TypeInv, NEW t \in Threads, NEW f \in Files, Request(t, f)
    PROVE  TypeInv'
<1>1. Last(disk[f]) \in Stats
  <2>1. disk[f] \in Seq(Stats) /\ Len(disk[f]) # 0
    BY FileCacheAssumption DEF TypeInv, TypeOK, ShapeInv
  <2> QED
    BY <2>1, EmptySeq, LastVersion
<1>2. TypeOK'
  BY <1>1 DEF TypeInv, TypeOK, Request, Goto, shared, PCs
<1>3. ShapeInv'
  <2>1. /\ route' = [route EXCEPT ![t] = f] /\ sent' = [sent EXCEPT ![t] = {}]
        /\ pc' = [pc EXCEPT ![t] = "check"] /\ UNCHANGED <<disk, heap, file_cache, entry, offset>>
    BY DEF Request, Goto, shared
  <2>2. TypeOK /\ ShapeInv /\ f # NoFile
    BY FileCacheAssumption DEF TypeInv
  <2>3. ASSUME NEW u \in Threads
        PROVE  /\ pc'[u] = "idle" => entry[u] = Absent
               /\ pc'[u] # "idle" => route'[u] \in Files
               /\ route'[u] = NoFile => sent'[u] = {}
               /\ pc'[u] \in {"charge", "load", "send"} => entry[u] # Absent
               /\ pc'[u] = "send" => offset[u] <= heap[entry[u]].size
    BY <2>1, <2>2 DEF ShapeInv, TypeOK
  <2> QED
    BY <2>1, <2>2, <2>3 DEF ShapeInv
<1> QED
  BY <1>2, <1>3 DEF TypeInv

LEMMA TypePublish ==
    ASSUME TypeInv, NEW t \in Threads, Publish(t)
    PROVE  TypeInv'
<1> DEFINE n == Len(heap) + 1
<1>1. TypeOK /\ ShapeInv /\ Len(heap) \in Nat
  BY DEF TypeInv, TypeOK
<1>2. /\ heap' \in Seq(CachedFiles) /\ Len(heap') = n
      /\ \A i \in 1 .. Len(heap) : heap'[i] = heap[i]
      /\ Len(heap'[n].data) = heap'[n].size
      /\ file_cache' = [file_cache EXCEPT ![route[t]] = n]
      /\ entry' = [entry EXCEPT ![t] = n] /\ route[t] \in Files
  BY PublishDoes
<1>3. /\ pc' = [pc EXCEPT ![t] = "charge"] /\ offset' = [offset EXCEPT ![t] = 1]
      /\ UNCHANGED <<disk, remaining, mutex, running, route, stat, sent>>
  BY DEF Publish, Goto
<1>4. TypeOK'
  <2>1. n \in Nat /\ 1 \in Sizes
    BY <1>1, FileCacheAssumption DEF Sizes
  <2> QED
    BY <1>1, <1>2, <1>3, <2>1 DEF TypeOK, PCs
<1>5. ShapeInv'
  <2>1. file_cache' \in [Files -> 0 .. n] /\ entry' \in [Threads -> 0 .. n] /\ n # Absent
    BY <1>1, <1>2 DEF ShapeInv, Absent
  <2>2. \A i \in 1 .. n : Len(heap'[i].data) = heap'[i].size
    BY <1>1, <1>2 DEF ShapeInv
  <2>3. ASSUME NEW u \in Threads
        PROVE  /\ pc'[u] = "idle" => entry'[u] = Absent
               /\ pc'[u] # "idle" => route[u] \in Files
               /\ pc'[u] \in {"charge", "load", "send"} => entry'[u] # Absent
               /\ pc'[u] = "send" => offset'[u] <= heap'[entry'[u]].size
    <3>1. CASE u = t
      BY <1>1, <1>2, <1>3, <2>1, <3>1 DEF TypeOK
    <3>2. CASE u # t
      <4>1. entry[u] # Absent => entry[u] \in 1 .. Len(heap)
        BY <1>1 DEF ShapeInv, Absent
      <4> QED
        BY <1>1, <1>2, <1>3, <3>2, <4>1 DEF TypeOK, ShapeInv
    <3> QED
      BY <3>1, <3>2
  <2> QED
    BY <1>1, <1>2, <1>3, <2>1, <2>2, <2>3 DEF ShapeInv
<1> QED
  BY <1>4, <1>5 DEF TypeInv

LEMMA TypeCharge ==
    ASSUME TypeInv, NEW t \in Threads, Charge(t)
    PROVE  TypeInv'
<1>1. /\ TypeOK /\ ShapeInv /\ pc[t] = "charge" /\ pc' = [pc EXCEPT ![t] = "load"]
      /\ remaining' = remaining - stat[t].size
      /\ UNCHANGED <<disk, file_cache, heap, mutex, running, route, stat, entry, offset, sent>>
  BY DEF TypeInv, Charge, DataLength, Goto
<1>2. TypeOK'
  <2>1. remaining' \in Int
    BY <1>1 DEF TypeOK, Stats, Sizes
  <2> QED
    BY <1>1, <2>1 DEF TypeOK, PCs
<1>3. ShapeInv'
  <2>1. \A u \in Threads : pc'[u] = IF u = t THEN "load" ELSE pc[u]
    BY <1>1 DEF TypeOK
  <2> QED
    BY <1>1, <2>1 DEF ShapeInv
<1> QED
  BY <1>2, <1>3 DEF TypeInv

LEMMA TypeLoadBuffer ==
    ASSUME TypeInv, NEW t \in Threads, LoadBuffer(t)
    PROVE  TypeInv'
<1> DEFINE size == Last(disk[route[t]]).size
<1>1. TypeOK /\ ShapeInv
  BY DEF TypeInv
<1>2. /\ heap' \in Seq(CachedFiles) /\ Len(heap') = Len(heap)
      /\ \A i \in 1 .. Len(heap) :
           heap'[i].size = heap[i].size /\ Len(heap'[i].data) = Len(heap[i].data)
  <2>1. CASE heap' = heap
    BY <1>1, <2>1 DEF TypeOK
  <2>2. CASE heap' # heap
    BY <2>2, LoadWrites
  <2> QED
    BY <2>1, <2>2
<1>3. /\ UNCHANGED <<disk, file_cache, remaining, route, stat, entry, sent>>
      /\ mutex' \in {mutex, NoThread} /\ running' \in {running, FALSE} /\ pc[t] = "load"
  BY DEF LoadBuffer, Crash, locals
<1>4. \/ UNCHANGED <<pc, offset>>
      \/ pc' = [pc EXCEPT ![t] = "lookup"] /\ UNCHANGED offset
      \/ offset[t] < size /\ offset' = [offset EXCEPT ![t] = @ + 1] /\ UNCHANGED pc
  <2>1. size \in Nat /\ offset[t] \in Nat
    <3>1. disk[route[t]] \in Seq(Stats) /\ Len(disk[route[t]]) # 0
      BY <1>1, <1>3, FileCacheAssumption DEF TypeOK, ShapeInv
    <3>2. Last(disk[route[t]]) \in Stats
      BY <3>1, EmptySeq, LastVersion
    <3> QED
      BY <1>1, <3>2 DEF Stats, Sizes, TypeOK
  <2> HIDE DEF size
  <2>2. Crash \/ ShortRead(size, offset[t]) \/ ~ShortRead(size, offset[t])
    OBVIOUS
  <2>3. CASE Crash
    BY <2>3 DEF Crash, locals
  <2>4. CASE ShortRead(size, offset[t]) /\ ~Crash
    BY <2>4 DEF LoadBuffer, Goto, size
  <2>5. CASE ~ShortRead(size, offset[t]) /\ ~Crash
    <3>1. offset[t] < size
      BY <2>1, <2>5 DEF ShortRead
    <3> QED
      BY <2>5, <3>1 DEF LoadBuffer, size
  <2> QED
    BY <2>3, <2>4, <2>5
<1>5. offset' \in [Threads -> Sizes]
  <2>1. size \in Sizes
    <3>1. disk[route[t]] \in Seq(Stats) /\ Len(disk[route[t]]) # 0
      BY <1>1, <1>3, FileCacheAssumption DEF TypeOK, ShapeInv
    <3>2. Last(disk[route[t]]) \in Stats
      BY <3>1, EmptySeq, LastVersion
    <3> QED
      BY <3>2 DEF Stats
  <2> HIDE DEF size
  <2>2. CASE offset[t] < size /\ offset' = [offset EXCEPT ![t] = @ + 1]
    <3>1. offset[t] \in Sizes
      BY <1>1 DEF TypeOK
    <3>2. offset[t] + 1 \in Sizes
      BY <2>1, <2>2, <3>1, FileCacheAssumption DEF Sizes
    <3> QED
      BY <1>1, <2>2, <3>2 DEF TypeOK
  <2>3. CASE UNCHANGED offset
    BY <1>1, <2>3 DEF TypeOK
  <2> QED
    BY <1>4, <2>2, <2>3 DEF size
<1>6. pc' = pc \/ pc' = [pc EXCEPT ![t] = "lookup"]
  BY <1>4
<1>7. TypeOK'
  <2>1. pc' \in [Threads -> PCs]
    BY <1>1, <1>6 DEF TypeOK, PCs
  <2> QED
    BY <1>1, <1>2, <1>3, <1>5, <2>1 DEF TypeOK
<1>8. ShapeInv'
  <2>1. \A i \in 1 .. Len(heap') : Len(heap'[i].data) = heap'[i].size
    BY <1>1, <1>2 DEF ShapeInv
  <2>2. ASSUME NEW u \in Threads
        PROVE  /\ pc'[u] = "idle" => entry[u] = Absent
               /\ pc'[u] # "idle" => route[u] \in Files
               /\ route[u] = NoFile => sent[u] = {}
               /\ pc'[u] \in {"charge", "load", "send"} => entry[u] # Absent
    BY <1>1, <1>3, <1>6 DEF ShapeInv, TypeOK
  <2>3. ASSUME NEW u \in Threads, pc'[u] = "send" PROVE offset'[u] <= heap'[entry[u]].size
    <3>1. u # t /\ pc[u] = "send"
      BY <1>1, <1>3, <1>6, <2>3 DEF TypeOK
    <3>2. offset'[u] = offset[u]
      BY <1>1, <1>4, <3>1 DEF TypeOK
    <3>3. entry[u] \in 1 .. Len(heap) /\ offset[u] <= heap[entry[u]].size
      BY <1>1, <3>1 DEF ShapeInv, Absent
    <3> QED
      BY <1>2, <3>2, <3>3
  <2> QED
    BY <1>1, <1>2, <1>3, <2>1, <2>2, <2>3 DEF ShapeInv
<1> QED
  BY <1>7, <1>8 DEF TypeInv

LEMMA TypeFetch ==
    ASSUME TypeInv, NEW t \in Threads, Fetch(t)
    PROVE  TypeInv'
<1> DEFINE e == file_cache[route[t]]
<1>1. TypeOK /\ ShapeInv /\ 1 \in Sizes
  BY FileCacheAssumption DEF TypeInv, Sizes
<1>2. CASE Crash
  BY <1>1, <1>2 DEF Crash, locals, TypeInv, TypeOK, ShapeInv
<1>3. CASE ~Crash
  <2>1. /\ pc' = [pc EXCEPT ![t] = "send"] /\ pc[t] = "fetch" /\ e # Absent
        /\ entry' = [entry EXCEPT ![t] = e] /\ offset' = [offset EXCEPT ![t] = 1]
        /\ UNCHANGED <<disk, file_cache, heap, remaining, mutex, running, route, stat, sent>>
    BY <1>3 DEF Fetch, Goto, shared
  <2>2. route[t] \in Files /\ e \in 1 .. Len(heap)
    BY <1>1, <2>1 DEF ShapeInv, Absent
  <2>3. heap[e].size \in Sizes
    BY <2>2, Entries
  <2> HIDE DEF e
  <2>4. TypeOK'
    BY <1>1, <2>1, <2>2 DEF TypeOK, PCs
  <2>5. ASSUME NEW u \in Threads
        PROVE  /\ entry'[u] \in 0 .. Len(heap)
               /\ pc'[u] = "idle" => entry'[u] = Absent
               /\ pc'[u] # "idle" => route[u] \in Files
               /\ pc'[u] \in {"charge", "load", "send"} => entry'[u] # Absent
               /\ pc'[u] = "send" => offset'[u] <= heap[entry'[u]].size
    <3>1. CASE u = t
      BY <1>1, <2>1, <2>2, <2>3, <3>1 DEF TypeOK, Sizes
    <3>2. CASE u # t
      BY <1>1, <2>1, <3>2 DEF TypeOK, ShapeInv
    <3> QED
      BY <3>1, <3>2
  <2>6. entry' \in [Threads -> 0 .. Len(heap)]
    BY <2>4, <2>5 DEF TypeOK
  <2> QED
    BY <1>1, <2>1, <2>4, <2>5, <2>6 DEF ShapeInv, TypeInv
<1> QED
  BY <1>2, <1>3

LEMMA TypeSendBuffer ==
    ASSUME TypeInv, NEW t \in Threads, SendBuffer(t)
    PROVE  TypeInv'
<1> DEFINE e == heap[entry[t]]
           v == e.data[offset[t]]
<1>1. TypeOK /\ ShapeInv /\ pc[t] = "send" /\ route[t] \in Files
  BY DEF TypeInv, ShapeInv, SendBuffer
<1>2. entry[t] \in 1 .. Len(heap) /\ offset[t] \in Sizes /\ offset[t] <= e.size
  BY <1>1 DEF ShapeInv, TypeOK, Absent
<1>3. e.size \in Sizes /\ v \in 0 .. MaxEdits
  <2>1. /\ e.size \in Sizes /\ \A j \in 1 .. e.size : e.data[j] \in 0 .. MaxEdits
    BY <1>2, Entries
  <2> QED
    BY <1>2, <2>1 DEF Sizes
<1>4. /\ sent' = [sent EXCEPT ![t] = @ \cup {v}]
      /\ UNCHANGED <<disk, file_cache, heap, remaining, mutex, running, route, stat>>
      /\ \/ /\ pc' = [pc EXCEPT ![t] = "idle"] /\ entry' = [entry EXCEPT ![t] = Absent]
            /\ offset' = [offset EXCEPT ![t] = 1]
         \/ /\ offset[t] < e.size /\ offset' = [offset EXCEPT ![t] = @ + 1]
            /\ UNCHANGED <<pc, entry>>
  BY DEF SendBuffer, Return, Goto, shared
<1> HIDE DEF v, e
<1>5. TypeOK'
  <2>1. sent' \in [Threads -> SUBSET (0 .. MaxEdits)]
    BY <1>1, <1>3, <1>4 DEF TypeOK
  <2>2. 1 \in Sizes /\ (offset[t] < e.size => offset[t] + 1 \in Sizes)
    BY <1>2, <1>3, FileCacheAssumption DEF Sizes
  <2>3. offset' \in [Threads -> Sizes]
    BY <1>1, <1>4, <2>2 DEF TypeOK
  <2>4. pc' \in [Threads -> PCs] /\ entry' \in [Threads -> Nat]
    <3>1. "idle" \in PCs /\ Absent \in Nat /\ TypeOK
      BY <1>1 DEF PCs, Absent
    <3>2. CASE pc' = [pc EXCEPT ![t] = "idle"] /\ entry' = [entry EXCEPT ![t] = Absent]
      BY <3>1, <3>2 DEF TypeOK
    <3>3. CASE UNCHANGED <<pc, entry>>
      BY <3>1, <3>3 DEF TypeOK
    <3> QED
      BY <1>4, <3>2, <3>3
  <2> QED
    BY <1>1, <1>4, <2>1, <2>3, <2>4 DEF TypeOK
<1>6. ASSUME NEW u \in Threads
      PROVE  /\ entry'[u] \in 0 .. Len(heap)
             /\ pc'[u] = "idle" => entry'[u] = Absent
             /\ pc'[u] # "idle" => route[u] \in Files
             /\ route[u] = NoFile => sent'[u] = {}
             /\ pc'[u] \in {"charge", "load", "send"} => entry'[u] # Absent
             /\ pc'[u] = "send" => offset'[u] <= heap[entry'[u]].size
  <2>1. CASE u = t
    <3>1. Len(heap) \in Nat /\ route[t] # NoFile
      BY <1>1, FileCacheAssumption DEF TypeOK
    <3> QED
      BY <1>1, <1>2, <1>3, <1>4, <2>1, <3>1 DEF TypeOK, Absent, e, Sizes
  <2>2. CASE u # t
    BY <1>1, <1>4, <2>2 DEF TypeOK, ShapeInv
  <2> QED
    BY <2>1, <2>2
<1>7. entry' \in [Threads -> 0 .. Len(heap)]
  BY <1>5, <1>6 DEF TypeOK
<1> QED
  BY <1>1, <1>4, <1>5, <1>6, <1>7 DEF ShapeInv, TypeInv

\* What an edit does to the versions of a file.
LEMMA EditDoes ==
    ASSUME TypeInv, NEW f \in Files, Edit(f)
    PROVE  /\ disk' \in [Files -> Seq(Stats)] /\ \A g \in Files \ {f} : disk'[g] = disk[g]
           /\ Len(disk'[f]) = Len(disk[f]) + 1 /\ Len(disk'[f]) \in 1 .. MaxEdits
           /\ \A v \in 1 .. Len(disk[f]) : disk'[f][v] = disk[f][v]
           /\ disk'[f][Len(disk[f]) + 1].mtime >= disk[f][Len(disk[f])].mtime
<1>1. PICK size \in Sizes, mtime \in {Last(disk[f]).mtime, Last(disk[f]).mtime + 1} :
        disk' = [disk EXCEPT ![f] = Append(@, [mtime |-> mtime, size |-> size])]
  BY DEF Edit
<1> DEFINE new == [mtime |-> mtime, size |-> size]
<1>2. disk \in [Files -> Seq(Stats)] /\ Len(disk[f]) \in 1 .. MaxEdits /\ Len(disk[f]) < MaxEdits
  BY DEF TypeInv, TypeOK, ShapeInv, Edit
<1>3. Last(disk[f]) \in Stats /\ Last(disk[f]) = disk[f][Len(disk[f])]
  <2>1. disk[f] \in Seq(Stats) /\ disk[f] # <<>>
    BY <1>2, EmptySeq, FileCacheAssumption
  <2> QED
    BY <2>1, LastVersion
<1>4. mtime \in Nat /\ mtime >= disk[f][Len(disk[f])].mtime
  BY <1>1, <1>3 DEF Stats
<1>5. new \in Stats /\ new.mtime = mtime
  BY <1>1, <1>4 DEF Stats
<1> HIDE DEF new
<1>6. /\ Append(disk[f], new) \in Seq(Stats) /\ Len(Append(disk[f], new)) = Len(disk[f]) + 1
      /\ \A v \in 1 .. Len(disk[f]) : Append(disk[f], new)[v] = disk[f][v]
      /\ Append(disk[f], new)[Len(disk[f]) + 1] = new
  BY <1>2, <1>5
<1>7. disk' = [disk EXCEPT ![f] = Append(disk[f], new)]
  BY <1>1 DEF new
<1>8. Len(disk[f]) + 1 \in 1 .. MaxEdits
  BY <1>2, FileCacheAssumption
<1> QED
  BY <1>2, <1>4, <1>5, <1>6, <1>7, <1>8

LEMMA TypeNext == TypeInv /\ [Next]_vars => TypeInv'
<1> SUFFICES ASSUME TypeInv, [Next]_vars PROVE TypeInv'
  OBVIOUS
<1>1. CASE \E t \in Threads : Step(t)
  BY <1>1, TypeReads, TypeRequest, TypePublish, TypeCharge, TypeLoadBuffer, TypeFetch, TypeSendBuffer
  DEF Step
<1>2. ASSUME NEW f \in Files, Edit(f) PROVE TypeInv'
  <2>1. UNCHANGED <<file_cache, heap, remaining, mutex, running, locals>>
    BY <1>2 DEF Edit
  <2>2. disk' \in [Files -> Seq(Stats)] /\ \A g \in Files : Len(disk'[g]) \in 1 .. MaxEdits
    BY <1>2, EditDoes DEF TypeInv, ShapeInv
  <2> QED
    BY <2>1, <2>2 DEF TypeInv, TypeOK, ShapeInv, locals
<1>3. CASE UNCHANGED vars
  BY <1>3 DEF TypeInv, TypeOK, ShapeInv, vars, shared, locals
<1> QED
  BY <1>1, <1>2, <1>3 DEF Next, Dead

\* Every variable keeps its type: no thread refers to an entry never allocated, sends
\* past the end of one or responds without a file.
THEOREM TypeCorrect == Spec => []TypeOK
<1>1. TypeInv => TypeOK
  BY DEF TypeInv
<1> QED
  BY <1>1, TypeInit, TypeNext, PTL DEF Spec
-----------------------------------------------------------------------------
(* Freshness *)

Newest(d, f) == d[f][Len(d[f])].mtime

\* What the i-th entry of the heap h holds are versions of the file f of the disk d, and
\* none was written before the time given.
From(h, d, i, f, mtime) ==
    \A j \in 1 .. h[i].size : h[i].data[j] # Garbage =>
      h[i].data[j] \in 1 .. Len(d[f]) /\ d[f][h[i].data[j]].mtime >= mtime

\* Versions are in the order of their times, and a file is at least as new as what
\* lstat has said of it.
Ordered(d) == \A f \in Files : \A v, w \in 1 .. Len(d[f]) : v <= w => d[f][v].mtime <= d[f][w].mtime

DiskInv ==
    /\ Ordered(disk)
    /\ \A t \in Threads : route[t] \in Files => stat[t].mtime <= Newest(disk, route[t])

\* No entry is of two files.
OwnInv ==
    /\ \A f, g \in Files : file_cache[f] # Absent /\ file_cache[f] = file_cache[g] => f = g
    /\ \A t \in Threads, g \in Files :
         entry[t] # Absent /\ entry[t] = file_cache[g] => route[t] = g
    /\ \A t, u \in Threads : entry[t] # Absent /\ entry[t] = entry[u] => route[t] = route[u]

\* An entry in the cache holds nothing older than its own time.
StampInv ==
    \A f \in Files : file_cache[f] # Absent =>
      /\ heap[file_cache[f]].modified <= Newest(disk, f)
      /\ From(heap, disk, file_cache[f], f, heap[file_cache[f]].modified)

Past == {"absent", "room", "lock", "publish", "charge", "load", "lookup", "fetch"}
USE DEF Past

\* Past the comparison, what is in the cache for the request holds nothing older than
\* what its lstat found, whoever put it there; nor does what is being sent.
PastInv ==
    \A t \in Threads :
      /\ pc[t] \in Past /\ file_cache[route[t]] # Absent =>
           From(heap, disk, file_cache[route[t]], route[t], stat[t].mtime)
      /\ pc[t] = "send" => From(heap, disk, entry[t], route[t], stat[t].mtime)

SentInv ==
    \A t \in Threads : \A v \in sent[t] \ {Garbage} :
      v \in 1 .. Len(disk[route[t]]) /\ disk[route[t]][v].mtime >= stat[t].mtime

FreshInv == TypeInv /\ DiskInv /\ OwnInv /\ StampInv /\ PastInv /\ SentInv

LEMMA FreshInit == Init => FreshInv
<1> SUFFICES ASSUME Init PROVE FreshInv
  OBVIOUS
<1>1. TypeInv
  BY TypeInit
<1>2. PICK size \in [Files -> Sizes] :
        disk = [f \in Files |-> <<[mtime |-> 0, size |-> size[f]]>>]
  BY DEF Init
<1>3. \A f \in Files : Len(disk[f]) = 1
  BY <1>2
<1>4. DiskInv
  <2>1. Ordered(disk)
    <3>1. \A f \in Files : \A v, w \in 1 .. Len(disk[f]) : v = w /\ disk[f][v].mtime = 0
      BY <1>2
    <3> QED
      BY <3>1 DEF Ordered
  <2> QED
    BY <2>1, FileCacheAssumption DEF Init, DiskInv
<1> QED
  BY <1>1, <1>4 DEF Init, FreshInv, OwnInv, StampInv, PastInv, SentInv

\* Steps that write neither a file nor an entry.  One that comes to the cache past the
\* comparison found an entry of exactly the time lstat gave, or none.
LEMMA FreshReads ==
    ASSUME FreshInv, NEW t \in Threads,
           \/ Check(t) \/ Compare(t) \/ Erase(t) \/ CheckAbsent(t) \/ CheckRoom(t)
           \/ TryLock(t) \/ Charge(t) \/ LoadFails(t) \/ Lookup(t) \/ Fetch(t) \/ SendFails(t)
    PROVE  DiskInv' /\ OwnInv' /\ StampInv' /\ PastInv' /\ SentInv'
<1>1. UNCHANGED <<disk, heap, route, stat, sent>>
  BY DEF Check, Compare, Erase, CheckAbsent, CheckRoom, TryLock, Charge, LoadFails, Lookup, Fetch, SendFails,
     Crash, shared, locals
<1>2. \/ UNCHANGED file_cache
      \/ file_cache' = [file_cache EXCEPT ![route[t]] = Absent]
  BY DEF Check, Compare, Erase, CheckAbsent, CheckRoom, TryLock, Charge, LoadFails, Lookup, Fetch, SendFails,
     Crash, shared
<1>3. \/ UNCHANGED entry
      \/ entry' = [entry EXCEPT ![t] = Absent]
      \/ /\ pc[t] = "fetch" /\ file_cache[route[t]] # Absent /\ UNCHANGED file_cache
         /\ entry' = [entry EXCEPT ![t] = file_cache[route[t]]]
  BY DEF Check, Compare, Erase, CheckAbsent, CheckRoom, TryLock, Charge, LoadFails, Lookup, Fetch, SendFails,
     Crash, Return, shared, locals
<1>4. \/ UNCHANGED <<pc, entry>>
      \/ /\ pc[t] = "check" /\ pc' = [pc EXCEPT ![t] = "compare"] /\ UNCHANGED entry
      \/ /\ file_cache'[route[t]] = Absent /\ pc' = [pc EXCEPT ![t] = "absent"] /\ UNCHANGED entry
      \/ /\ pc[t] = "compare" /\ file_cache[route[t]] # Absent /\ UNCHANGED <<file_cache, entry>>
         /\ stat[t].mtime = heap[file_cache[route[t]]].modified
         /\ pc' = [pc EXCEPT ![t] = "absent"]
      \/ /\ pc' = [pc EXCEPT ![t] = "erase"] /\ UNCHANGED entry
      \/ /\ pc[t] \in Past \ {"fetch"} /\ UNCHANGED <<file_cache, entry>>
         /\ \E label \in Past : pc' = [pc EXCEPT ![t] = label]
      \/ /\ pc[t] = "fetch" /\ file_cache[route[t]] # Absent /\ UNCHANGED file_cache
         /\ pc' = [pc EXCEPT ![t] = "send"]
         /\ entry' = [entry EXCEPT ![t] = file_cache[route[t]]]
      \/ pc' = [pc EXCEPT ![t] = "idle"]
  <2>1. CASE Check(t)
    BY <2>1 DEF Check, Goto, shared
  <2>2. CASE Compare(t)
    BY <2>2 DEF Compare, Goto, shared, Crash, locals, Outdated
  <2>3. CASE Erase(t)
    <3>1. file_cache'[route[t]] = Absent
      BY <2>3 DEF FreshInv, TypeInv, TypeOK, ShapeInv, Erase
    <3> QED
      BY <2>3, <3>1 DEF Erase, Goto
  <2>4. CASE CheckAbsent(t) \/ CheckRoom(t) \/ TryLock(t) \/ Charge(t) \/ Lookup(t)
    BY <2>4 DEF CheckAbsent, CheckRoom, TryLock, Charge, Lookup, Goto, Return, shared, Past
  <2>5. CASE Fetch(t)
    BY <2>5 DEF Fetch, Goto, Crash, locals, shared
  <2>6. CASE LoadFails(t) \/ SendFails(t)
    BY <2>6 DEF LoadFails, SendFails, Return, Goto
  <2> QED
    BY <2>1, <2>2, <2>3, <2>4, <2>5, <2>6
<1>5. TypeOK /\ ShapeInv /\ DiskInv /\ OwnInv /\ StampInv /\ PastInv /\ SentInv
  BY DEF FreshInv, TypeInv
<1>6. DiskInv' /\ SentInv'
  BY <1>1, <1>5 DEF DiskInv, SentInv
<1>7. OwnInv'
  <2>1. route[t] \notin Files => file_cache' = file_cache
    BY <1>2, <1>5 DEF TypeOK
  <2>2. \A f \in Files : file_cache'[f] # Absent => file_cache'[f] = file_cache[f]
    BY <1>2, <1>5 DEF TypeOK
  <2>3. \A u \in Threads : entry'[u] # Absent =>
          \/ entry'[u] = entry[u]
          \/ u = t /\ entry'[u] = file_cache[route[t]] /\ route[t] \in Files
    <3>1. pc[t] = "fetch" => route[t] \in Files
      BY <1>5 DEF ShapeInv
    <3>2. entry \in [Threads -> Nat]
      BY <1>5 DEF TypeOK
    <3> QED
      BY <1>3, <3>1, <3>2
  <2> QED
    BY <1>1, <1>5, <2>2, <2>3 DEF OwnInv
<1>8. StampInv'
  BY <1>1, <1>2, <1>5 DEF StampInv, TypeOK
<1>9. PastInv'
  <2>1. ASSUME NEW u \in Threads, file_cache'[route[u]] # Absent,
               pc'[u] \in Past
        PROVE  From(heap, disk, file_cache'[route[u]], route[u], stat[u].mtime)
    <3>1. CASE pc[u] \in Past
      <4>1. route[u] \in Files
        BY <1>5, <3>1 DEF ShapeInv
      <4>2. file_cache'[route[u]] = file_cache[route[u]]
        BY <1>2, <1>5, <2>1, <4>1 DEF TypeOK
      <4> QED
        BY <1>5, <2>1, <3>1, <4>2 DEF PastInv
    <3>2. CASE pc[u] \notin Past
      <4>1. /\ u = t /\ pc[t] = "compare" /\ UNCHANGED file_cache
            /\ stat[t].mtime = heap[file_cache[route[t]]].modified
        BY <1>4, <1>5, <2>1, <3>2 DEF TypeOK
      <4>2. route[t] \in Files
        BY <1>5, <4>1 DEF ShapeInv
      <4> QED
        BY <1>5, <2>1, <4>1, <4>2 DEF StampInv
    <3> QED
      BY <3>1, <3>2
  <2>2. ASSUME NEW u \in Threads, pc'[u] = "send"
        PROVE  From(heap, disk, entry'[u], route[u], stat[u].mtime)
    <3>1. CASE u = t /\ pc[t] = "fetch"
      <4>1. entry'[t] = file_cache[route[t]] /\ file_cache[route[t]] # Absent
        BY <1>4, <1>5, <2>2, <3>1 DEF TypeOK
      <4> QED
        BY <1>5, <3>1, <4>1 DEF PastInv
    <3>2. CASE ~(u = t /\ pc[t] = "fetch")
      <4>1. pc[u] = "send" /\ entry'[u] = entry[u]
        BY <1>3, <1>4, <1>5, <2>2, <3>2 DEF TypeOK
      <4> QED
        BY <1>5, <4>1 DEF PastInv
    <3> QED
      BY <3>1, <3>2
  <2> QED
    BY <1>1, <2>1, <2>2 DEF PastInv
<1> QED
  BY <1>6, <1>7, <1>8, <1>9

\* A new request sees the newest version and has sent nothing.
LEMMA FreshRequest ==
    ASSUME FreshInv, NEW t \in Threads, NEW f \in Files, Request(t, f)
    PROVE  DiskInv' /\ OwnInv' /\ StampInv' /\ PastInv' /\ SentInv'
<1>1. TypeOK /\ ShapeInv /\ DiskInv /\ OwnInv /\ StampInv /\ PastInv /\ SentInv
  BY DEF FreshInv, TypeInv
<1>2. /\ UNCHANGED <<disk, heap, file_cache, entry, offset>> /\ pc[t] = "idle"
      /\ route' = [route EXCEPT ![t] = f] /\ stat' = [stat EXCEPT ![t] = Last(disk[f])]
      /\ sent' = [sent EXCEPT ![t] = {}] /\ pc' = [pc EXCEPT ![t] = "check"]
  BY DEF Request, Goto, shared
<1>3. Last(disk[f]).mtime = Newest(disk, f) /\ Newest(disk, f) \in Nat
  <2>1. disk[f] \in Seq(Stats) /\ disk[f] # <<>>
    BY <1>1, EmptySeq, FileCacheAssumption DEF TypeOK, ShapeInv
  <2> QED
    BY <2>1, LastVersion DEF Newest, Stats
<1>4. ASSUME NEW u \in Threads
      PROVE  /\ u = t => route'[u] = f /\ stat'[u].mtime = Newest(disk, f) /\ sent'[u] = {}
             /\ u = t => pc'[u] = "check" /\ entry[u] = Absent
             /\ u # t => /\ route'[u] = route[u] /\ stat'[u] = stat[u]
                         /\ sent'[u] = sent[u] /\ pc'[u] = pc[u]
  BY <1>1, <1>2, <1>3 DEF TypeOK, ShapeInv
<1>5. DiskInv'
  BY <1>1, <1>2, <1>3, <1>4 DEF DiskInv
<1>6. OwnInv'
  BY <1>1, <1>2, <1>4 DEF OwnInv
<1>7. StampInv'
  BY <1>1, <1>2 DEF StampInv
<1>8. PastInv'
  BY <1>1, <1>2, <1>4 DEF PastInv
<1>9. SentInv'
  BY <1>1, <1>2, <1>4 DEF SentInv
<1> QED
  BY <1>5, <1>6, <1>7, <1>8, <1>9

\* The new entry is of one file and holds nothing yet.
LEMMA FreshPublish ==
    ASSUME FreshInv, NEW t \in Threads, Publish(t)
    PROVE  DiskInv' /\ OwnInv' /\ StampInv' /\ PastInv' /\ SentInv'
<1> DEFINE n == Len(heap) + 1
<1>1. /\ TypeInv /\ TypeOK /\ ShapeInv /\ DiskInv /\ OwnInv /\ StampInv /\ PastInv /\ SentInv
      /\ Len(heap) \in Nat
  BY DEF FreshInv, TypeInv, TypeOK
<1>2. /\ \A i \in 1 .. Len(heap) : heap'[i] = heap[i]
      /\ heap'[n].modified = stat[t].mtime
      /\ \A j \in 1 .. heap'[n].size : heap'[n].data[j] = Garbage
      /\ file_cache' = [file_cache EXCEPT ![route[t]] = n]
      /\ entry' = [entry EXCEPT ![t] = n] /\ route[t] \in Files
  BY <1>1, PublishDoes
<1>3. pc' = [pc EXCEPT ![t] = "charge"] /\ UNCHANGED <<disk, route, stat, sent>>
  BY DEF Publish, Goto
<1>4. /\ \A f \in Files : file_cache[f] \in 0 .. Len(heap)
      /\ \A u \in Threads : entry[u] \in 0 .. Len(heap)
      /\ \A f \in Files : file_cache'[f] = IF f = route[t] THEN n ELSE file_cache[f]
      /\ \A u \in Threads : entry'[u] = IF u = t THEN n ELSE entry[u]
      /\ \A u \in Threads : pc'[u] = IF u = t THEN "charge" ELSE pc[u]
  BY <1>1, <1>2, <1>3 DEF TypeOK, ShapeInv
<1>5. ASSUME NEW i \in 0 .. Len(heap), i # Absent, NEW f, NEW m, From(heap, disk, i, f, m)
      PROVE  From(heap', disk, i, f, m)
  BY <1>2, <1>5 DEF From, Absent
<1>6. ASSUME NEW f, NEW m PROVE From(heap', disk, n, f, m)
  BY <1>2 DEF From
<1>7. n \notin 0 .. Len(heap) /\ n # Absent
  BY <1>1 DEF Absent
<1> HIDE DEF n
<1>8. DiskInv' /\ SentInv'
  BY <1>1, <1>3 DEF DiskInv, SentInv
<1>9. OwnInv'
  <2>1. \A f, g \in Files : file_cache'[f] # Absent /\ file_cache'[f] = file_cache'[g] => f = g
    BY <1>1, <1>4, <1>7 DEF OwnInv
  <2>2. \A u \in Threads, g \in Files :
          entry'[u] # Absent /\ entry'[u] = file_cache'[g] => route[u] = g
    BY <1>1, <1>4, <1>7 DEF OwnInv
  <2>3. \A u, w \in Threads : entry'[u] # Absent /\ entry'[u] = entry'[w] => route[u] = route[w]
    BY <1>1, <1>4, <1>7 DEF OwnInv
  <2> QED
    BY <1>3, <2>1, <2>2, <2>3 DEF OwnInv
<1>10. StampInv'
  <2> SUFFICES ASSUME NEW f \in Files, file_cache'[f] # Absent
               PROVE  /\ heap'[file_cache'[f]].modified <= Newest(disk, f)
                      /\ From(heap', disk, file_cache'[f], f, heap'[file_cache'[f]].modified)
    BY <1>3 DEF StampInv
  <2>1. CASE f = route[t]
    BY <1>1, <1>2, <1>4, <1>6, <2>1 DEF DiskInv
  <2>2. CASE f # route[t]
    <3>1. /\ file_cache'[f] = file_cache[f] /\ file_cache[f] \in 0 .. Len(heap)
          /\ file_cache[f] # Absent
      BY <1>4, <2>2
    <3>2. heap'[file_cache[f]] = heap[file_cache[f]]
      BY <1>2, <3>1 DEF Absent
    <3> QED
      BY <1>1, <1>5, <3>1, <3>2 DEF StampInv
  <2> QED
    BY <2>1, <2>2
<1>11. PastInv'
  <2>1. ASSUME NEW u \in Threads, file_cache'[route[u]] # Absent,
               pc'[u] \in Past
        PROVE  From(heap', disk, file_cache'[route[u]], route[u], stat[u].mtime)
    <3>1. pc[t] = "publish" /\ pc[u] \in Past
      BY <1>4, <2>1 DEF Publish, Past
    <3>2. route[u] \in Files
      BY <1>1, <3>1 DEF ShapeInv
    <3>3. CASE route[u] = route[t]
      BY <1>2, <1>4, <1>6, <3>3
    <3>4. CASE route[u] # route[t]
      <4>1. file_cache'[route[u]] = file_cache[route[u]] /\ file_cache[route[u]] \in 0 .. Len(heap)
        BY <1>4, <3>2, <3>4
      <4> QED
        BY <1>1, <1>5, <2>1, <3>1, <4>1 DEF PastInv
    <3> QED
      BY <3>3, <3>4
  <2>2. ASSUME NEW u \in Threads, pc'[u] = "send"
        PROVE  From(heap', disk, entry'[u], route[u], stat[u].mtime)
    <3>1. u # t /\ pc[u] = "send" /\ entry'[u] = entry[u]
      BY <1>4, <2>2
    <3>2. entry[u] # Absent /\ entry[u] \in 0 .. Len(heap)
      BY <1>1, <1>4, <3>1 DEF ShapeInv
    <3> QED
      BY <1>1, <1>5, <3>1, <3>2 DEF PastInv
  <2> QED
    BY <1>3, <2>1, <2>2 DEF PastInv
<1> QED
  BY <1>8, <1>9, <1>10, <1>11

\* What a read adds to an entry is the newest version of its file.
LEMMA FromLoaded ==
    ASSUME FreshInv, NEW t \in Threads, LoadBuffer(t),
           NEW i \in 1 .. Len(heap), NEW f \in Files, NEW m,
           From(heap, disk, i, f, m), i = entry[t] => f = route[t] /\ Newest(disk, f) >= m
    PROVE  From(heap', disk, i, f, m) /\ heap'[i].modified = heap[i].modified
<1>1. CASE heap' = heap
  BY <1>1
<1>2. CASE heap' # heap
  <2>1. /\ heap'[i].size = heap[i].size /\ heap'[i].modified = heap[i].modified
        /\ \A j \in 1 .. heap[i].size :
             heap'[i].data[j] = IF i = entry[t] /\ j = offset[t]
                                THEN Len(disk[route[t]]) ELSE heap[i].data[j]
    BY <1>2, LoadWrites DEF FreshInv
  <2>2. Len(disk[f]) \in 1 .. Len(disk[f])
    BY FileCacheAssumption DEF FreshInv, TypeInv, ShapeInv
  <2> QED
    BY <2>1, <2>2 DEF From, Newest
<1> QED
  BY <1>1, <1>2

LEMMA FreshLoadBuffer ==
    ASSUME FreshInv, NEW t \in Threads, LoadBuffer(t)
    PROVE  DiskInv' /\ OwnInv' /\ StampInv' /\ PastInv' /\ SentInv'
<1>1. /\ TypeOK /\ ShapeInv /\ DiskInv /\ OwnInv /\ StampInv /\ PastInv /\ SentInv
  BY DEF FreshInv, TypeInv
<1>2. /\ UNCHANGED <<disk, file_cache, route, stat, entry, sent>> /\ pc[t] = "load"
      /\ pc' = pc \/ pc' = [pc EXCEPT ![t] = "lookup"]
  BY DEF LoadBuffer, Crash, locals, Goto
<1>3. DiskInv' /\ OwnInv' /\ SentInv'
  BY <1>1, <1>2 DEF DiskInv, OwnInv, SentInv
<1>4. route[t] \in Files /\ entry[t] # Absent
  BY <1>1, <1>2 DEF ShapeInv
<1>5. StampInv'
  <2> SUFFICES ASSUME NEW f \in Files, file_cache[f] # Absent
               PROVE  /\ heap'[file_cache[f]].modified <= Newest(disk, f)
                      /\ From(heap', disk, file_cache[f], f, heap'[file_cache[f]].modified)
    BY <1>2 DEF StampInv
  <2>1. file_cache[f] \in 1 .. Len(heap)
    BY <1>1 DEF ShapeInv, Absent
  <2>2. /\ heap[file_cache[f]].modified <= Newest(disk, f)
        /\ From(heap, disk, file_cache[f], f, heap[file_cache[f]].modified)
    BY <1>1 DEF StampInv
  <2>3. file_cache[f] = entry[t] => f = route[t] /\ Newest(disk, f) >= heap[file_cache[f]].modified
    <3>1. heap[file_cache[f]].modified \in Nat /\ Newest(disk, f) \in Nat
      <4>1. disk[f] \in Seq(Stats) /\ Len(disk[f]) \in 1 .. Len(disk[f])
        BY <1>1, FileCacheAssumption DEF TypeOK, ShapeInv
      <4>2. disk[f][Len(disk[f])] \in Stats
        BY <4>1, ElementOfSeq
      <4> QED
        BY <2>1, <4>2, Entries DEF FreshInv, Newest, Stats
    <3> QED
      BY <1>1, <1>4, <2>2, <3>1 DEF OwnInv
  <2> QED
    BY <2>1, <2>2, <2>3, FromLoaded
<1>6. ASSUME NEW u \in Threads, route[u] \in Files PROVE Newest(disk, route[u]) >= stat[u].mtime
  <2>1. stat[u].mtime \in Nat /\ Newest(disk, route[u]) \in Nat
    <3>1. disk[route[u]] \in Seq(Stats) /\ Len(disk[route[u]]) \in 1 .. Len(disk[route[u]])
      BY <1>1, <1>6, FileCacheAssumption DEF TypeOK, ShapeInv
    <3>2. disk[route[u]][Len(disk[route[u]])] \in Stats
      BY <3>1, ElementOfSeq
    <3> QED
      BY <1>1, <3>2 DEF Newest, Stats, TypeOK
  <2> QED
    BY <1>1, <1>6, <2>1 DEF DiskInv
<1>7. PastInv'
  <2>1. ASSUME NEW u \in Threads, file_cache[route[u]] # Absent,
               pc'[u] \in Past
        PROVE  From(heap', disk, file_cache[route[u]], route[u], stat[u].mtime)
    <3>1. pc[u] \in Past
      BY <1>1, <1>2, <2>1 DEF TypeOK
    <3>2. route[u] \in Files /\ From(heap, disk, file_cache[route[u]], route[u], stat[u].mtime)
      BY <1>1, <2>1, <3>1 DEF ShapeInv, PastInv
    <3>3. file_cache[route[u]] \in 1 .. Len(heap)
      BY <1>1, <2>1, <3>2 DEF ShapeInv, Absent
    <3>4. file_cache[route[u]] = entry[t] => route[u] = route[t]
      BY <1>1, <1>4, <3>2 DEF OwnInv
    <3> QED
      BY <1>6, <3>2, <3>3, <3>4, FromLoaded
  <2>2. ASSUME NEW u \in Threads, pc'[u] = "send"
        PROVE  From(heap', disk, entry[u], route[u], stat[u].mtime)
    <3>1. pc[u] = "send"
      BY <1>1, <1>2, <2>2 DEF TypeOK
    <3>2. route[u] \in Files /\ From(heap, disk, entry[u], route[u], stat[u].mtime)
      BY <1>1, <3>1 DEF ShapeInv, PastInv
    <3>3. entry[u] \in 1 .. Len(heap)
      BY <1>1, <3>1 DEF ShapeInv, Absent
    <3>4. entry[u] = entry[t] => route[u] = route[t]
      BY <1>1, <1>4 DEF OwnInv
    <3> QED
      BY <1>6, <3>2, <3>3, <3>4, FromLoaded
  <2> QED
    BY <1>2, <2>1, <2>2 DEF PastInv
<1> QED
  BY <1>3, <1>5, <1>7

LEMMA FreshSendBuffer ==
    ASSUME FreshInv, NEW t \in Threads, SendBuffer(t)
    PROVE  DiskInv' /\ OwnInv' /\ StampInv' /\ PastInv' /\ SentInv'
<1> DEFINE v == heap[entry[t]].data[offset[t]]
<1>1. /\ TypeOK /\ ShapeInv /\ DiskInv /\ OwnInv /\ StampInv /\ PastInv /\ SentInv
  BY DEF FreshInv, TypeInv
<1>2. /\ UNCHANGED <<disk, file_cache, heap, route, stat>> /\ pc[t] = "send"
      /\ sent' = [sent EXCEPT ![t] = @ \cup {v}]
      /\ \/ pc' = [pc EXCEPT ![t] = "idle"] /\ entry' = [entry EXCEPT ![t] = Absent]
         \/ UNCHANGED <<pc, entry>>
  BY DEF SendBuffer, Return, Goto, shared
<1>3. v # Garbage => v \in 1 .. Len(disk[route[t]]) /\ disk[route[t]][v].mtime >= stat[t].mtime
  <2>1. offset[t] \in 1 .. heap[entry[t]].size
    <3>1. entry[t] \in 1 .. Len(heap) /\ offset[t] <= heap[entry[t]].size
      BY <1>1, <1>2 DEF ShapeInv, Absent
    <3>2. heap[entry[t]].size \in Sizes
      BY <3>1, Entries DEF FreshInv
    <3> QED
      BY <1>1, <3>1, <3>2 DEF TypeOK, Sizes
  <2>2. From(heap, disk, entry[t], route[t], stat[t].mtime)
    BY <1>1, <1>2 DEF PastInv
  <2> QED
    BY <2>1, <2>2 DEF From
<1> HIDE DEF v
<1>4. \A u \in Threads : /\ entry'[u] # Absent => entry'[u] = entry[u]
                         /\ pc'[u] # "idle" => pc'[u] = pc[u] /\ entry'[u] = entry[u]
  BY <1>1, <1>2 DEF TypeOK
<1>5. DiskInv' /\ StampInv'
  BY <1>1, <1>2 DEF DiskInv, StampInv
<1>6. OwnInv'
  BY <1>1, <1>2, <1>4 DEF OwnInv
<1>7. PastInv'
  BY <1>1, <1>2, <1>4 DEF PastInv
<1>8. SentInv'
  <2>1. \A u \in Threads : sent'[u] = IF u = t THEN sent[t] \cup {v} ELSE sent[u]
    BY <1>1, <1>2 DEF TypeOK
  <2> QED
    BY <1>1, <1>2, <1>3, <2>1 DEF SentInv
<1> QED
  BY <1>5, <1>6, <1>7, <1>8

\* An edit only adds a version, no older than the ones before it.
LEMMA FreshEdit ==
    ASSUME FreshInv, NEW f \in Files, Edit(f)
    PROVE  DiskInv' /\ OwnInv' /\ StampInv' /\ PastInv' /\ SentInv'
<1>1. /\ TypeInv /\ TypeOK /\ ShapeInv /\ DiskInv /\ OwnInv /\ StampInv /\ PastInv /\ SentInv
  BY DEF FreshInv, TypeInv
<1>2. UNCHANGED <<file_cache, heap, pc, route, stat, entry, sent>>
  BY DEF Edit, locals
<1>3. /\ \A g \in Files \ {f} : disk'[g] = disk[g]
      /\ disk' \in [Files -> Seq(Stats)]
      /\ Len(disk'[f]) = Len(disk[f]) + 1 /\ Len(disk[f]) \in Nat \ {0}
      /\ \A v \in 1 .. Len(disk[f]) : disk'[f][v] = disk[f][v]
      /\ disk'[f][Len(disk[f]) + 1].mtime >= disk[f][Len(disk[f])].mtime
  <2>1. Len(disk[f]) \in Nat \ {0}
    BY <1>1, FileCacheAssumption DEF ShapeInv
  <2> QED
    BY <1>1, <2>1, EditDoes
<1>4. \A g \in Files : /\ Len(disk[g]) \in Nat /\ Len(disk'[g]) >= Len(disk[g])
                       /\ Len(disk'[g]) \in Nat
                       /\ \A v \in 1 .. Len(disk[g]) : disk'[g][v] = disk[g][v]
  <2> SUFFICES ASSUME NEW g \in Files
               PROVE  /\ Len(disk[g]) \in Nat /\ Len(disk'[g]) >= Len(disk[g])
                      /\ Len(disk'[g]) \in Nat
                      /\ \A v \in 1 .. Len(disk[g]) : disk'[g][v] = disk[g][v]
    OBVIOUS
  <2>1. Len(disk[g]) \in Nat
    BY <1>1 DEF TypeOK
  <2> QED
    BY <1>3, <2>1
<1>5. \A g \in Files : \A v \in 1 .. Len(disk[g]) : disk[g][v].mtime \in Nat
  <2>1. \A g \in Files : \A v \in 1 .. Len(disk[g]) : disk[g][v] \in Stats
    BY <1>1, ElementOfSeq DEF TypeOK
  <2> QED
    BY <2>1 DEF Stats
<1>6. \A g \in Files : \A v \in 1 .. Len(disk'[g]) : disk'[g][v].mtime \in Nat
  <2>1. \A g \in Files : \A v \in 1 .. Len(disk'[g]) : disk'[g][v] \in Stats
    BY <1>3, ElementOfSeq
  <2> QED
    BY <2>1 DEF Stats
<1>7. Ordered(disk')
  <2> SUFFICES ASSUME NEW g \in Files, NEW v \in 1 .. Len(disk'[g]), NEW w \in 1 .. Len(disk'[g]),
                      v <= w
               PROVE  disk'[g][v].mtime <= disk'[g][w].mtime
    BY DEF Ordered
  <2>1. CASE w \in 1 .. Len(disk[g])
    <3>1. v \in 1 .. Len(disk[g])
      BY <1>4, <2>1
    <3> QED
      BY <1>1, <1>4, <2>1, <3>1 DEF DiskInv, Ordered
  <2>2. CASE w \notin 1 .. Len(disk[g])
    <3>1. g = f /\ w = Len(disk[f]) + 1
      BY <1>3, <1>4, <2>2
    <3>2. CASE v = w
      BY <1>6, <3>2
    <3>3. CASE v # w
      <4>1. v \in 1 .. Len(disk[f]) /\ Len(disk[f]) \in 1 .. Len(disk[f]) /\ v <= Len(disk[f])
        BY <1>3, <3>1, <3>3
      <4>2. disk[f][v].mtime <= disk[f][Len(disk[f])].mtime
        BY <1>1, <4>1 DEF DiskInv, Ordered
      <4>3. disk[f][v].mtime \in Nat /\ disk[f][Len(disk[f])].mtime \in Nat
        BY <1>5, <4>1
      <4>4. disk'[g][v].mtime = disk[f][v].mtime
        BY <1>3, <3>1, <4>1
      <4>5. disk'[g][w].mtime >= disk[f][Len(disk[f])].mtime /\ disk'[g][w].mtime \in Nat
        BY <1>3, <1>6, <3>1
      <4> QED
        BY SMTT(30), <4>2, <4>3, <4>4, <4>5
    <3> QED
      BY <3>2, <3>3
  <2> QED
    BY <2>1, <2>2
<1>8. \A g \in Files : /\ Newest(disk, g) \in Nat /\ Newest(disk', g) \in Nat
                       /\ Newest(disk, g) <= Newest(disk', g)
  <2> SUFFICES ASSUME NEW g \in Files
               PROVE  /\ Newest(disk, g) \in Nat /\ Newest(disk', g) \in Nat
                      /\ Newest(disk, g) <= Newest(disk', g)
    OBVIOUS
  <2>1. Len(disk[g]) \in 1 .. Len(disk[g]) /\ Len(disk'[g]) \in 1 .. Len(disk'[g])
    BY <1>1, <1>4, FileCacheAssumption DEF ShapeInv
  <2>2. Newest(disk, g) \in Nat /\ Newest(disk', g) \in Nat
    BY <1>5, <1>6, <2>1 DEF Newest
  <2>3. disk'[g][Len(disk[g])] = disk[g][Len(disk[g])]
    BY <1>4, <2>1
  <2>4. Len(disk[g]) \in 1 .. Len(disk'[g]) /\ Len(disk[g]) <= Len(disk'[g])
    BY <1>4, <2>1
  <2> QED
    BY <1>7, <2>1, <2>2, <2>3, <2>4 DEF Ordered, Newest
<1>9. ASSUME NEW i, NEW g \in Files, NEW m, From(heap, disk, i, g, m)
      PROVE  From(heap, disk', i, g, m)
  <2> SUFFICES ASSUME NEW j \in 1 .. heap[i].size, heap[i].data[j] # Garbage
               PROVE  /\ heap[i].data[j] \in 1 .. Len(disk'[g])
                      /\ disk'[g][heap[i].data[j]].mtime >= m
    BY DEF From
  <2> DEFINE v == heap[i].data[j]
  <2>1. v \in 1 .. Len(disk[g]) /\ disk[g][v].mtime >= m
    BY <1>9 DEF From
  <2>2. v \in 1 .. Len(disk'[g]) /\ disk'[g][v] = disk[g][v]
    <3> HIDE DEF v
    <3> QED
      BY <1>4, <2>1
  <2> QED
    BY <2>1, <2>2
<1>10. DiskInv'
  <2>1. \A t \in Threads : stat[t].mtime \in Nat
    BY <1>1 DEF TypeOK, Stats
  <2> QED
    BY <1>1, <1>2, <1>7, <1>8, <2>1 DEF DiskInv
<1>11. OwnInv'
  BY <1>1, <1>2 DEF OwnInv
<1>12. StampInv'
  <2> SUFFICES ASSUME NEW g \in Files, file_cache[g] # Absent
               PROVE  /\ heap[file_cache[g]].modified <= Newest(disk', g)
                      /\ From(heap, disk', file_cache[g], g, heap[file_cache[g]].modified)
    BY <1>2 DEF StampInv
  <2>1. file_cache[g] \in 1 .. Len(heap)
    BY <1>1 DEF ShapeInv, Absent
  <2>2. heap[file_cache[g]].modified \in Nat
    BY <1>1, <2>1, Entries
  <2> QED
    BY <1>1, <1>8, <1>9, <2>2 DEF StampInv
<1>13. PastInv'
  BY <1>1, <1>2, <1>9 DEF PastInv, ShapeInv
<1>14. SentInv'
  <2> SUFFICES ASSUME NEW t \in Threads, NEW v \in sent[t] \ {Garbage}
               PROVE  v \in 1 .. Len(disk'[route[t]]) /\ disk'[route[t]][v].mtime >= stat[t].mtime
    BY <1>2 DEF SentInv
  <2>1. route[t] \in Files
    BY <1>1 DEF ShapeInv, TypeOK
  <2> QED
    BY <1>1, <1>4, <2>1 DEF SentInv
<1> QED
  BY <1>10, <1>11, <1>12, <1>13, <1>14

LEMMA FreshNext == FreshInv /\ [Next]_vars => FreshInv'
<1> SUFFICES ASSUME FreshInv, [Next]_vars PROVE FreshInv'
  OBVIOUS
<1>1. TypeInv'
  BY TypeNext DEF FreshInv
<1>2. CASE \E t \in Threads : Step(t)
  BY <1>1, <1>2, FreshReads, FreshRequest, FreshPublish, FreshLoadBuffer, FreshSendBuffer
  DEF Step, FreshInv
<1>3. ASSUME NEW f \in Files, Edit(f) PROVE FreshInv'
  BY <1>1, <1>3, FreshEdit DEF FreshInv
<1>4. CASE UNCHANGED vars
  BY <1>1, <1>4 DEF FreshInv, DiskInv, OwnInv, StampInv, PastInv, SentInv, vars, shared, locals
<1> QED
  BY <1>2, <1>3, <1>4 DEF Next, Dead

\* No response takes bytes older than the file its lstat found, whatever the threads
\* that replace, fill or erase the entry meanwhile do, and however often the file is
\* edited under them.
THEOREM FreshCorrect == Spec => []ServedFresh
<1>1. FreshInv => ServedFresh
  BY DEF FreshInv, SentInv, ServedFresh
<1> QED
  BY <1>1, FreshInit, FreshNext, PTL DEF Spec
-----------------------------------------------------------------------------
(* The ledger *)

\* s[i] is the memory of the first i entries of the heap h.
Sums(h, s) == s = [i \in 0 .. Len(h) |-> IF i = 0 THEN 0 ELSE s[i - 1] + h[i].size]

\* Quantified over the sums, since that they are unique is no matter here.
Balance(h, r) ==
    /\ \E s : Sums(h, s)
    /\ \A s : Sums(h, s) => s[Len(h)] \in Nat /\ r + s[Len(h)] = Budget

LedgerInv == TypeInv /\ LockInv /\ Balance(heap, remaining - Uncharged)

LEMMA LedgerInit == Init => LedgerInv
<1> SUFFICES ASSUME Init PROVE LedgerInv
  OBVIOUS
<1>1. heap = <<>> /\ Len(heap) = 0 /\ remaining = Budget
  BY DEF Init
<1>2. Sums(heap, [i \in 0 .. 0 |-> 0])
  BY <1>1 DEF Sums
<1>3. ASSUME NEW s, Sums(heap, s) PROVE s[Len(heap)] = 0
  <2>1. s = [i \in 0 .. 0 |-> IF i = 0 THEN 0 ELSE s[i - 1] + heap[i].size]
    BY <1>1, <1>3 DEF Sums
  <2> HIDE <1>3
  <2>2. s[0] = 0
    BY <2>1
  <2> QED
    BY <1>1, <2>2
<1>4. Uncharged = 0
  BY DEF Init, Uncharged
<1> QED
  BY <1>1, <1>2, <1>3, <1>4, TypeInit, LockInit, FileCacheAssumption DEF LedgerInv, Balance

\* One more entry takes what it is charged.
LEMMA BalanceCharged ==
    ASSUME NEW h, NEW k, Len(h) \in Nat, Len(k) = Len(h) + 1,
           \A i \in 1 .. Len(h) : k[i] = h[i], k[Len(k)].size \in Nat,
           NEW r \in Int, Balance(h, r)
    PROVE  Balance(k, r - k[Len(k)].size)
<1> DEFINE n == Len(h)
           z == k[Len(k)].size
<1>1. \E s : Sums(k, s)
  <2>1. PICK s : Sums(h, s)
    BY DEF Balance
  <2> DEFINE w == [i \in 0 .. n + 1 |-> IF i = n + 1 THEN s[n] + z ELSE s[i]]
  <2>2. s = [i \in 0 .. n |-> IF i = 0 THEN 0 ELSE s[i - 1] + h[i].size]
    BY <2>1 DEF Sums
  <2>3. ASSUME NEW i \in 0 .. n + 1
        PROVE  w[i] = IF i = 0 THEN 0 ELSE w[i - 1] + k[i].size
    <3>1. CASE i = n + 1
      <4>1. w[i] = s[n] + z /\ i # 0 /\ i - 1 \in 0 .. n + 1 /\ i - 1 # n + 1 /\ i - 1 = n
        BY <3>1
      <4>2. w[i - 1] = s[n]
        BY <4>1
      <4> QED
        BY <3>1, <4>1, <4>2
    <3>2. CASE i # n + 1
      <4>1. i \in 0 .. n /\ w[i] = s[i]
        BY <3>2
      <4>2. s[i] = IF i = 0 THEN 0 ELSE s[i - 1] + h[i].size
        BY <2>2, <4>1
      <4>3. i # 0 => w[i - 1] = s[i - 1] /\ k[i] = h[i]
        BY <4>1
      <4> QED
        BY <4>1, <4>2, <4>3
    <3> QED
      BY <3>1, <3>2
  <2>4. w = [i \in 0 .. n + 1 |-> w[i]]
    OBVIOUS
  <2> HIDE DEF w
  <2>5. w = [i \in 0 .. n + 1 |-> IF i = 0 THEN 0 ELSE w[i - 1] + k[i].size]
    BY <2>3, <2>4
  <2> QED
    BY <2>5 DEF Sums
<1>2. ASSUME NEW s, Sums(k, s)
      PROVE  s[Len(k)] \in Nat /\ (r - z) + s[Len(k)] = Budget
  <2>1. s = [i \in 0 .. n + 1 |-> IF i = 0 THEN 0 ELSE s[i - 1] + k[i].size]
    BY <1>2 DEF Sums
  <2>2. \A i \in 0 .. n + 1 : s[i] = IF i = 0 THEN 0 ELSE s[i - 1] + k[i].size
    BY <2>1
  <2> DEFINE w == [i \in 0 .. n |-> s[i]]
  <2>3. \A i \in 0 .. n : w[i] = IF i = 0 THEN 0 ELSE w[i - 1] + h[i].size
    <3> SUFFICES ASSUME NEW i \in 0 .. n PROVE w[i] = IF i = 0 THEN 0 ELSE w[i - 1] + h[i].size
      OBVIOUS
    <3>1. w[i] = s[i] /\ (i # 0 => w[i - 1] = s[i - 1] /\ k[i] = h[i])
      OBVIOUS
    <3> QED
      BY <2>2, <3>1
  <2>4. w = [i \in 0 .. n |-> w[i]] /\ w[n] = s[n]
    OBVIOUS
  <2> HIDE DEF w
  <2>5. w = [i \in 0 .. n |-> IF i = 0 THEN 0 ELSE w[i - 1] + h[i].size]
    BY <2>3, <2>4
  <2>6. w[n] \in Nat /\ r + w[n] = Budget
    BY <2>5 DEF Balance, Sums
  <2>7. s[n + 1] = s[n] + z
    BY <2>2
  <2> QED
    BY <2>4, <2>6, <2>7
<1> QED
  BY <1>1, <1>2 DEF Balance

\* Filling an entry costs nothing.
LEMMA BalanceFilled ==
    ASSUME NEW h, NEW k, Len(k) = Len(h), \A i \in 1 .. Len(h) : k[i].size = h[i].size,
           Len(h) \in Nat, NEW r, Balance(h, r)
    PROVE  Balance(k, r)
<1>1. ASSUME NEW s PROVE Sums(h, s) <=> Sums(k, s)
  <2> DEFINE a == [i \in 0 .. Len(h) |-> IF i = 0 THEN 0 ELSE s[i - 1] + h[i].size]
             b == [i \in 0 .. Len(h) |-> IF i = 0 THEN 0 ELSE s[i - 1] + k[i].size]
  <2>1. a = b
    OBVIOUS
  <2> QED
    BY <2>1 DEF Sums
<1> QED
  BY <1>1 DEF Balance

\* What is uncharged is so by the holder of the lock alone.
LEMMA UnchargedKept ==
    ASSUME TypeOK, NEW t \in Threads, pc[t] # "charge", pc'[t] # "charge",
           \A u \in Threads : u # t => pc'[u] = pc[u] /\ stat'[u] = stat[u],
           mutex' = mutex \/ (mutex \in {NoThread, t} /\ mutex' \in {NoThread, t})
    PROVE  Uncharged' = Uncharged
  BY FileCacheAssumption DEF Uncharged, TypeOK

LEMMA LedgerNext == LedgerInv /\ [Next]_vars => LedgerInv'
<1> SUFFICES ASSUME LedgerInv, [Next]_vars PROVE LedgerInv'
  OBVIOUS
<1>1. TypeInv' /\ LockInv'
  BY TypeNext, LockNext DEF LedgerInv
<1>2. /\ TypeInv /\ TypeOK /\ LockInv /\ HolderLoads /\ Balance(heap, remaining - Uncharged)
      /\ Len(heap) \in Nat /\ remaining \in Int
      /\ \A t \in Threads : stat[t].size \in Nat
  <2>1. \A t \in Threads : stat[t] \in Stats
    BY DEF LedgerInv, TypeInv, TypeOK
  <2>2. \A t \in Threads : stat[t].size \in Nat
    BY <2>1 DEF Stats, Sizes
  <2>3. TypeOK /\ LockInv /\ HolderLoads
    BY DEF LedgerInv, TypeInv, LockInv
  <2>4. Len(heap) \in Nat /\ remaining \in Int
    BY <2>3 DEF TypeOK
  <2> QED
    BY <2>2, <2>3, <2>4 DEF LedgerInv
<1>3. ASSUME NEW t \in Threads, Publish(t) PROVE LedgerInv'
  <2>1. /\ Len(heap') = Len(heap) + 1 /\ \A i \in 1 .. Len(heap) : heap'[i] = heap[i]
        /\ heap' \in Seq(CachedFiles)
    BY <1>2, <1>3, PublishDoes
  <2>2. heap'[Len(heap')].size = stat[t].size /\ remaining' = remaining
    BY <1>2, <1>3 DEF Publish, TypeOK
  <2>3. pc[t] = "publish" /\ mutex = t /\ pc'[t] = "charge" /\ UNCHANGED <<mutex, stat>>
    BY <1>2, <1>3 DEF Publish, Goto, HolderLoads, TypeOK
  <2>4. Uncharged = 0 /\ Uncharged' = stat[t].size
    BY <2>3, FileCacheAssumption DEF Uncharged
  <2>5. Balance(heap', remaining - stat[t].size)
    BY <1>2, <2>1, <2>2, <2>4, BalanceCharged
  <2> QED
    BY <1>1, <2>2, <2>4, <2>5 DEF LedgerInv
<1>4. ASSUME NEW t \in Threads, Charge(t) PROVE LedgerInv'
  <2>1. /\ pc[t] = "charge" /\ mutex = t /\ pc'[t] = "load" /\ UNCHANGED <<mutex, heap>>
        /\ remaining' = remaining - stat[t].size
    BY <1>2, <1>4 DEF Charge, DataLength, Goto, HolderLoads, TypeOK
  <2>2. Uncharged = stat[t].size /\ Uncharged' = 0
    BY <2>1, FileCacheAssumption DEF Uncharged
  <2>3. remaining' - Uncharged' = remaining - Uncharged
    BY <1>2, <2>1, <2>2
  <2> QED
    BY <1>1, <1>2, <2>1, <2>3 DEF LedgerInv
<1>5. ASSUME NEW t \in Threads, LoadBuffer(t) PROVE LedgerInv'
  <2>1. pc[t] = "load" /\ mutex = t /\ UNCHANGED <<remaining, stat>>
    BY <1>2, <1>5 DEF LoadBuffer, Crash, HolderLoads, locals
  <2>2. /\ mutex' \in {NoThread, t} /\ pc'[t] # "charge"
        /\ \A u \in Threads : u # t => pc'[u] = pc[u] /\ stat'[u] = stat[u]
    BY <1>2, <1>5, <2>1 DEF LoadBuffer, Crash, Goto, TypeOK, locals
  <2>3. Uncharged' = Uncharged
    BY <1>2, <2>1, <2>2, UnchargedKept
  <2>4. CASE heap' = heap
    BY <1>1, <1>2, <2>1, <2>3, <2>4 DEF LedgerInv
  <2>5. CASE heap' # heap
    <3>1. Len(heap') = Len(heap) /\ \A i \in 1 .. Len(heap) : heap'[i].size = heap[i].size
      BY <1>2, <1>5, <2>5, LoadWrites
    <3> QED
      BY <1>1, <1>2, <2>1, <2>3, <3>1, BalanceFilled DEF LedgerInv
  <2> QED
    BY <2>4, <2>5
<1>6. CASE UNCHANGED <<heap, remaining, mutex, pc, stat>>
  BY <1>1, <1>2, <1>6 DEF LedgerInv, Uncharged
<1>7. ASSUME NEW t \in Threads,
             \/ \E f \in Files : Request(t, f)
             \/ Check(t) \/ Compare(t) \/ Erase(t) \/ CheckAbsent(t) \/ CheckRoom(t)
             \/ TryLock(t) \/ LoadFails(t) \/ Lookup(t) \/ Fetch(t) \/ SendBuffer(t) \/ SendFails(t)
      PROVE  LedgerInv'
  <2>1. UNCHANGED <<heap, remaining>>
    BY <1>7 DEF Request, Check, Compare, Erase, CheckAbsent, CheckRoom, TryLock, LoadFails,
       Lookup, Fetch, SendBuffer, SendFails, Crash, shared
  <2>2. /\ pc[t] # "charge" /\ pc'[t] # "charge"
        /\ \A u \in Threads : u # t => pc'[u] = pc[u] /\ stat'[u] = stat[u]
    BY <1>2, <1>7 DEF Request, Check, Compare, Erase, CheckAbsent, CheckRoom, TryLock, LoadFails,
       Lookup, Fetch, SendBuffer, SendFails, Crash, Return, Goto, TypeOK, locals
  <2>3. mutex' = mutex \/ (mutex \in {NoThread, t} /\ mutex' \in {NoThread, t})
    <3>1. LoadFails(t) => mutex = t
      BY <1>2 DEF LoadFails, HolderLoads
    <3> QED
      BY <1>7, <3>1 DEF Request, Check, Compare, Erase, CheckAbsent, CheckRoom, TryLock, LoadFails,
         Lookup, Fetch, SendBuffer, SendFails, Crash, Unlocked, shared
  <2> QED
    BY <1>1, <1>2, <2>1, <2>2, <2>3, UnchargedKept DEF LedgerInv
<1>8. CASE \E t \in Threads : Step(t)
  BY <1>3, <1>4, <1>5, <1>7, <1>8 DEF Step
<1> QED
  BY <1>6, <1>8 DEF Next, Dead, Edit, vars, shared, locals

\* Nothing the threads interleave with the loading loses or doubles a charge: what is
\* left and what was ever allocated add up to the size of the cache, but for the entry
\* about to be charged.
THEOREM LedgerCorrect == Spec => []LedgerBalances
<1>1. LedgerInv => LedgerBalances
  <2> SUFFICES ASSUME LedgerInv PROVE LedgerBalances
    OBVIOUS
  <2> DEFINE sum == CHOOSE s : s = [i \in 0 .. Len(heap) |->
                                      IF i = 0 THEN 0 ELSE s[i - 1] + heap[i].size]
  <2>1. \E s : Sums(heap, s)
    BY DEF LedgerInv, Balance
  <2>2. Sums(heap, sum)
    BY <2>1 DEF Sums
  <2>3. Allocated = sum[Len(heap)]
    BY DEF Allocated
  <2> HIDE DEF sum
  <2>4. sum[Len(heap)] \in Nat /\ remaining - Uncharged + sum[Len(heap)] = Budget
    BY <2>2 DEF LedgerInv, Balance
  <2>5. remaining \in Int /\ Uncharged \in Int
    BY DEF LedgerInv, TypeInv, TypeOK, Stats, Sizes, Uncharged
  <2> QED
    BY <2>3, <2>4, <2>5, FileCacheAssumption DEF LedgerBalances
<1> QED
  BY <1>1, LedgerInit, LedgerNext, PTL DEF Spec
=============================================================================
