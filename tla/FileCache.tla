----------------------------- MODULE FileCache -----------------------------
(***************************************************************************)
(* HttpApi::respond_http and its in-memory cache of files.  Every thread of *)
(* the server runs it at once; file_cache_mutex is only ever try-locked,    *)
(* around loading a file, and everything else reads and writes file_cache   *)
(* and file_cache_remaining_bytes without a lock.  Files are edited while   *)
(* they are served.                                                         *)
(*                                                                         *)
(* The model steps between the accesses the code makes to shared state; one *)
(* access is atomic, as is reading a buffer of a file and copying it, with  *)
(* the unlock if it is the last.  Sizes are in buffers of BUFFER_LIMIT      *)
(* bytes.                                                                   *)
(***************************************************************************)
EXTENDS Integers, Sequences, FiniteSets, SequencesExt

CONSTANTS
    Threads,      \* the server's threads
    Files,        \* clean_route of every regular file below public_directory
    Unreadable,   \* files whose open or read may fail although lstat succeeds
    MaxSize,      \* size of the largest file
    Budget,       \* file_cache_remaining_bytes at the start
    MaxEdits,     \* bound on the versions of a file
    NoThread, NoFile

ASSUME FileCacheAssumption ==
    /\ IsFiniteSet(Threads) /\ Threads # {} /\ NoThread \notin Threads
    /\ Unreadable \subseteq Files /\ NoFile \notin Files
    /\ MaxSize \in Nat \ {0} /\ Budget \in Nat /\ MaxEdits \in Nat \ {0}

VARIABLES
    disk,        \* every version of each file so far: its mtime and its size
    file_cache,  \* index into heap of each file's CachedFile, or Absent
    heap,        \* the CachedFile objects ever allocated; none is deleted
    remaining,   \* file_cache_remaining_bytes
    mutex,       \* file_cache_mutex
    running,     \* whether the process is alive
    \* Locals of respond_http
    pc, route,
    stat,        \* route_stat: the mtime and size lstat reported
    entry,       \* cached_file
    offset,      \* the buffer to read or send next
    sent         \* versions the response has taken its bytes from so far

shared == <<disk, file_cache, heap, remaining, mutex, running>>
locals == <<pc, route, stat, entry, offset, sent>>
vars == <<shared, locals>>

Absent == 0
Garbage == 0      \* a buffer of new char[] that nothing was read into
Sizes == 1 .. MaxSize
PCs == {"idle", "check", "compare", "erase", "absent", "room", "lock", "publish", "charge",
        "load", "lookup", "fetch", "send"}

Init ==
    /\ \E size \in [Files -> Sizes] :
         disk = [f \in Files |-> <<[mtime |-> 0, size |-> size[f]]>>]
    /\ file_cache = [f \in Files |-> Absent]
    /\ heap = <<>> /\ remaining = Budget
    /\ mutex = NoThread /\ running = TRUE
    /\ pc = [t \in Threads |-> "idle"] /\ route = [t \in Threads |-> NoFile]
    /\ stat = [t \in Threads |-> [mtime |-> 0, size |-> 1]]
    /\ entry = [t \in Threads |-> Absent] /\ offset = [t \in Threads |-> 1]
    /\ sent = [t \in Threads |-> {}]

Goto(t, label) == pc' = [pc EXCEPT ![t] = label]

\* The response is over; cached_file and the offset into it go out of scope.
Return(t) ==
    /\ Goto(t, "idle")
    /\ entry' = [entry EXCEPT ![t] = Absent]
    /\ offset' = [offset EXCEPT ![t] = 1]

\* A null CachedFile* is dereferenced, or the heap is corrupted: the process dies.
Crash ==
    /\ running' = FALSE
    /\ UNCHANGED <<disk, file_cache, heap, remaining, mutex, locals>>

-----------------------------------------------------------------------------
(* Checking for a newer file *)

\* lstat
Request(t, f) ==
    /\ pc[t] = "idle"
    /\ route' = [route EXCEPT ![t] = f]
    /\ stat' = [stat EXCEPT ![t] = Last(disk[f])]
    /\ sent' = [sent EXCEPT ![t] = {}]
    /\ Goto(t, "check")
    /\ UNCHANGED <<shared, entry, offset>>

\* file_cache.count(clean_route)
Check(t) ==
    /\ pc[t] = "check"
    /\ Goto(t, IF file_cache[route[t]] = Absent THEN "absent" ELSE "compare")
    /\ UNCHANGED <<shared, route, stat, entry, offset, sent>>

\* Mutant: an entry is replaced only by a smaller modification time.
OutdatedBackwards(t, e) == stat[t].mtime < e.modified

\* route_stat.st_mtime != modified
Outdated(t, e) == stat[t].mtime # e.modified

\* operator[] of an entry erased meanwhile inserts a null pointer.
Compare(t) ==
    /\ pc[t] = "compare"
    /\ \/ /\ file_cache[route[t]] = Absent
          /\ Crash
       \/ /\ file_cache[route[t]] # Absent
          /\ Goto(t, IF Outdated(t, heap[file_cache[route[t]]]) THEN "erase" ELSE "absent")
          /\ UNCHANGED <<shared, route, stat, entry, offset, sent>>

\* erase forgets whatever entry is there now; its memory is kept, and charged.
Erase(t) ==
    /\ pc[t] = "erase"
    /\ file_cache' = [file_cache EXCEPT ![route[t]] = Absent]
    /\ Goto(t, "absent")
    /\ UNCHANGED <<disk, heap, remaining, mutex, running, route, stat, entry,
                   offset, sent>>

-----------------------------------------------------------------------------
(* Loading *)

\* !file_cache.count(clean_route)
CheckAbsent(t) ==
    /\ pc[t] = "absent"
    /\ Goto(t, IF file_cache[route[t]] = Absent THEN "room" ELSE "lookup")
    /\ UNCHANGED <<shared, route, stat, entry, offset, sent>>

\* Mutant: the file is cached whatever is left.
RoomIgnored(t) == TRUE

\* file_cache_remaining_bytes > route_stat.st_size
HasRoom(t) == remaining > stat[t].size

CheckRoom(t) ==
    /\ pc[t] = "room"
    /\ Goto(t, IF HasRoom(t) THEN "lock" ELSE "lookup")
    /\ UNCHANGED <<shared, route, stat, entry, offset, sent>>

\* try_lock
TryLock(t) ==
    /\ pc[t] = "lock"
    /\ \/ /\ mutex = NoThread
          /\ mutex' = t
          /\ Goto(t, "publish")
       \/ /\ mutex # NoThread
          /\ Goto(t, "lookup")
          /\ UNCHANGED mutex
    /\ UNCHANGED <<disk, file_cache, heap, remaining, running, route, stat, entry, offset, sent>>

\* An unfilled entry is put into the cache.
Publish(t) ==
    /\ pc[t] = "publish"
    /\ heap' = Append(heap, [size     |-> stat[t].size,
                             modified |-> stat[t].mtime,
                             data     |-> [i \in 1 .. stat[t].size |-> Garbage]])
    /\ entry' = [entry EXCEPT ![t] = Len(heap) + 1]
    /\ file_cache' = [file_cache EXCEPT ![route[t]] = Len(heap) + 1]
    /\ offset' = [offset EXCEPT ![t] = 1]
    /\ Goto(t, "charge")
    /\ UNCHANGED <<disk, remaining, mutex, running, route, stat, sent>>

\* Mutant: the budget is charged with the size the file has by now.
LengthNow(t) == Last(disk[route[t]]).size

\* data_length
DataLength(t) == stat[t].size

Charge(t) ==
    /\ pc[t] = "charge"
    /\ remaining' = remaining - DataLength(t)
    /\ Goto(t, "load")
    /\ UNCHANGED <<disk, file_cache, heap, mutex, running, route, stat, entry, offset, sent>>

\* Mutant: an early return forgets the lock.
StillLocked == mutex

\* file_cache_mutex.unlock() before an early return.
Unlocked == NoThread

\* open or read fails: the request fails, the entry stays as it is.
LoadFails(t) ==
    /\ pc[t] = "load" /\ route[t] \in Unreadable
    /\ mutex' = Unlocked
    /\ Return(t)
    /\ UNCHANGED <<disk, file_cache, heap, remaining, running, route, stat, sent>>

\* Mutant: only an empty read ends the loop.
EmptyRead(size, i) == i > size

\* len < BUFFER_LIMIT: the i-th buffer is the last of a file of this size.
ShortRead(size, i) == i >= size

\* One read and memcpy.  A file that has grown since lstat is copied past the
\* end of its entry, and if that does no visible harm the bytes are lost.
LoadBuffer(t) ==
    LET size == Last(disk[route[t]]).size
        past == offset[t] > heap[entry[t]].size /\ offset[t] <= size
    IN
    /\ pc[t] = "load"
    /\ \/ /\ past
          /\ Crash
       \/ /\ heap' = IF past \/ offset[t] > size THEN heap
                     ELSE [heap EXCEPT ![entry[t]].data[offset[t]] = Len(disk[route[t]])]
          /\ \/ /\ ShortRead(size, offset[t])
                /\ mutex' = NoThread
                /\ Goto(t, "lookup")
                /\ UNCHANGED offset
             \/ /\ ~ShortRead(size, offset[t])
                /\ offset' = [offset EXCEPT ![t] = @ + 1]
                /\ UNCHANGED <<mutex, pc>>
          /\ UNCHANGED <<disk, file_cache, remaining, running, route, stat, entry, sent>>

-----------------------------------------------------------------------------
(* Responding *)

\* Present: go on to the entry.  Otherwise respond_view reads the file itself.
Lookup(t) ==
    /\ pc[t] = "lookup"
    /\ \/ /\ file_cache[route[t]] = Absent
          /\ Return(t)
       \/ /\ file_cache[route[t]] # Absent
          /\ Goto(t, "fetch")
          /\ UNCHANGED <<entry, offset>>
    /\ UNCHANGED <<shared, route, stat, sent>>

\* cached_file = file_cache[clean_route], and its first use.
Fetch(t) ==
    /\ pc[t] = "fetch"
    /\ \/ /\ file_cache[route[t]] = Absent
          /\ Crash
       \/ /\ file_cache[route[t]] # Absent
          /\ entry' = [entry EXCEPT ![t] = file_cache[route[t]]]
          /\ offset' = [offset EXCEPT ![t] = 1]
          /\ Goto(t, "send")
          /\ UNCHANGED <<shared, route, stat, sent>>

\* respond_cached_file sends one buffer of the entry, whatever is in it by now.
SendBuffer(t) ==
    LET e == heap[entry[t]] IN
    /\ pc[t] = "send"
    /\ sent' = [sent EXCEPT ![t] = @ \cup {e.data[offset[t]]}]
    /\ \/ /\ offset[t] = e.size
          /\ Return(t)
       \/ /\ offset[t] < e.size
          /\ offset' = [offset EXCEPT ![t] = @ + 1]
          /\ UNCHANGED <<pc, entry>>
    /\ UNCHANGED <<shared, route, stat>>

\* The client is gone: send fails.
SendFails(t) ==
    /\ pc[t] = "send"
    /\ Return(t)
    /\ UNCHANGED <<shared, route, stat, sent>>

-----------------------------------------------------------------------------
\* Somebody edits a file, within the same second as its last edit or later.
Edit(f) ==
    /\ Len(disk[f]) < MaxEdits
    /\ \E size \in Sizes, mtime \in {Last(disk[f]).mtime, Last(disk[f]).mtime + 1} :
         disk' = [disk EXCEPT ![f] = Append(@, [mtime |-> mtime, size |-> size])]
    /\ UNCHANGED <<file_cache, heap, remaining, mutex, running, locals>>

Step(t) ==
    \/ \E f \in Files : Request(t, f)
    \/ Check(t) \/ Compare(t) \/ Erase(t)
    \/ CheckAbsent(t) \/ CheckRoom(t) \/ TryLock(t) \/ Publish(t) \/ Charge(t)
    \/ LoadFails(t) \/ LoadBuffer(t)
    \/ Lookup(t) \/ Fetch(t) \/ SendBuffer(t) \/ SendFails(t)

Dead == ~running /\ UNCHANGED vars

Next ==
    \/ running /\ (\/ \E t \in Threads : Step(t)
                   \/ \E f \in Files : Edit(f))
    \/ Dead

Spec == Init /\ [][Next]_vars

-----------------------------------------------------------------------------
(* Properties *)

CachedFiles == [size : Sizes, modified : Nat, data : Seq(0 .. MaxEdits)]
Stats == [mtime : Nat, size : Sizes]

\* Every variable holds a value of its type.
TypeOK ==
    /\ disk \in [Files -> Seq(Stats)]
    /\ heap \in Seq(CachedFiles)
    /\ file_cache \in [Files -> Nat] /\ remaining \in Int
    /\ mutex \in Threads \cup {NoThread} /\ running \in BOOLEAN
    /\ pc \in [Threads -> PCs] /\ route \in [Threads -> Files \cup {NoFile}]
    /\ stat \in [Threads -> Stats]
    /\ entry \in [Threads -> Nat] /\ offset \in [Threads -> Sizes]
    /\ sent \in [Threads -> SUBSET (0 .. MaxEdits)]

\* file_cache_mutex is held exactly by the one thread that makes, charges and fills an
\* entry: no way out of the loading code keeps it, after which nothing would be cached
\* again.
HolderLoads == \A t \in Threads : mutex = t <=> pc[t] \in {"publish", "charge", "load"}

\* The memory of all entries ever made.
Allocated ==
    LET sum[i \in 0 .. Len(heap)] == IF i = 0 THEN 0 ELSE sum[i - 1] + heap[i].size
    IN  sum[Len(heap)]

\* The entry that is in the cache and not charged yet.
Uncharged == IF mutex # NoThread /\ pc[mutex] = "charge" THEN stat[mutex].size ELSE 0

\* file_cache_remaining_bytes and the memory of all entries ever made add up to the
\* size of the cache, but for the one entry that its loader is about to charge,
\* however the threads that read it without a lock interleave.
LedgerBalances == remaining + Allocated = Budget + Uncharged

\* Between the check for room and the charge the room may go to another thread, but
\* the cache outgrows its size by less than one file for each thread.
CacheBounded == remaining > -(Cardinality(Threads) * MaxSize)

\* Bytes that were read from a file are never older than the file lstat found for
\* the request: not when another thread replaces the entry meanwhile, fills it with
\* a stale lstat of its own, or erases the newer one.
ServedFresh ==
    \A t \in Threads : \A v \in sent[t] \ {Garbage} :
      disk[route[t]][v].mtime >= stat[t].mtime
=============================================================================
