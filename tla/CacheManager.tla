---------------------------- MODULE CacheManager ----------------------------
(***************************************************************************)
(* fileio::fixed_size_cache_manager and its cache_blocks                   *)
(* (fileio/fixed_size_cache_manager.cpp and .hpp), with the streams that   *)
(* write and read them (fileio/cache_stream_sink.cpp and                   *)
(* cache_stream_source.cpp): temporary files that are kept in memory while *)
(* there is room and are moved to disk when there is not.                  *)
(*                                                                         *)
(* A block lives as long as the manager's map or a stream refers to it.    *)
(* The manager's mutex protects the map; the utilization is an atomic that *)
(* every writer reads and changes without it.  A section between two       *)
(* accesses to the utilization is one step.  Bytes are counted in units    *)
(* and a block's content is how many of them have been written; the file   *)
(* of a block is named by the block.                                       *)
(*                                                                         *)
(* Users keep to this protocol (BroadcastQueue and the sframe writers do): *)
(* nobody opens a file that is being written, created or deleted, nobody   *)
(* overwrites one that is open, and a file that is read is not empty.      *)
(***************************************************************************)
EXTENDS Integers, FiniteSets, FiniteSetsExt

CONSTANTS
  Threads, Ids,
  MaxBlocks,          \* bound: the cache_block objects that exist at a time
  Initial,            \* FILEIO_INITIAL_CAPACITY_PER_FILE
  PerFile,            \* FILEIO_MAXIMUM_CACHE_CAPACITY_PER_FILE
  Maximum,            \* FILEIO_MAXIMUM_CACHE_CAPACITY
  WriteSizes,         \* the sizes of one write
  MaxSize             \* bound: units in a file

ASSUME CacheManagerAssumption ==
  /\ IsFiniteSet(Threads) /\ IsFiniteSet(Ids) /\ MaxBlocks \in Nat
  /\ Initial \in Nat \ {0} /\ PerFile \in Nat /\ Maximum \in Nat /\ MaxSize \in Nat
  /\ WriteSizes \subseteq Nat \ {0}

Blocks == 1 .. MaxBlocks
NoBlock == 0                                            \* nullptr
Unused == [exists |-> FALSE]
NoFile == -1

VARIABLES
  block,              \* the fields of every cache_block that exists
  cache_blocks,       \* the manager's map
  current_cache_utilization,
  disk,               \* the length of every block's temporary file
  thread              \* what each thread does, to which file and block

vars == <<block, cache_blocks, current_cache_utilization, disk, thread>>

Idle == [pc |-> "idle"]

Init ==
  /\ block = [b \in Blocks |-> Unused]
  /\ cache_blocks = [i \in Ids |-> NoBlock]
  /\ current_cache_utilization = 0
  /\ disk = [b \in Blocks |-> NoFile]
  /\ thread = [t \in Threads |-> Idle]
-----------------------------------------------------------------------------
Busy == {t \in Threads : thread[t].pc # "idle"}
Users(i) == {t \in Busy : thread[t].id = i}
Readers(i) == {t \in Users(i) : thread[t].pc = "reading"}
Holders(b) == {t \in Busy : thread[t].block = b}
mutex_free == \A t \in Busy : thread[t].pc \notin {"clear", "initialize"}

is_pointer(b) == ~ block[b].is_file
Min2(x, y) == IF x < y THEN x ELSE y
Max2(x, y) == IF x > y THEN x ELSE y

(* Definitions whose comment starts with "Variant" are faulty versions of  *)
(* the definition that follows; nothing in the specification uses them.    *)

\* cache_block::release_memory()
Released(r) == [r EXCEPT !.data = FALSE, !.size = 0, !.capacity = 0, !.maximum_capacity = 0]
MemoryOf(r) == IF r.exists /\ r.data THEN r.capacity ELSE 0

\* ~cache_block(), for the blocks that the map m and the threads th have let go
\* of; used in every step that drops a reference.
Dead(m, th) ==
  {b \in Blocks : /\ block[b].exists
                  /\ \A i \in Ids : m[i] # b
                  /\ \A t \in Threads : th[t].pc # "idle" => th[t].block # b}

\* Variant: the file of a destroyed block is left on disk.
DestroyKeepsFile(m, th) ==
  /\ cache_blocks' = m /\ thread' = th
  /\ block' = [b \in Blocks |-> IF b \in Dead(m, th) THEN Unused ELSE block[b]]
  /\ disk' = disk
  /\ current_cache_utilization' = current_cache_utilization
       - SumFunction([b \in Dead(m, th) |-> MemoryOf(block[b])])

Destroy(m, th) ==
  /\ cache_blocks' = m /\ thread' = th
  /\ block' = [b \in Blocks |-> IF b \in Dead(m, th) THEN Unused ELSE block[b]]
  /\ disk' = [b \in Blocks |-> IF b \in Dead(m, th) THEN NoFile ELSE disk[b]]
  /\ current_cache_utilization' = current_cache_utilization
       - SumFunction([b \in Dead(m, th) |-> MemoryOf(block[b])])
-----------------------------------------------------------------------------
(* new_cache(): evict if the cache is full, then choose how far the new    *)
(* block may grow.                                                         *)

\* Variant: a block that a stream still uses may be evicted.
EvictableInUse == {b \in Blocks : /\ \E i \in Ids : cache_blocks[i] = b
                                  /\ is_pointer(b) /\ block[b].size > 0}

\* try_cache_evict(): unique() and in memory.
Evictable == {b \in Blocks : /\ \E i \in Ids : cache_blocks[i] = b
                             /\ Holders(b) = {}
                             /\ is_pointer(b) /\ block[b].size > 0}

\* write_to_file(): the block moves to disk.
ToFile(b) == [Released(block[b]) EXCEPT !.is_file = TRUE]

Evict ==
  IF current_cache_utilization >= Maximum /\ Evictable # {}
    THEN \E b \in Evictable :
           /\ \A c \in Evictable : block[c].size <= block[b].size
           /\ block' = [block EXCEPT ![b] = ToFile(b)]
           /\ disk' = [disk EXCEPT ![b] = block[b].size]
           /\ current_cache_utilization' = current_cache_utilization - MemoryOf(block[b])
    ELSE UNCHANGED <<block, disk, current_cache_utilization>>

\* The objects that can be allocated; which one is taken does not matter.
FreeBlocks == {b \in Blocks : ~ block[b].exists /\ Holders(b) = {}}

RoomLeft(u) == IF u < Maximum THEN Min2(PerFile, Maximum - u) ELSE 0

NewCache(t, i) ==
  /\ thread[t].pc = "idle" /\ mutex_free /\ Users(i) = {}
  /\ Evict
  /\ LET max == RoomLeft(current_cache_utilization')
         b   == cache_blocks[i]
     IN  IF b = NoBlock
           THEN /\ FreeBlocks # {}
                /\ thread' = [thread EXCEPT ![t] =
                     [pc |-> "initialize", id |-> i, block |-> Min(FreeBlocks), max |-> max]]
           ELSE thread' = [thread EXCEPT ![t] =
                  [pc |-> "clear", id |-> i, block |-> b,
                   max |-> IF block'[b].is_file THEN max ELSE block'[b].maximum_capacity]]
  /\ UNCHANGED cache_blocks

\* Variant: the memory of an overwritten block stays counted.
ClearUncounted(t) ==
  /\ thread[t].pc = "clear"
  /\ LET b == thread[t].block
     IN  /\ block' = [block EXCEPT ![b] = [Released(@) EXCEPT !.is_file = FALSE]]
         /\ disk' = [disk EXCEPT ![b] = NoFile]
  /\ thread' = [thread EXCEPT ![t].pc = "initialize"]
  /\ UNCHANGED <<cache_blocks, current_cache_utilization>>

\* cache_block::clear(): an overwritten block gives up its memory or its file.
Clear(t) ==
  /\ thread[t].pc = "clear"
  /\ LET b == thread[t].block
     IN  /\ current_cache_utilization' = current_cache_utilization - MemoryOf(block[b])
         /\ block' = [block EXCEPT ![b] = [Released(@) EXCEPT !.is_file = FALSE]]
         /\ disk' = [disk EXCEPT ![b] = NoFile]
  /\ thread' = [thread EXCEPT ![t].pc = "initialize"]
  /\ UNCHANGED cache_blocks

\* cache_block::initialize_memory(), and the sink that new_cache() returns to.
InitializeMemory(t) ==
  /\ thread[t].pc = "initialize"
  /\ LET b == thread[t].block  max == thread[t].max  cap == Min2(Initial, max)
     IN  /\ block' = [block EXCEPT ![b] =
               [exists |-> TRUE, maximum_capacity |-> max, capacity |-> cap, size |-> 0,
                data |-> cap > 0, is_file |-> FALSE, written |-> 0]]
         /\ cache_blocks' = [cache_blocks EXCEPT ![thread[t].id] = b]
         /\ current_cache_utilization' = current_cache_utilization + cap
         /\ thread' = [thread EXCEPT ![t] =
               [pc |-> "writing", id |-> thread[t].id, block |-> b]]
  /\ UNCHANGED disk
-----------------------------------------------------------------------------
(* cache_stream_sink::write(): to the file if the block has one, into its  *)
(* memory, or, when that cannot grow, to a file from here on.              *)

Writes(t, n) == thread[t].pc = "writing" /\ block[thread[t].block].written + n <= MaxSize

WriteFile(t, n) ==
  LET b == thread[t].block
  IN  /\ Writes(t, n)
      /\ block[b].is_file
      /\ disk' = [disk EXCEPT ![b] = @ + n]
      /\ block' = [block EXCEPT ![b].written = @ + n]
      /\ UNCHANGED <<cache_blocks, current_cache_utilization, thread>>

Fits(r, n) == r.data /\ r.size + n <= r.capacity

WriteMemory(t, n) ==
  LET b == thread[t].block
  IN  /\ Writes(t, n)
      /\ ~ block[b].is_file /\ Fits(block[b], n)
      /\ block' = [block EXCEPT ![b].size = @ + n, ![b].written = @ + n]
      /\ UNCHANGED <<cache_blocks, current_cache_utilization, disk, thread>>

Allowed(r, c) == current_cache_utilization + (c - r.capacity) <= Maximum

\* Variant: doubles past the maximum of the block.
DoubledFreely(r, n) == Max2(r.size + n, r.capacity * 2)

Doubled(r, n) == Min2(Max2(r.size + n, r.capacity * 2), r.maximum_capacity)

\* Variant: the capacity is not compared with the utilization.
NewCapacityUnchecked(r, n) ==
  IF ~ r.data \/ r.size + n > r.maximum_capacity THEN 0 ELSE Doubled(r, n)

\* The capacity extend_capacity() settles on, 0 if it fails.
NewCapacity(r, n) ==
  IF ~ r.data \/ r.size + n > r.maximum_capacity THEN 0
  ELSE IF Allowed(r, Doubled(r, n)) THEN Doubled(r, n)
  ELSE IF Allowed(r, r.size + n) THEN r.size + n ELSE 0

\* extend_capacity() has read the utilization and will extend the block.
ExtendCheck(t, n) ==
  LET b == thread[t].block  c == NewCapacity(block[b], n)
  IN  /\ Writes(t, n)
      /\ ~ block[b].is_file /\ ~ Fits(block[b], n)
      /\ c > 0
      /\ thread' = [thread EXCEPT ![t] =
           [pc |-> "extend", id |-> @.id, block |-> b, capacity |-> c, size |-> n]]
      /\ UNCHANGED <<block, cache_blocks, current_cache_utilization, disk>>

Extend(t) ==
  /\ thread[t].pc = "extend"
  /\ LET b == thread[t].block  c == thread[t].capacity  n == thread[t].size
     IN  /\ current_cache_utilization' = current_cache_utilization + (c - block[b].capacity)
         /\ block' = [block EXCEPT ![b].capacity = c, ![b].size = @ + n, ![b].written = @ + n]
         /\ thread' = [thread EXCEPT ![t] = [pc |-> "writing", id |-> @.id, block |-> b]]
  /\ UNCHANGED <<cache_blocks, disk>>

Spill(t, n) ==
  LET b == thread[t].block
  IN  /\ Writes(t, n)
      /\ ~ block[b].is_file /\ ~ Fits(block[b], n) /\ NewCapacity(block[b], n) = 0
      /\ current_cache_utilization' = current_cache_utilization - MemoryOf(block[b])
      /\ block' = [block EXCEPT ![b] = [ToFile(b) EXCEPT !.written = @ + n]]
      /\ disk' = [disk EXCEPT ![b] = block[b].size + n]
      /\ UNCHANGED <<cache_blocks, thread>>

\* The sink is closed and destroyed.
CloseSink(t) ==
  /\ thread[t].pc = "writing" /\ block[thread[t].block].written > 0
  /\ Destroy(cache_blocks, [thread EXCEPT ![t] = Idle])
-----------------------------------------------------------------------------
(* cache_stream_source: get_cache(), and where the content is read from.   *)

OpenSource(t, i) ==
  LET b == cache_blocks[i]
  IN  /\ thread[t].pc = "idle" /\ mutex_free /\ Users(i) = Readers(i)
      /\ b # NoBlock
      /\ thread' = [thread EXCEPT ![t] =
           [pc |-> "reading", id |-> i, block |-> b, in_array |-> is_pointer(b),
            array_size |-> IF is_pointer(b) THEN block[b].size ELSE disk[b]]]
      /\ UNCHANGED <<block, cache_blocks, current_cache_utilization, disk>>

CloseSource(t) ==
  /\ thread[t].pc = "reading"
  /\ Destroy(cache_blocks, [thread EXCEPT ![t] = Idle])

\* delete_path() of a cache file: get_cache(), then free(), each under the mutex.
DeletePath(t, i) ==
  /\ thread[t].pc = "idle" /\ mutex_free /\ Users(i) = Readers(i)
  /\ cache_blocks[i] # NoBlock
  /\ thread' = [thread EXCEPT ![t] = [pc |-> "free", id |-> i, block |-> cache_blocks[i]]]
  /\ UNCHANGED <<block, cache_blocks, current_cache_utilization, disk>>

Free(t) ==
  /\ thread[t].pc = "free" /\ mutex_free
  /\ Destroy([cache_blocks EXCEPT ![thread[t].id] = NoBlock], [thread EXCEPT ![t] = Idle])
-----------------------------------------------------------------------------
Write(t) ==
  \E n \in WriteSizes : WriteFile(t, n) \/ WriteMemory(t, n) \/ ExtendCheck(t, n) \/ Spill(t, n)

Next ==
  \E t \in Threads :
    \/ \E i \in Ids : NewCache(t, i) \/ OpenSource(t, i) \/ DeletePath(t, i)
    \/ Clear(t) \/ InitializeMemory(t)
    \/ Write(t) \/ Extend(t) \/ CloseSink(t) \/ CloseSource(t) \/ Free(t)

Spec == Init /\ [][Next]_vars
-----------------------------------------------------------------------------
Live == {b \in Blocks : block[b].exists}
Using(pc) == {t \in Busy : thread[t].pc = pc}

Sizes == 0 .. MaxSize
BlockType ==
  [exists : {TRUE}, maximum_capacity : 0 .. PerFile, capacity : 0 .. PerFile, size : Sizes,
   data : BOOLEAN, is_file : BOOLEAN, written : Sizes]
ThreadType ==
  {Idle}
  \cup [pc : {"clear", "initialize"}, id : Ids, block : Blocks, max : 0 .. PerFile]
  \cup [pc : {"writing", "free"}, id : Ids, block : Blocks]
  \cup [pc : {"extend"}, id : Ids, block : Blocks, capacity : 0 .. PerFile, size : WriteSizes]
  \cup [pc : {"reading"}, id : Ids, block : Blocks, in_array : BOOLEAN,
        array_size : Sizes \cup {NoFile}]

\* The types of the fields.  A block grows at most to the capacity its file may
\* have, holds no more than its capacity, and is in memory or in a file.
TypeOK ==
  /\ block \in [Blocks -> BlockType \cup {Unused}]
  /\ \A b \in Live : /\ block[b].size <= block[b].capacity
                     /\ block[b].capacity <= block[b].maximum_capacity
                     /\ ~ (block[b].data /\ block[b].is_file)
  /\ cache_blocks \in [Ids -> Blocks \cup {NoBlock}]
  /\ current_cache_utilization \in Nat
  /\ disk \in [Blocks -> Sizes \cup {NoFile}]
  /\ thread \in [Threads -> ThreadType]

\* The utilization is the memory the blocks hold, although it is counted up and
\* down by all threads without a lock and blocks are destroyed by whoever drops
\* the last reference.
UtilizationIsExact ==
  current_cache_utilization = SumFunction([b \in Blocks |-> MemoryOf(block[b])])

Pending(t) == IF thread[t].pc = "extend" THEN thread[t].capacity - block[thread[t].block].capacity
              ELSE IF thread[t].pc = "initialize" THEN Min2(Initial, thread[t].max)
              ELSE 0

\* The most a thread allocates after one look at the utilization.
Growth == Max2(Initial, PerFile - Initial)

\* "It is possible to exceed maximum cache utilization under certain race
\* conditions" (fixed_size_cache_manager.hpp): by how much.  All other threads may
\* have passed their check before, each for one growth of its block.
OvercommitIsBounded ==
  current_cache_utilization + SumFunction([t \in Threads |-> Pending(t)])
    <= Maximum + (Cardinality(Threads) - 1) * Growth

\* An open source reads all that was written, from where it found it: eviction
\* and the spilling of other files move no block that is being read, and a file
\* that is deleted while it is read stays until its last reader has gone.
ReadersSeeWhatWasWritten ==
  \A t \in Using("reading") :
    LET b == thread[t].block
    IN  /\ b \in Live
        /\ thread[t].array_size = block[b].written
        /\ thread[t].in_array = block[b].data
        /\ IF block[b].data THEN block[b].size = block[b].written ELSE disk[b] = block[b].written

\* The temporary files on disk are those of the blocks that have been moved to
\* disk and still exist: none is left behind and none is deleted too early.
FilesFollowBlocks ==
  \A b \in Blocks : (disk[b] # NoFile) <=> (b \in Live /\ block[b].is_file)
=============================================================================
