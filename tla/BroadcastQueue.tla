--------------------------- MODULE BroadcastQueue ---------------------------
(***************************************************************************)
(* graphlab::broadcast_queue<T> (sframe_query_engine/util/                 *)
(* broadcast_queue.hpp): the single-producer, multiple-consumer queue each *)
(* execution_node uses as its output queue.  Every consumer must see every *)
(* element; elements that do not fit in memory are spilled to cache files. *)
(*                                                                         *)
(* The class is not thread safe, so push, pop and reset are atomic; what   *)
(* is hard is the order in which consumers of different speeds call them.  *)
(* The helpers of the class are functions from a state of the object to a  *)
(* state of the object, so that an action can apply them in the order the  *)
(* code does.                                                              *)
(*                                                                         *)
(* Data abstraction: the i-th element pushed is the number i, and a file   *)
(* is the sequence of the elements saved in it, so that file_offset and    *)
(* file_length count elements instead of bytes.                            *)
(*                                                                         *)
(* Definitions whose comment starts with "Variant" are faulty versions of  *)
(* the definition that follows; nothing in the specification uses them.    *)
(* They serve to confirm that the properties notice the fault.             *)
(***************************************************************************)
EXTENDS Naturals, Sequences, FiniteSets

CONSTANTS
  Consumers,    \* m_consumers: the consumers registered at construction
  CacheLimit,   \* the cache_limit argument of the constructor
  MaxPushed     \* bound on the number of elements pushed

ASSUME BroadcastQueueAssumption ==
  /\ IsFiniteSet(Consumers)
  /\ Consumers # {}
  /\ CacheLimit \in Nat
  /\ MaxPushed \in Nat

VARIABLES
  bq,    \* the fields of the queue object
  disk,  \* the cache files that exist, by name, with their contents
  ret    \* the result of the last call of pop()

vars == <<bq, disk, ret>>

NULL == 0      \* the null current_pop_queue / next_queue pointer
NoFile == 0    \* the empty file name

m_cache_limit == IF CacheLimit = 0 THEN 1 ELSE CacheLimit

-----------------------------------------------------------------------------
(* The object.  A pop_queue is identified by the order of its creation:    *)
(* since m_pop_queues grows at the back and shrinks at the front, queue q  *)
(* is m_pop_queues[q - released].                                          *)

NewConsumer == [current_pop_queue |-> NULL, element_offset |-> 0,
                file_offset |-> 0, nelements_popped |-> 0]

NewQueue ==
  [element_cache |-> <<>>, nelements |-> 0, write_handle |-> FALSE,
   file_name |-> NoFile, pop_queues |-> <<>>, released |-> 0,
   consumers |-> [c \in Consumers |-> NewConsumer],
   nelements_pushed |-> 0, allocated_filenames |-> <<>>, temp_ids |-> 0]

NoResult == [consumer |-> NULL, ok |-> FALSE, el |-> 0]

Init == /\ bq = NewQueue
        /\ disk = [f \in {} |-> <<>>]
        /\ ret = NoResult

\* The object together with the files it uses: what the helpers work on.
State == [bq |-> bq, disk |-> disk]

Live(s) == DOMAIN s.bq.consumers

reading_from_push_queue(s, c) == s.bq.consumers[c].current_pop_queue = NULL

PopQueue(s, q) == s.bq.pop_queues[q - s.bq.released]

Back(s) == s.bq.released + Len(s.bq.pop_queues)

\* std::shared_ptr::unique() for the front of m_pop_queues: no consumer and no
\* next_queue link refers to it.
FrontIsUnique(s) ==
  LET front == s.bq.released + 1
  IN  /\ \A c \in Live(s) : s.bq.consumers[c].current_pop_queue # front
      /\ \A i \in DOMAIN s.bq.pop_queues : s.bq.pop_queues[i].next_queue # front

DropFirst(s, n) == SubSeq(s, n + 1, Len(s))

WriteFile(d, f, data) == [g \in DOMAIN d \cup {f} |-> IF g = f THEN data ELSE d[g]]

DeletePaths(d, fs) == [g \in DOMAIN d \ fs |-> d[g]]

Elements(s) == {s[i] : i \in DOMAIN s}
-----------------------------------------------------------------------------
\* get_temp_cache_id() of the cache manager: a name never used before.
get_temp_cache_id(s) == s.bq.temp_ids + 1

\* Makes f the push file; opening a general_ofstream truncates it.
open_file(s, f) == [bq   |-> [s.bq EXCEPT !.file_name = f, !.write_handle = TRUE],
                    disk |-> WriteFile(s.disk, f, <<>>)]

\* Variant: the recycled name is used without being taken out of the pool.
open_push_file_shared(s) ==
  LET pool == s.bq.allocated_filenames
  IN  IF pool # <<>> THEN open_file(s, Head(pool))
      ELSE open_file([s EXCEPT !.bq.temp_ids = @ + 1], get_temp_cache_id(s))

\* get_cache_file(), then the general_ofstream on that name: a recycled name
\* when there is one, else a new temporary cache id.
open_push_file(s) ==
  LET pool == s.bq.allocated_filenames
  IN  IF pool # <<>>
        THEN open_file([s EXCEPT !.bq.allocated_filenames = Tail(@)], Head(pool))
        ELSE open_file([s EXCEPT !.bq.temp_ids = @ + 1], get_temp_cache_id(s))

\* Closes the push file and makes it the last pop queue.  The element counts
\* are taken from element_cache as it is at the time of the call.
flip_queues(s) ==
  LET b  == s.bq
      pq == [file_name |-> b.file_name,
             file_length |-> Len(s.disk[b.file_name]),
             nelements |-> b.nelements - Len(b.element_cache),
             next_queue |-> NULL]
      linked == [i \in DOMAIN b.pop_queues |->
                   IF i = Len(b.pop_queues)
                     THEN [b.pop_queues[i] EXCEPT !.next_queue = Back(s) + 1]
                     ELSE b.pop_queues[i]]
  IN  [s EXCEPT !.bq.write_handle = FALSE,
                !.bq.file_name = NoFile,
                !.bq.pop_queues = Append(linked, pq),
                !.bq.nelements = Len(b.element_cache)]

release_pop_queue_front(s) ==
  LET front == Head(s.bq.pop_queues)
  IN  [s EXCEPT !.bq.pop_queues = Tail(@),
                !.bq.released = @ + 1,
                !.bq.allocated_filenames =
                   IF front.file_name # NoFile THEN Append(@, front.file_name) ELSE @]

min_element_offset(s) ==
  LET offsets == {s.bq.consumers[c].element_offset : c \in Live(s)}
  IN  CHOOSE m \in offsets : \A n \in offsets : m <= n

\* Variant: the consumers' offsets are not moved with the trimmed queue.
trim_push_queue_unshifted(s) ==
  IF \E c \in Live(s) : ~ reading_from_push_queue(s, c) THEN s
  ELSE [s EXCEPT !.bq.nelements = @ - min_element_offset(s),
                 !.bq.element_cache = DropFirst(@, min_element_offset(s))]

\* Drops the elements every consumer has read, when all of them read from the
\* push queue.
trim_push_queue(s) ==
  LET least == min_element_offset(s)
  IN  IF \E c \in Live(s) : ~ reading_from_push_queue(s, c) THEN s
      ELSE [s EXCEPT
              !.bq.consumers = [c \in Live(s) |->
                  [s.bq.consumers[c] EXCEPT !.element_offset = @ - least]],
              !.bq.nelements = @ - least,
              !.bq.element_cache = DropFirst(@, least)]

has_push_queue_reader(s) == \E c \in Live(s) : reading_from_push_queue(s, c)

\* Writes the first k elements of the memory queue to a new push file.  If a
\* consumer still has to read one of them from memory the file becomes a pop
\* queue at once and that consumer continues there.
flush_first(s, k) ==
  LET opened  == open_push_file(s)
      written == [opened EXCEPT !.disk =
                    WriteFile(@, opened.bq.file_name, SubSeq(s.bq.element_cache, 1, k))]
      must_flip_queue ==
        /\ has_push_queue_reader(s)
        /\ \E c \in Live(s) : /\ reading_from_push_queue(s, c)
                              /\ s.bq.consumers[c].element_offset < k
      flipped == IF must_flip_queue THEN flip_queues(written) ELSE written
      moved(c) ==
        LET cc == s.bq.consumers[c]
        IN  IF ~ reading_from_push_queue(s, c) THEN cc
            ELSE IF cc.element_offset >= k
              THEN [cc EXCEPT !.element_offset = @ - k]
              ELSE [cc EXCEPT !.current_pop_queue = Back(flipped),
                              !.file_offset = cc.element_offset,
                              !.element_offset = 0]
  IN  [flipped EXCEPT !.bq.consumers = [c \in Live(s) |-> moved(c)],
                      !.bq.element_cache = DropFirst(@, k)]

flush_push_queue(s) == flush_first(s, m_cache_limit)

\* Variant: the offsets of the consumers in the push queue stay as they are.
roll_unshifted(s) ==
  LET f == s.bq.file_name
  IN  [s EXCEPT
         !.disk = WriteFile(@, f, Append(@[f], Head(s.bq.element_cache))),
         !.bq.element_cache = Tail(@)]

\* The rolling cache: the oldest element in memory goes to the push file and
\* the offsets of the consumers in the push queue move with it.
roll(s) ==
  LET f == s.bq.file_name
  IN  [s EXCEPT
         !.disk = WriteFile(@, f, Append(@[f], Head(s.bq.element_cache))),
         !.bq.element_cache = Tail(@),
         !.bq.consumers = [c \in Live(s) |->
             IF reading_from_push_queue(s, c)
               THEN [s.bq.consumers[c] EXCEPT !.element_offset = @ - 1]
               ELSE s.bq.consumers[c]]]

\* push() with the memory queue allowed to grow to limit elements.
push_until(s, el, limit) ==
  LET s1 == [s EXCEPT !.bq.element_cache = Append(@, el),
                      !.bq.nelements = @ + 1,
                      !.bq.nelements_pushed = @ + 1]
      reader_at_front == \E c \in Live(s1) :
                           /\ reading_from_push_queue(s1, c)
                           /\ s1.bq.consumers[c].element_offset = 0
      s2 == IF s1.bq.write_handle /\ reader_at_front THEN flip_queues(s1) ELSE s1
      full(t) == t.bq.nelements >= limit
      s3 == IF full(s2) THEN trim_push_queue(s2) ELSE s2
  IN  IF s2.bq.write_handle THEN roll(s2)
      ELSE IF full(s3) THEN flush_push_queue(s3) ELSE s3

\* Variant: > instead of >= in the two comparisons.
push_late(s, el) == push_until(s, el, 2 * m_cache_limit + 1)

push(s, el) == push_until(s, el, 2 * m_cache_limit)
-----------------------------------------------------------------------------
empty(s, c) == s.bq.consumers[c].nelements_popped = s.bq.nelements_pushed

at_end_of_pop_queue(s, c) ==
  /\ ~ reading_from_push_queue(s, c)
  /\ LET cc == s.bq.consumers[c]
     IN  cc.file_offset >= PopQueue(s, cc.current_pop_queue).file_length

\* The push file is flipped if it holds the elements that follow c's file.
flip_if_next(s, c) ==
  LET here == s.bq.consumers[c].current_pop_queue
  IN  IF PopQueue(s, here).next_queue = NULL /\ s.bq.write_handle
        THEN flip_queues(s) ELSE s

to_next_queue(s, c) ==
  LET here == s.bq.consumers[c].current_pop_queue
  IN  [s EXCEPT !.bq.consumers[c].current_pop_queue = PopQueue(s, here).next_queue]

\* Variant: the position in the finished file is kept for the next one.
move_on_unrewound(s, c) == to_next_queue(s, c)

move_on(s, c) == [to_next_queue(s, c) EXCEPT !.bq.consumers[c].file_offset = 0]

\* Variant: files are never released.
release_unused_never(s) == s

\* The first pop queue is released if the consumer was its last user.
release_unused(s) == IF FrontIsUnique(s) THEN release_pop_queue_front(s) ELSE s

\* Variant: the push file is never flipped here.
advance_past_push_file(s, c) == release_unused(move_on(s, c))

\* The first branch of pop(): the consumer's file is finished.
advance(s, c) == release_unused(move_on(flip_if_next(s, c), c))

\* The recursive call pop() makes after advance(): it ends, since every call
\* leaves one pop queue behind and at most one is added.
settle(s, c) ==
  LET after[n \in 0 .. Len(s.bq.pop_queues) + 1] ==
        IF n = 0 THEN s
        ELSE LET t == after[n - 1]
             IN  IF at_end_of_pop_queue(t, c) THEN advance(t, c) ELSE t
  IN  after[Len(s.bq.pop_queues) + 1]

\* What pop() does once the consumer's place is settled: the new state, and
\* the element or the failure it returns.
take(s, c) ==
  LET cc == s.bq.consumers[c]
      popped(t) == [t EXCEPT !.bq.consumers[c].nelements_popped = @ + 1]
      result(e) == [consumer |-> c, ok |-> TRUE, el |-> e]
  IN  IF ~ reading_from_push_queue(s, c)
        THEN [state  |-> popped([s EXCEPT !.bq.consumers[c].file_offset = @ + 1]),
              result |-> result(
                 s.disk[PopQueue(s, cc.current_pop_queue).file_name][cc.file_offset + 1])]
      ELSE IF Len(s.bq.element_cache) <= cc.element_offset
        THEN [state |-> s, result |-> [consumer |-> c, ok |-> FALSE, el |-> 0]]
        ELSE [state  |-> popped(trim_push_queue(
                           [s EXCEPT !.bq.consumers[c].element_offset = @ + 1])),
              result |-> result(s.bq.element_cache[cc.element_offset + 1])]

pop(s, c) == take(settle(s, c), c)

\* Every name is put into the pool of unused names, and the files of that pool
\* and those in others are deleted.
clear(s, others) ==
  LET names == {s.bq.pop_queues[i].file_name : i \in DOMAIN s.bq.pop_queues}
               \cup Elements(s.bq.allocated_filenames) \cup others
  IN  [bq   |-> [s.bq EXCEPT !.consumers = [c \in {} |-> NewConsumer],
                             !.pop_queues = <<>>,
                             !.released = @ + Len(s.bq.pop_queues),
                             !.write_handle = FALSE,
                             !.file_name = NoFile,
                             !.allocated_filenames = <<>>],
       disk |-> DeletePaths(s.disk, names)]

\* reset(), which the destructor calls.
reset(s) == clear(s, {s.bq.file_name} \ {NoFile})
-----------------------------------------------------------------------------
InUse == Live(State) # {}

Push == /\ InUse
        /\ bq.nelements_pushed < MaxPushed
        /\ LET t == push(State, bq.nelements_pushed + 1)
           IN  bq' = t.bq /\ disk' = t.disk
        /\ ret' = NoResult

Pop(c) == /\ c \in Live(State)
          /\ LET p == pop(State, c)
             IN  /\ bq' = p.state.bq
                 /\ disk' = p.state.disk
                 /\ ret' = p.result

Reset == /\ InUse
         /\ LET t == reset(State)
            IN  bq' = t.bq /\ disk' = t.disk
         /\ ret' = NoResult

Next == \/ Push
        \/ \E c \in Consumers : Pop(c)
        \/ Reset

Spec == Init /\ [][Next]_vars
-----------------------------------------------------------------------------
(* Properties                                                              *)

FileNames == 1 .. bq.temp_ids

\* TypeOK: the fields of broadcast_queue keep their types; element offsets
\* stay inside the memory queue and file offsets inside the consumer's file.
TypeOK ==
  /\ DOMAIN bq.consumers \in {Consumers, {}}
  /\ bq.nelements_pushed \in 0 .. MaxPushed
  /\ bq.nelements \in Nat
  /\ bq.write_handle \in BOOLEAN
  /\ bq.write_handle <=> bq.file_name # NoFile
  /\ Elements(bq.allocated_filenames) \subseteq FileNames
  /\ DOMAIN disk \subseteq FileNames
  /\ \A c \in DOMAIN bq.consumers :
       LET cc == bq.consumers[c]
       IN  IF cc.current_pop_queue = NULL
             THEN cc.element_offset \in 0 .. Len(bq.element_cache)
             ELSE /\ cc.current_pop_queue \in bq.released + 1 .. Back(State)
                  /\ cc.file_offset \in
                       0 .. PopQueue(State, cc.current_pop_queue).file_length

\* The elements consumer c has still to read, in the order it would meet them:
\* the rest of its file, the later pop queues, the push file and the memory
\* queue.
PushFile == IF bq.write_handle THEN disk[bq.file_name] ELSE <<>>

FilesFrom(q) ==
  LET n == Len(bq.pop_queues)
      from[i \in 1 .. n + 1] ==
        IF i = n + 1 THEN PushFile \o bq.element_cache
        ELSE disk[bq.pop_queues[i].file_name] \o from[i + 1]
  IN  from[q - bq.released]

Unread(c) ==
  LET cc == bq.consumers[c]
  IN  IF cc.current_pop_queue = NULL
        THEN DropFirst(bq.element_cache, cc.element_offset)
        ELSE DropFirst(FilesFrom(cc.current_pop_queue), cc.file_offset)

\* NothingLostOrRepeated: wherever a consumer stands (in a pop file, behind an
\* open push file, in the memory queue), what push(), flush_push_queue(),
\* flip_queues() and trim_push_queue() have left for it to read is exactly the
\* elements it has not popped, in the order they were pushed.
NothingLostOrRepeated ==
  \A c \in DOMAIN bq.consumers :
    LET done == bq.consumers[c].nelements_popped
    IN  Unread(c) = [i \in 1 .. bq.nelements_pushed - done |-> done + i]

\* WithinLimits: between two calls fewer than 2 * m_cache_limit elements are in
\* memory, however slow the slowest consumer is, and the claim "no more than
\* n / k files will be created even under adversial schedulings" of the class
\* comment: every pop queue holds at least m_cache_limit elements, so the number of
\* flips times m_cache_limit never exceeds the number of elements pushed.
WithinLimits ==
  /\ Len(bq.element_cache) < 2 * m_cache_limit
  /\ \A i \in DOMAIN bq.pop_queues : bq.pop_queues[i].file_length >= m_cache_limit
  /\ (bq.released + Len(bq.pop_queues)) * m_cache_limit <= bq.nelements_pushed

\* OpenFileHasReaderBehind: while a push file is open some consumer is still in
\* a pop queue; trim_push_queue(), which forgets about the push file, and
\* pop(), which flips it only from a pop queue, rely on that.
OpenFileHasReaderBehind ==
  bq.write_handle => \E c \in DOMAIN bq.consumers : ~ reading_from_push_queue(State, c)

\* EveryFileHasOneUse: a file that exists is the push file, the file of exactly
\* one pop queue, or a recycled name waiting in m_allocated_filenames, and
\* never two of these; after reset() no file is left.  The first pop queue has
\* a consumer: pop() released every file when its last reader left it.
EveryFileHasOneUse ==
  LET pool  == bq.allocated_filenames
      pops  == [i \in DOMAIN bq.pop_queues |-> bq.pop_queues[i].file_name]
      push_ == IF bq.write_handle THEN <<bq.file_name>> ELSE <<>>
      all   == pool \o pops \o push_
  IN  /\ DOMAIN disk = Elements(all)
      /\ Cardinality(Elements(all)) = Len(all)
      /\ bq.pop_queues # <<>> =>
           \E c \in DOMAIN bq.consumers :
             bq.consumers[c].current_pop_queue = bq.released + 1

\* ReadFilesAreFinal: "files are either open for reading or writing, but not
\* both simultaneously": no step writes to, truncates or deletes the file of a
\* pop queue that stays in use.
ReadFilesAreFinal ==
  [][\A q \in (bq.released + 1 .. Back(State)) \cap
              (bq.released' + 1 .. bq.released' + Len(bq.pop_queues')) :
       LET f == PopQueue(State, q).file_name
       IN  /\ bq'.pop_queues[q - bq'.released].file_name = f
           /\ f \in DOMAIN disk'
           /\ disk'[f] = disk[f]]_vars

\* Refinement: the queue implements Broadcast, so in every schedule of push()
\* and pop() each consumer gets 1, 2, 3, ... and a pop fails iff empty() held.
Abstract == INSTANCE Broadcast WITH
  pushed <- bq.nelements_pushed,
  popped <- [c \in DOMAIN bq.consumers |-> bq.consumers[c].nelements_popped]

ImplementsBroadcast == Abstract!Spec
=============================================================================
