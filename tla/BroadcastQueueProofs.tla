------------------------ MODULE BroadcastQueueProofs ------------------------
(***************************************************************************)
(* The properties of BroadcastQueue, and that it implements Broadcast, for *)
(* every finite set of consumers, every cache limit and any number of      *)
(* elements.                                                               *)
(***************************************************************************)
EXTENDS BroadcastQueue, SequenceTheorems, FiniteSetTheorems, TLAPS

\* Every set of naturals that is not empty has a least element.
LEMMA Least ==
  ASSUME NEW T \in SUBSET Nat, T # {}
  PROVE  \E m \in T : \A k \in T : m <= k
<1> DEFINE R == OpToRel(<, Nat)
<1>1. IsWellFoundedOn(R, Nat)
  BY NatLessThanWellFounded
<1>2. \A i, j \in Nat : <<i, j>> \in R <=> i < j
  BY DEF OpToRel
<1> HIDE DEF R
<1>3. PICK m \in T : \A y \in T : ~ (<<y, m>> \in R)
  BY <1>1, WFMin
<1>4. ASSUME NEW k \in T PROVE m <= k
  <2>1. m \in Nat /\ k \in Nat /\ ~ (<<k, m>> \in R)
    BY <1>3
  <2>2. QED
    BY <1>2, <2>1
<1>5. QED
  BY <1>4

-----------------------------------------------------------------------------
(* The elements a + 1 .. b in order.                                       *)

Interval(a, b) == [i \in 1 .. b - a |-> a + i]

LEMMA IntervalIsSeq ==
  ASSUME NEW a \in Nat, NEW b \in Nat, a <= b
  PROVE  Interval(a, b) \in Seq(Nat) /\ Len(Interval(a, b)) = b - a
         /\ \A i \in 1 .. b - a : Interval(a, b)[i] = a + i
<1>1. b - a \in Nat /\ \A i \in 1 .. b - a : a + i \in Nat
  OBVIOUS
<1>2. Interval(a, b) \in Seq(Nat)
  BY <1>1 DEF Interval
<1>3. Len(Interval(a, b)) = b - a
  BY <1>1, <1>2 DEF Interval
<1>4. QED
  BY <1>2, <1>3 DEF Interval

\* A sequence is an interval if it has its length and its elements.
LEMMA IsInterval ==
  ASSUME NEW q \in Seq(Nat), NEW a \in Nat, NEW b \in Nat, a <= b,
         Len(q) = b - a, \A i \in 1 .. b - a : q[i] = a + i
  PROVE  q = Interval(a, b)
<1>1. q = [i \in 1 .. Len(q) |-> q[i]]
  OBVIOUS
<1>2. QED
  BY <1>1 DEF Interval

LEMMA EmptyInterval ==
  ASSUME NEW a \in Nat
  PROVE  Interval(a, a) = <<>>
<1>1. Interval(a, a) \in Seq(Nat) /\ Len(Interval(a, a)) = 0
  BY IntervalIsSeq
<1>2. QED
  BY <1>1

LEMMA AppendToInterval ==
  ASSUME NEW a \in Nat, NEW b \in Nat, a <= b
  PROVE  Append(Interval(a, b), b + 1) = Interval(a, b + 1)
<1>1. PICK q \in Seq(Nat) : q = Interval(a, b) /\ Len(q) = b - a /\ \A i \in 1 .. b - a : q[i] = a + i
  BY IntervalIsSeq
<1>2. PICK n \in Nat : n = b - a
  OBVIOUS
<1>3. PICK r \in Seq(Nat) : r = Append(q, b + 1)
  <2>1. b + 1 \in Nat
    OBVIOUS
  <2>2. Append(q, b + 1) \in Seq(Nat)
    BY <2>1, AppendProperties
  <2>3. QED
    BY <2>2
<1>4. Len(r) = n + 1 /\ r[n + 1] = b + 1 /\ \A i \in 1 .. n : r[i] = q[i]
  BY <1>1, <1>2, <1>3, SMTT(60)
<1>5. \A i \in 1 .. n + 1 : r[i] = a + i
  <2> TAKE i \in 1 .. n + 1
  <2>1. CASE i = n + 1
    BY <1>2, <1>4, <2>1
  <2>2. CASE i # n + 1
    BY <1>1, <1>2, <1>4, <2>2
  <2>3. QED
    BY <2>1, <2>2
<1>6. (b + 1) - a = n + 1 /\ a <= b + 1 /\ b + 1 \in Nat
  BY <1>2
<1>7. r = Interval(a, b + 1)
  BY <1>4, <1>5, <1>6, IsInterval
<1>8. QED
  BY <1>1, <1>3, <1>7

LEMMA SubInterval ==
  ASSUME NEW a \in Nat, NEW b \in Nat, NEW c \in Nat, a <= b, b <= c
  PROVE  /\ SubSeq(Interval(a, c), 1, b - a) = Interval(a, b)
         /\ DropFirst(Interval(a, c), b - a) = Interval(b, c)
<1>1. PICK q \in Seq(Nat) : q = Interval(a, c) /\ Len(q) = c - a /\ \A i \in 1 .. c - a : q[i] = a + i
  BY IntervalIsSeq
<1>2. PICK k \in Nat, n \in Nat : k = b - a /\ n = c - a /\ k <= n
  OBVIOUS
<1>3. SubSeq(q, 1, k) = Interval(a, b)
  <2>1. PICK r \in Seq(Nat) : r = SubSeq(q, 1, k) /\ Len(r) = k /\ \A i \in 1 .. k : r[i] = q[i]
    <3>1. k \in Int /\ 1 \in Int /\ \A i \in 1 .. k : q[i] \in Nat
      BY <1>1, <1>2
    <3>2. /\ SubSeq(q, 1, k) \in Seq(Nat)
          /\ Len(SubSeq(q, 1, k)) = IF 1 <= k THEN k - 1 + 1 ELSE 0
          /\ \A i \in 1 .. k - 1 + 1 : SubSeq(q, 1, k)[i] = q[1 + i - 1]
      BY <3>1, SubSeqProperties
    <3>3. k - 1 + 1 = k /\ (\A i \in 1 .. k : 1 + i - 1 = i) /\ (~ (1 <= k) => k = 0)
      BY <1>2
    <3>4. Len(SubSeq(q, 1, k)) = k /\ \A i \in 1 .. k : SubSeq(q, 1, k)[i] = q[i]
      BY <3>2, <3>3
    <3>5. QED
      BY <3>2, <3>4
  <2>2. \A i \in 1 .. k : r[i] = a + i
    BY <1>1, <1>2, <2>1
  <2>3. QED
    BY <1>2, <2>1, <2>2, IsInterval
<1>4. DropFirst(q, k) = Interval(b, c)
  <2>1. PICK r \in Seq(Nat) : r = SubSeq(q, k + 1, n) /\ Len(r) = n - k
                              /\ \A i \in 1 .. n - k : r[i] = q[k + i]
    <3>1. n \in Int /\ k + 1 \in Int /\ \A i \in k + 1 .. n : q[i] \in Nat
      BY <1>1, <1>2
    <3>2. /\ SubSeq(q, k + 1, n) \in Seq(Nat)
          /\ Len(SubSeq(q, k + 1, n)) = IF k + 1 <= n THEN n - (k + 1) + 1 ELSE 0
          /\ \A i \in 1 .. n - (k + 1) + 1 : SubSeq(q, k + 1, n)[i] = q[(k + 1) + i - 1]
      BY <3>1, SubSeqProperties
    <3>3. /\ n - (k + 1) + 1 = n - k /\ (\A i \in 1 .. n - k : (k + 1) + i - 1 = k + i)
          /\ ~ (k + 1 <= n) => n - k = 0
      BY <1>2
    <3>4. Len(SubSeq(q, k + 1, n)) = n - k /\ \A i \in 1 .. n - k : SubSeq(q, k + 1, n)[i] = q[k + i]
      BY <3>2, <3>3
    <3>5. QED
      BY <3>2, <3>4
  <2>2. \A i \in 1 .. n - k : r[i] = b + i
    <3> TAKE i \in 1 .. n - k
    <3>1. k + i \in 1 .. n
      BY <1>2
    <3>2. q[k + i] = a + (k + i)
      BY <1>1, <1>2, <3>1
    <3>3. QED
      BY <1>2, <2>1, <3>2
  <2>3. n - k = c - b
    BY <1>2
  <2>4. r = Interval(b, c)
    BY <2>1, <2>2, <2>3, IsInterval, ZenonT(60)
  <2>5. QED
    BY <1>1, <1>2, <2>1, <2>4 DEF DropFirst
<1>5. QED
  BY <1>1, <1>2, <1>3, <1>4

CutsAt(a, b, c) ==
  /\ SubSeq(Interval(a, c), 1, b - a) = Interval(a, b)
  /\ DropFirst(Interval(a, c), b - a) = Interval(b, c)

LEMMA IntervalCuts ==
  ASSUME NEW a \in Nat, NEW b \in Nat, NEW c \in Nat, a <= b, b <= c
  PROVE  CutsAt(a, b, c)
BY SubInterval DEF CutsAt

LEMMA HeadOfInterval ==
  ASSUME NEW a \in Nat, NEW b \in Nat, a < b
  PROVE  /\ Interval(a, b) # <<>> /\ Head(Interval(a, b)) = a + 1
         /\ Tail(Interval(a, b)) = Interval(a + 1, b)
<1>1. PICK q \in Seq(Nat) : q = Interval(a, b) /\ Len(q) = b - a /\ \A i \in 1 .. b - a : q[i] = a + i
  BY IntervalIsSeq
<1>2. q # <<>> /\ 1 \in 1 .. b - a
  BY <1>1
<1>3. Head(q) = a + 1
  BY <1>1, <1>2
<1>4. Tail(q) = DropFirst(q, (a + 1) - a)
  BY <1>1, <1>2 DEF DropFirst
<1>5. DropFirst(Interval(a, b), (a + 1) - a) = Interval(a + 1, b)
  <2>1. a + 1 \in Nat /\ a <= a + 1 /\ a + 1 <= b
    OBVIOUS
  <2>2. QED
    BY <2>1, SubInterval
<1>6. QED
  BY <1>1, <1>2, <1>3, <1>4, <1>5

LEMMA ConcatIntervals ==
  ASSUME NEW a \in Nat, NEW b \in Nat, NEW c \in Nat, a <= b, b <= c
  PROVE  Interval(a, b) \o Interval(b, c) = Interval(a, c)
<1>1. PICK q \in Seq(Nat) : q = Interval(a, b) /\ Len(q) = b - a /\ \A i \in 1 .. b - a : q[i] = a + i
  BY IntervalIsSeq
<1>2. PICK r \in Seq(Nat) : r = Interval(b, c) /\ Len(r) = c - b /\ \A i \in 1 .. c - b : r[i] = b + i
  BY IntervalIsSeq
<1>3. PICK k \in Nat, n \in Nat : k = b - a /\ n = c - b
  OBVIOUS
<1>4. PICK z \in Seq(Nat) : z = q \o r
  BY ConcatProperties
<1>5. Len(z) = k + n /\ \A i \in 1 .. k + n : z[i] = IF i <= k THEN q[i] ELSE r[i - k]
  <2>1. /\ Len(z) = Len(q) + Len(r)
        /\ \A i \in 1 .. Len(q) + Len(r) : z[i] = IF i <= Len(q) THEN q[i] ELSE r[i - Len(q)]
    BY <1>4, ConcatProperties
  <2>2. Len(q) = k /\ Len(r) = n
    BY <1>1, <1>2, <1>3
  <2>3. QED
    BY <2>1, <2>2
<1>6. \A i \in 1 .. k + n : z[i] = a + i
  <2> TAKE i \in 1 .. k + n
  <2>1. CASE i <= k
    BY <1>1, <1>3, <1>5, <2>1
  <2>2. CASE ~ (i <= k)
    <3>1. i - k \in 1 .. n
      BY <1>3, <2>2
    <3>2. z[i] = b + (i - k)
      BY <1>2, <1>3, <1>5, <2>2, <3>1
    <3>3. QED
      BY <1>3, <3>2
  <2>3. QED
    BY <2>1, <2>2
<1>7. c - a = k + n
  BY <1>3
<1>8. z = Interval(a, c)
  BY <1>5, <1>6, <1>7, IsInterval, SMTT(60)
<1>9. QED
  BY <1>1, <1>2, <1>4, <1>8

-----------------------------------------------------------------------------
(* The inductive invariant, on a state s of the object and its files.  The *)
(* elements that are in a file or in memory follow each other: pop queue q *)
(* has those after the first at[q] up to the first at[q + 1], the push     *)
(* file goes on from at[Back(s) + 1], and memory from Out(s).              *)

PopQueues == [file_name : Nat, file_length : Nat, nelements : Int, next_queue : Nat]
ConsumerStates == [current_pop_queue : Nat, element_offset : Nat, file_offset : Nat,
                   nelements_popped : Nat]
Fields == {"element_cache", "nelements", "write_handle", "file_name", "pop_queues", "released",
           "consumers", "nelements_pushed", "allocated_filenames", "temp_ids"}

IsFcn(f) == f = [x \in DOMAIN f |-> f[x]]

\* s is a record with the fields of State, and s.bq one with those of the object.
Shape(s) == IsFcn(s) /\ DOMAIN s = {"bq", "disk"} /\ IsFcn(s.bq) /\ DOMAIN s.bq = Fields

Typed(s) ==
  /\ Shape(s)
  /\ s.bq.element_cache \in Seq(Nat)
  /\ s.bq.nelements \in Nat
  /\ s.bq.write_handle \in BOOLEAN
  /\ s.bq.file_name \in Nat
  /\ s.bq.pop_queues \in Seq(PopQueues)
  /\ s.bq.released \in Nat
  /\ s.bq.consumers \in [Live(s) -> ConsumerStates] /\ Live(s) \in {Consumers, {}}
  /\ s.bq.nelements_pushed \in Nat
  /\ s.bq.allocated_filenames \in Seq(Nat)
  /\ s.bq.temp_ids \in Nat
  /\ s.disk \in [DOMAIN s.disk -> Seq(Nat)]

\* How many elements have left memory.
Out(s) == s.bq.nelements_pushed - Len(s.bq.element_cache)

InMemory(s) ==
  /\ Out(s) \in Nat
  /\ s.bq.element_cache = Interval(Out(s), s.bq.nelements_pushed)

\* The file of pop queue q holds the elements between two positions.
Holds(s, q, from, to) ==
  /\ from + m_cache_limit <= to
  /\ s.disk[PopQueue(s, q).file_name] = Interval(from, to)
  /\ PopQueue(s, q).file_length = to - from

InPopQueues(s, at) ==
  /\ \A q \in s.bq.released + 1 .. Back(s) :
       /\ Holds(s, q, at[q], at[q + 1])
       /\ PopQueue(s, q).next_queue = IF q = Back(s) THEN NULL ELSE q + 1
  /\ Back(s) * m_cache_limit <= at[Back(s) + 1]

InPushFile(s, at) ==
  IF s.bq.write_handle
    THEN /\ at[Back(s) + 1] + m_cache_limit <= Out(s)
         /\ s.disk[s.bq.file_name] = Interval(at[Back(s) + 1], Out(s))
    ELSE at[Back(s) + 1] = Out(s)

Stored(s, at) == InMemory(s) /\ InPopQueues(s, at) /\ InPushFile(s, at)

\* Each consumer stands behind what it has popped.
Stands(s, at, c) ==
  LET cc == s.bq.consumers[c]
  IN  IF cc.current_pop_queue = NULL
        THEN /\ cc.element_offset <= Len(s.bq.element_cache)
             /\ cc.nelements_popped = Out(s) + cc.element_offset
        ELSE /\ cc.current_pop_queue \in s.bq.released + 1 .. Back(s)
             /\ cc.element_offset = 0
             /\ at[cc.current_pop_queue] + cc.file_offset <= at[cc.current_pop_queue + 1]
             /\ cc.nelements_popped = at[cc.current_pop_queue] + cc.file_offset

Placed(s, at) == \A c \in Live(s) : Stands(s, at, c)

\* The names in the pool, of the pop queues and of the push file.
PoolNames(s) == Elements(s.bq.allocated_filenames)
PopNames(s) == {s.bq.pop_queues[i].file_name : i \in DOMAIN s.bq.pop_queues}
PushNames(s) == IF s.bq.write_handle THEN {s.bq.file_name} ELSE {}

PoolIsDistinct(s) ==
  \A i, j \in DOMAIN s.bq.allocated_filenames :
    s.bq.allocated_filenames[i] = s.bq.allocated_filenames[j] => i = j
PopsAreDistinct(s) ==
  \A i, j \in DOMAIN s.bq.pop_queues :
    s.bq.pop_queues[i].file_name = s.bq.pop_queues[j].file_name => i = j

Named(s) ==
  /\ DOMAIN s.disk = PoolNames(s) \cup PopNames(s) \cup PushNames(s)
  /\ DOMAIN s.disk \subseteq 1 .. s.bq.temp_ids
  /\ PoolNames(s) \cap PopNames(s) = {} /\ PoolNames(s) \cap PushNames(s) = {}
  /\ PopNames(s) \cap PushNames(s) = {}
  /\ PoolIsDistinct(s) /\ PopsAreDistinct(s)
  /\ ~ s.bq.write_handle => s.bq.file_name = NoFile

\* nelements may count elements that a flip has taken out of memory.
Counted(s) ==
  /\ Len(s.bq.element_cache) < 2 * m_cache_limit
  /\ Live(s) # {} /\ ~ s.bq.write_handle =>
       /\ Len(s.bq.element_cache) <= s.bq.nelements
       /\ s.bq.nelements <= Len(s.bq.element_cache) + m_cache_limit

\* Some consumer reads the first pop queue, and one is behind an open push file.
ReaderAt(s, q) == \E c \in Live(s) : s.bq.consumers[c].current_pop_queue = q
Used(s) ==
  /\ s.bq.pop_queues # <<>> => ReaderAt(s, s.bq.released + 1)
  /\ s.bq.write_handle => s.bq.pop_queues # <<>>

Good(s, at) == Typed(s) /\ Stored(s, at) /\ Placed(s, at) /\ Named(s) /\ Counted(s) /\ Used(s)

-----------------------------------------------------------------------------
(* What follows from the types.                                            *)

LEMMA LimitIsPositive == m_cache_limit \in Nat /\ m_cache_limit > 0
BY BroadcastQueueAssumption DEF m_cache_limit

LEMMA Between ==
  ASSUME NEW r \in Nat, NEW n \in Nat, NEW q \in r + 1 .. r + n
  PROVE  q \in Nat /\ q + 1 \in Nat /\ q - r \in 1 .. n
OBVIOUS

LEMMA QueueTyped ==
  ASSUME NEW s, Typed(s)
  PROVE  /\ Len(s.bq.pop_queues) \in Nat /\ Back(s) \in Nat /\ s.bq.released \in Nat
         /\ Back(s) = s.bq.released + Len(s.bq.pop_queues)
         /\ Len(s.bq.element_cache) \in Nat
         /\ \A q \in s.bq.released + 1 .. Back(s) :
              /\ q \in Nat /\ q + 1 \in Nat
              /\ q - s.bq.released \in 1 .. Len(s.bq.pop_queues)
              /\ PopQueue(s, q) \in PopQueues
<1>1. PICK n \in Nat, r \in Nat : n = Len(s.bq.pop_queues) /\ r = s.bq.released
  BY DEF Typed
<1>2. Back(s) = r + n /\ r + n \in Nat
  BY <1>1 DEF Back
<1>3. ASSUME NEW q \in r + 1 .. r + n
      PROVE  q \in Nat /\ q + 1 \in Nat /\ q - r \in 1 .. n /\ PopQueue(s, q) \in PopQueues
  <2>1. q \in Nat /\ q + 1 \in Nat /\ q - r \in 1 .. n
    BY Between
  <2>2. s.bq.pop_queues[q - r] \in PopQueues
    BY <1>1, <2>1, SMTT(60) DEF Typed
  <2>3. QED
    BY <1>1, <2>1, <2>2 DEF PopQueue
<1>4. Len(s.bq.element_cache) \in Nat
  BY DEF Typed
<1>5. QED
  BY <1>1, <1>2, <1>3, <1>4

LEMMA PopQueueFields ==
  ASSUME NEW p \in PopQueues
  PROVE  p.file_name \in Nat /\ p.file_length \in Nat /\ p.next_queue \in Nat /\ p.nelements \in Int
BY DEF PopQueues

LEMMA ConsumerFields ==
  ASSUME NEW p \in ConsumerStates
  PROVE  /\ p.current_pop_queue \in Nat /\ p.element_offset \in Nat /\ p.file_offset \in Nat
         /\ p.nelements_popped \in Nat
BY DEF ConsumerStates

LEMMA ConsumerTyped ==
  ASSUME NEW s, Typed(s), NEW c \in Live(s)
  PROVE  /\ s.bq.consumers[c] \in ConsumerStates
         /\ s.bq.consumers[c].current_pop_queue \in Nat /\ s.bq.consumers[c].element_offset \in Nat
         /\ s.bq.consumers[c].file_offset \in Nat /\ s.bq.consumers[c].nelements_popped \in Nat
<1>1. s.bq.consumers[c] \in ConsumerStates
  BY DEF Typed
<1>2. QED
  BY <1>1, ConsumerFields

\* Memory holds the last elements pushed.
LEMMA MemoryLength ==
  ASSUME NEW s, Typed(s), InMemory(s)
  PROVE  /\ Out(s) \in Nat /\ s.bq.nelements_pushed \in Nat /\ Out(s) <= s.bq.nelements_pushed
         /\ Len(s.bq.element_cache) = s.bq.nelements_pushed - Out(s)
         /\ s.bq.nelements_pushed = Out(s) + Len(s.bq.element_cache)
<1>1. PICK l \in Nat, p \in Nat : l = Len(s.bq.element_cache) /\ p = s.bq.nelements_pushed
  BY DEF Typed
<1>2. Out(s) = p - l /\ Out(s) \in Nat
  BY <1>1 DEF Out, InMemory
<1>3. QED
  BY <1>1, <1>2, SMTT(60)

\* The fields about files.
SameFiles(s, t) ==
  /\ t.bq.pop_queues = s.bq.pop_queues /\ t.bq.released = s.bq.released
  /\ t.bq.write_handle = s.bq.write_handle /\ t.bq.file_name = s.bq.file_name
  /\ t.bq.allocated_filenames = s.bq.allocated_filenames /\ t.bq.temp_ids = s.bq.temp_ids
  /\ t.disk = s.disk

LEMMA FilesStay ==
  ASSUME NEW s, NEW t, SameFiles(s, t), NEW at
  PROVE  /\ Named(s) => Named(t)
         /\ InPopQueues(s, at) => InPopQueues(t, at)
         /\ Back(t) = Back(s) /\ (\A q : PopQueue(t, q) = PopQueue(s, q))
<1>1. Named(s) => Named(t)
  BY DEF SameFiles, Named, PoolNames, PopNames, PushNames, PoolIsDistinct, PopsAreDistinct
<1>2. Back(t) = Back(s) /\ (\A q : PopQueue(t, q) = PopQueue(s, q))
  BY DEF SameFiles, Back, PopQueue
<1>3. InPopQueues(s, at) => InPopQueues(t, at)
  BY <1>2 DEF SameFiles, InPopQueues, Holds
<1>4. QED
  BY <1>1, <1>2, <1>3
-----------------------------------------------------------------------------
(* push(): the element is appended to the memory queue.                    *)

append(s, el) ==
  [s EXCEPT !.bq.element_cache = Append(@, el),
            !.bq.nelements = @ + 1,
            !.bq.nelements_pushed = @ + 1]

LEMMA AppendFields ==
  ASSUME NEW s, NEW el, Typed(s), NEW t, t = append(s, el)
  PROVE  /\ Shape(t) /\ SameFiles(s, t) /\ t.bq.consumers = s.bq.consumers
         /\ t.bq.element_cache = Append(s.bq.element_cache, el)
         /\ t.bq.nelements = s.bq.nelements + 1
         /\ t.bq.nelements_pushed = s.bq.nelements_pushed + 1
BY ZenonT(60) DEF append, Typed, Shape, IsFcn, Fields, SameFiles

LEMMA AppendStep ==
  ASSUME NEW s, NEW at \in [Nat -> Nat], Typed(s), Stored(s, at), Placed(s, at), Named(s),
         NEW t, t = append(s, s.bq.nelements_pushed + 1)
  PROVE  /\ Typed(t) /\ Stored(t, at) /\ Placed(t, at) /\ Named(t) /\ (Used(s) => Used(t))
         /\ Len(t.bq.element_cache) = Len(s.bq.element_cache) + 1
<1>1. PICK l \in Nat, p \in Nat, o \in Nat :
        /\ l = Len(s.bq.element_cache) /\ p = s.bq.nelements_pushed /\ o = Out(s)
        /\ o <= p /\ l = p - o
  BY MemoryLength, QueueTyped DEF Stored
<1>2. /\ Shape(t) /\ SameFiles(s, t) /\ t.bq.consumers = s.bq.consumers
      /\ t.bq.element_cache = Append(s.bq.element_cache, p + 1)
      /\ t.bq.nelements = s.bq.nelements + 1
      /\ t.bq.nelements_pushed = p + 1
  BY <1>1, AppendFields, ZenonT(60)
<1>3. p + 1 \in Nat /\ s.bq.element_cache \in Seq(Nat) /\ s.bq.nelements + 1 \in Nat
  <2>1. PICK e \in Nat : e = s.bq.nelements
    BY DEF Typed
  <2>2. p + 1 \in Nat /\ e + 1 \in Nat
    OBVIOUS
  <2>3. s.bq.element_cache \in Seq(Nat)
    BY DEF Typed
  <2>4. QED
    BY <2>1, <2>2, <2>3
<1>4. t.bq.element_cache \in Seq(Nat) /\ Len(t.bq.element_cache) = l + 1
  <2>1. PICK q \in Seq(Nat) : q = s.bq.element_cache
    BY <1>3
  <2>2. Append(q, p + 1) \in Seq(Nat) /\ Len(Append(q, p + 1)) = Len(q) + 1
    BY <1>3, AppendProperties
  <2>3. QED
    BY <1>1, <1>2, <2>1, <2>2
<1>5. Live(t) = Live(s)
  BY <1>2 DEF Live
<1>6. Typed(t)
  BY <1>2, <1>3, <1>4, <1>5 DEF Typed, SameFiles
<1>7. Out(t) = o
  <2>1. Out(t) = (p + 1) - (l + 1)
    BY <1>2, <1>4 DEF Out
  <2>2. (p + 1) - (l + 1) = o
    BY <1>1
  <2>3. QED
    BY <2>1, <2>2
<1>8. InMemory(t)
  <2>1. s.bq.element_cache = Interval(o, p)
    BY <1>1 DEF Stored, InMemory
  <2>2. t.bq.element_cache = Interval(o, p + 1)
    BY <1>1, <1>2, <2>1, AppendToInterval, ZenonT(60)
  <2>3. QED
    BY <1>2, <1>7, <2>2, ZenonT(60) DEF InMemory
<1>9. Stored(t, at)
  BY <1>1, <1>2, <1>7, <1>8, FilesStay, ZenonT(60) DEF Stored, InPushFile, SameFiles
<1>10. Placed(t, at)
  <2> SUFFICES ASSUME NEW c \in Live(s) PROVE Stands(t, at, c)
    BY <1>5 DEF Placed
  <2>1. Stands(s, at, c)
    BY DEF Placed
  <2>2. PICK e \in Nat : e = s.bq.consumers[c].element_offset
    BY ConsumerTyped
  <2>3. e <= l => e <= l + 1
    BY <1>1
  <2>4. QED
    BY <1>1, <1>2, <1>4, <1>7, <2>1, <2>2, <2>3, FilesStay, ZenonT(60) DEF Stands, SameFiles
<1>11. Named(t)
  BY <1>2, FilesStay
<1>12. Used(s) => Used(t)
  BY <1>2, <1>5 DEF Used, ReaderAt, SameFiles
<1>13. QED
  BY <1>1, <1>4, <1>6, <1>9, <1>10, <1>11, <1>12

-----------------------------------------------------------------------------
(* trim_push_queue()                                                       *)

AllReadPushQueue(s) == \A c \in Live(s) : reading_from_push_queue(s, c)

\* What trim_push_queue(), and every other step inside of push(), leaves alone.
SamePops(s, t) ==
  /\ Live(t) = Live(s) /\ t.bq.nelements_pushed = s.bq.nelements_pushed
  /\ \A c \in Live(s) : t.bq.consumers[c].nelements_popped = s.bq.consumers[c].nelements_popped

\* nelements counts all that is in memory.
CountsMemory(s) == ~ s.bq.write_handle => Len(s.bq.element_cache) <= s.bq.nelements

\* The first least elements are dropped from memory.
Trimmed(s, t, least) ==
  /\ Shape(t) /\ SameFiles(s, t) /\ t.bq.nelements_pushed = s.bq.nelements_pushed
  /\ t.bq.consumers = [c \in Live(s) |->
        [s.bq.consumers[c] EXCEPT !.element_offset = s.bq.consumers[c].element_offset - least]]
  /\ t.bq.nelements = s.bq.nelements - least
  /\ t.bq.element_cache = DropFirst(s.bq.element_cache, least)

LEMMA TrimFields ==
  ASSUME NEW s, Typed(s), AllReadPushQueue(s), NEW least, least = min_element_offset(s),
         NEW t, t = trim_push_queue(s)
  PROVE  Trimmed(s, t, least)
BY ZenonT(60) DEF trim_push_queue, AllReadPushQueue, Typed, Shape, IsFcn, Fields, SameFiles, Trimmed

\* The minimum is attained and is one.
LEMMA MinOffset ==
  ASSUME NEW s, Typed(s), Live(s) # {}
  PROVE  /\ min_element_offset(s) \in Nat
         /\ \E c \in Live(s) : s.bq.consumers[c].element_offset = min_element_offset(s)
         /\ \A c \in Live(s) : min_element_offset(s) <= s.bq.consumers[c].element_offset
<1> DEFINE offsets == {s.bq.consumers[c].element_offset : c \in Live(s)}
<1>1. offsets \in SUBSET Nat /\ offsets # {}
  BY ConsumerTyped
<1>2. min_element_offset(s) = CHOOSE m \in offsets : \A n \in offsets : m <= n
  BY DEF min_element_offset
<1>3. \A c \in Live(s) : s.bq.consumers[c].element_offset \in offsets
  OBVIOUS
<1>4. \A x \in offsets : \E c \in Live(s) : x = s.bq.consumers[c].element_offset
  OBVIOUS
<1> HIDE DEF offsets
<1>5. \E m \in offsets : \A n \in offsets : m <= n
  BY <1>1, Least
<1>6. min_element_offset(s) \in offsets /\ \A n \in offsets : min_element_offset(s) <= n
  BY <1>2, <1>5
<1>7. QED
  BY <1>1, <1>3, <1>4, <1>6

\* Consumers that read from memory use no file.
LEMMA NoFilesUsed ==
  ASSUME NEW s, Typed(s), Used(s), AllReadPushQueue(s)
  PROVE  s.bq.pop_queues = <<>> /\ s.bq.write_handle = FALSE
<1>1. s.bq.released + 1 # NULL
  <2>1. PICK r \in Nat : r = s.bq.released
    BY DEF Typed
  <2>2. r + 1 # 0
    OBVIOUS
  <2>3. QED
    BY <2>1, <2>2 DEF NULL
<1>2. ~ ReaderAt(s, s.bq.released + 1)
  BY <1>1 DEF ReaderAt, AllReadPushQueue, reading_from_push_queue
<1>3. s.bq.write_handle \in BOOLEAN
  BY DEF Typed
<1>4. QED
  BY <1>2, <1>3 DEF Used

LEMMA TrimmedStep ==
  ASSUME NEW s, NEW at \in [Nat -> Nat], Typed(s), Stored(s, at), Placed(s, at), Named(s), Used(s),
         Live(s) # {}, CountsMemory(s), AllReadPushQueue(s),
         NEW t, Trimmed(s, t, min_element_offset(s))
  PROVE  /\ Typed(t) /\ Named(t) /\ Used(t) /\ SameFiles(s, t) /\ SamePops(s, t)
         /\ \E at2 \in [Nat -> Nat] : Stored(t, at2) /\ Placed(t, at2)
         /\ \E m \in Nat : /\ Len(s.bq.element_cache) = Len(t.bq.element_cache) + m
                           /\ s.bq.nelements = t.bq.nelements + m
         /\ AllReadPushQueue(t) => \E c \in Live(t) : t.bq.consumers[c].element_offset = 0
<1>1. PICK m \in Nat, c0 \in Live(s) :
        /\ m = min_element_offset(s) /\ s.bq.consumers[c0].element_offset = m
        /\ \A c \in Live(s) : m <= s.bq.consumers[c].element_offset
  BY MinOffset
<1>2. /\ Shape(t) /\ SameFiles(s, t) /\ t.bq.nelements_pushed = s.bq.nelements_pushed
      /\ t.bq.consumers = [c \in Live(s) |->
            [s.bq.consumers[c] EXCEPT !.element_offset = s.bq.consumers[c].element_offset - m]]
      /\ t.bq.nelements = s.bq.nelements - m
      /\ t.bq.element_cache = DropFirst(s.bq.element_cache, m)
  BY <1>1 DEF Trimmed
<1>3. PICK l \in Nat, p \in Nat, o \in Nat, n \in Nat, b \in Nat :
        /\ l = Len(s.bq.element_cache) /\ p = s.bq.nelements_pushed /\ o = Out(s) /\ n = s.bq.nelements
        /\ o <= p /\ l = p - o /\ p = o + l /\ b = Back(s)
  BY MemoryLength, QueueTyped DEF Stored, Typed
<1>4. s.bq.pop_queues = <<>> /\ s.bq.write_handle = FALSE /\ l <= n
  BY <1>3, NoFilesUsed DEF CountsMemory
<1>5. ASSUME NEW c \in Live(s)
      PROVE  \E e \in Nat : /\ e = s.bq.consumers[c].element_offset /\ m <= e /\ e <= l
                            /\ s.bq.consumers[c].nelements_popped = o + e
                            /\ s.bq.consumers[c].current_pop_queue = NULL
  <2>1. s.bq.consumers[c].current_pop_queue = NULL
    BY DEF AllReadPushQueue, reading_from_push_queue
  <2>2. Stands(s, at, c)
    BY DEF Placed
  <2>3. QED
    BY <1>1, <1>3, <2>1, <2>2, ConsumerTyped DEF Stands
<1>6. m <= l /\ m <= n /\ n - m \in Nat /\ l - m \in Nat /\ o + m \in Nat /\ o + m <= p
  <2>1. m <= l
    BY <1>1, <1>5
  <2>2. l <= n
    BY <1>4
  <2>3. QED
    BY <1>3, <2>1, <2>2
<1>7. t.bq.element_cache = Interval(o + m, p)
  <2>1. s.bq.element_cache = Interval(o, p)
    BY <1>3 DEF Stored, InMemory
  <2>2. (o + m) - o = m
    OBVIOUS
  <2>3. DropFirst(Interval(o, p), (o + m) - o) = Interval(o + m, p)
    BY <1>6, SubInterval
  <2>4. QED
    BY <1>2, <2>1, <2>2, <2>3
<1>8. t.bq.element_cache \in Seq(Nat) /\ Len(t.bq.element_cache) = l - m
  <2>1. Interval(o + m, p) \in Seq(Nat) /\ Len(Interval(o + m, p)) = p - (o + m)
    BY <1>6, IntervalIsSeq
  <2>2. p - (o + m) = l - m
    BY <1>3
  <2>3. QED
    BY <1>7, <2>1, <2>2
<1>9. Out(t) = o + m
  <2>1. Out(t) = p - (l - m)
    BY <1>2, <1>3, <1>8 DEF Out
  <2>2. p - (l - m) = o + m
    BY <1>3, <1>6
  <2>3. QED
    BY <2>1, <2>2
<1>10. Live(t) = Live(s)
  BY <1>2 DEF Live
<1>11. ASSUME NEW c \in Live(s)
       PROVE  /\ t.bq.consumers[c] \in ConsumerStates
              /\ t.bq.consumers[c].element_offset = s.bq.consumers[c].element_offset - m
              /\ t.bq.consumers[c].nelements_popped = s.bq.consumers[c].nelements_popped
              /\ t.bq.consumers[c].current_pop_queue = s.bq.consumers[c].current_pop_queue
  <2>1. PICK e \in Nat : e = s.bq.consumers[c].element_offset /\ m <= e
    BY <1>5
  <2>2. e - m \in Nat
    BY <2>1
  <2>3. PICK cc \in ConsumerStates : cc = s.bq.consumers[c]
    BY ConsumerTyped
  <2>4. t.bq.consumers[c] = [cc EXCEPT !.element_offset = e - m]
    BY <1>2, <2>1, <2>3
  <2>5. QED
    BY <2>1, <2>2, <2>3, <2>4 DEF ConsumerStates
<1>12. Typed(t)
  <2>1. t.bq.consumers \in [Live(t) -> ConsumerStates] /\ Live(t) \in {Consumers, {}}
    BY <1>2, <1>10, <1>11 DEF Typed
  <2>2. t.bq.nelements \in Nat
    BY <1>2, <1>3, <1>6
  <2>3. QED
    BY <1>2, <1>8, <2>1, <2>2 DEF Typed, SameFiles
<1>13. InMemory(t)
  BY <1>2, <1>3, <1>6, <1>7, <1>9 DEF InMemory
<1>14. PICK at2 \in [Nat -> Nat] : at2 = [at EXCEPT ![b + 1] = o + m]
  BY <1>6
<1>15. Back(t) = b /\ b + 1 \in Nat /\ at2[b + 1] = o + m /\ t.bq.write_handle = FALSE
  <2>1. b + 1 \in Nat /\ o + m \in Nat
    OBVIOUS
  <2>2. at2[b + 1] = o + m
    BY <1>14, <2>1
  <2>3. Back(t) = b /\ t.bq.write_handle = FALSE
    BY <1>2, <1>3, <1>4, FilesStay DEF SameFiles
  <2>4. QED
    BY <2>1, <2>2, <2>3
<1>16. InPopQueues(t, at2)
  <2>1. b * m_cache_limit <= o + m
    <3>1. at[b + 1] = o
      BY <1>3, <1>4 DEF Stored, InPushFile
    <3>2. b * m_cache_limit <= o
      BY <1>3, <3>1 DEF Stored, InPopQueues
    <3>3. PICK x \in Nat : x = b * m_cache_limit
      BY LimitIsPositive
    <3>4. QED
      BY <3>2, <3>3
  <2>2. t.bq.released + 1 .. Back(t) = {}
    <3>1. Len(s.bq.pop_queues) = 0
      BY <1>4
    <3>2. PICK r \in Nat : r = s.bq.released /\ b = r
      <4>1. PICK r \in Nat : r = s.bq.released /\ b = r + 0
        BY <1>3, <3>1, QueueTyped
      <4>2. QED
        BY <4>1
    <3>3. t.bq.released = r
      BY <1>2, <3>2 DEF SameFiles
    <3>4. r + 1 .. r = {}
      OBVIOUS
    <3>5. QED
      BY <1>15, <3>2, <3>3, <3>4
  <2>3. QED
    BY <1>15, <2>1, <2>2 DEF InPopQueues
<1>17. Stored(t, at2)
  BY <1>9, <1>13, <1>15, <1>16 DEF Stored, InPushFile
<1>18. Placed(t, at2)
  <2> SUFFICES ASSUME NEW c \in Live(s) PROVE Stands(t, at2, c)
    BY <1>10 DEF Placed
  <2>1. PICK e \in Nat : /\ e = s.bq.consumers[c].element_offset /\ m <= e /\ e <= l
                         /\ s.bq.consumers[c].nelements_popped = o + e
                         /\ s.bq.consumers[c].current_pop_queue = NULL
    BY <1>5
  <2>2. e - m <= l - m /\ o + e = (o + m) + (e - m)
    BY <2>1, <1>3
  <2>3. QED
    BY <1>8, <1>9, <1>11, <2>1, <2>2 DEF Stands
<1>19. Named(t) /\ Used(t)
  <2>1. Named(t)
    BY <1>2, FilesStay
  <2>2. t.bq.pop_queues = <<>> /\ t.bq.write_handle = FALSE
    BY <1>2, <1>4 DEF SameFiles
  <2>3. QED
    BY <2>1, <2>2 DEF Used
<1>20. SamePops(s, t)
  BY <1>2, <1>10, <1>11 DEF SamePops
<1>21. l = (l - m) + m /\ n = (n - m) + m
  BY <1>3
<1>22. t.bq.consumers[c0].element_offset = 0
  <2>1. t.bq.consumers[c0].element_offset = m - m
    BY <1>1, <1>11
  <2>2. m - m = 0
    OBVIOUS
  <2>3. QED
    BY <2>1, <2>2
<1>23. QED
  BY <1>1, <1>2, <1>3, <1>8, <1>10, <1>12, <1>17, <1>18, <1>19, <1>20, <1>21, <1>22

LEMMA TrimStep ==
  ASSUME NEW s, NEW at \in [Nat -> Nat], Typed(s), Stored(s, at), Placed(s, at), Named(s), Used(s),
         Live(s) # {}, CountsMemory(s),
         NEW t, t = trim_push_queue(s)
  PROVE  /\ Typed(t) /\ Named(t) /\ Used(t) /\ SameFiles(s, t) /\ SamePops(s, t)
         /\ \E at2 \in [Nat -> Nat] : Stored(t, at2) /\ Placed(t, at2)
         /\ \E m \in Nat : /\ Len(s.bq.element_cache) = Len(t.bq.element_cache) + m
                           /\ s.bq.nelements = t.bq.nelements + m
         /\ AllReadPushQueue(t) => \E c \in Live(t) : t.bq.consumers[c].element_offset = 0
<1>1. CASE ~ AllReadPushQueue(s)
  <2>1. t = s
    BY <1>1 DEF trim_push_queue, AllReadPushQueue
  <2>2. PICK l \in Nat, n \in Nat : l = Len(s.bq.element_cache) /\ n = s.bq.nelements
    BY QueueTyped DEF Typed
  <2>3. l = l + 0 /\ n = n + 0 /\ 0 \in Nat
    OBVIOUS
  <2>4. \E m \in Nat : Len(s.bq.element_cache) = Len(t.bq.element_cache) + m
                       /\ s.bq.nelements = t.bq.nelements + m
    BY <2>1, <2>2, <2>3
  <2>5. QED
    BY <1>1, <2>1, <2>4 DEF SameFiles, SamePops
<1>2. CASE AllReadPushQueue(s)
  <2>1. Trimmed(s, t, min_element_offset(s))
    BY <1>2, TrimFields
  <2>2. QED
    BY <1>2, <2>1, TrimmedStep, ZenonT(60)
<1>3. QED
  BY <1>1, <1>2

-----------------------------------------------------------------------------
(* flip_queues(): the push file becomes the last pop queue.                *)

HasPushFile(s) == s.bq.write_handle = TRUE

Flipped(s, t) ==
  /\ t.disk = s.disk /\ t.bq.element_cache = s.bq.element_cache
  /\ t.bq.write_handle = FALSE /\ t.bq.file_name = NoFile
  /\ t.bq.released = s.bq.released /\ t.bq.nelements_pushed = s.bq.nelements_pushed
  /\ t.bq.allocated_filenames = s.bq.allocated_filenames /\ t.bq.temp_ids = s.bq.temp_ids
  /\ t.bq.pop_queues \in Seq(PopQueues) /\ Len(t.bq.pop_queues) = Len(s.bq.pop_queues) + 1
  /\ \A i \in 1 .. Len(s.bq.pop_queues) :
       /\ t.bq.pop_queues[i].file_name = s.bq.pop_queues[i].file_name
       /\ t.bq.pop_queues[i].file_length = s.bq.pop_queues[i].file_length
       /\ t.bq.pop_queues[i].next_queue =
            IF i = Len(s.bq.pop_queues) THEN Back(s) + 1 ELSE s.bq.pop_queues[i].next_queue
  /\ LET last == t.bq.pop_queues[Len(s.bq.pop_queues) + 1]
     IN  /\ last.file_name = s.bq.file_name /\ last.next_queue = NULL
         /\ last.file_length = Len(s.disk[s.bq.file_name])

\* The same in terms of the identities of the pop queues.
LEMMA FlippedQueues ==
  ASSUME NEW s, Typed(s), NEW t, Flipped(s, t)
  PROVE  /\ Back(t) = Back(s) + 1
         /\ \A q \in s.bq.released + 1 .. Back(s) :
              /\ PopQueue(t, q).file_name = PopQueue(s, q).file_name
              /\ PopQueue(t, q).file_length = PopQueue(s, q).file_length
              /\ PopQueue(t, q).next_queue =
                   IF q = Back(s) THEN Back(s) + 1 ELSE PopQueue(s, q).next_queue
         /\ PopQueue(t, Back(s) + 1).file_name = s.bq.file_name
         /\ PopQueue(t, Back(s) + 1).file_length = Len(s.disk[s.bq.file_name])
         /\ PopQueue(t, Back(s) + 1).next_queue = NULL
<1>1. PICK n \in Nat, r \in Nat : n = Len(s.bq.pop_queues) /\ r = s.bq.released /\ Back(s) = r + n
  BY QueueTyped
<1>2. Back(t) = r + (n + 1)
  BY <1>1 DEF Back, Flipped
<1>3. r + (n + 1) = (r + n) + 1 /\ ((r + n) + 1) - r = n + 1
  OBVIOUS
<1>4. ASSUME NEW q \in r + 1 .. r + n
      PROVE  /\ PopQueue(t, q).file_name = PopQueue(s, q).file_name
             /\ PopQueue(t, q).file_length = PopQueue(s, q).file_length
             /\ PopQueue(t, q).next_queue = IF q = r + n THEN (r + n) + 1 ELSE PopQueue(s, q).next_queue
  <2>1. PICK i \in 1 .. n : i = q - r /\ (i = n <=> q = r + n)
    OBVIOUS
  <2>2. PopQueue(t, q) = t.bq.pop_queues[i] /\ PopQueue(s, q) = s.bq.pop_queues[i]
    BY <1>1, <2>1 DEF PopQueue, Flipped
  <2>3. QED
    BY <1>1, <2>1, <2>2 DEF Flipped
<1>5. PopQueue(t, (r + n) + 1) = t.bq.pop_queues[n + 1]
  BY <1>1, <1>3 DEF PopQueue, Flipped
<1>6. QED
  BY <1>1, <1>2, <1>3, <1>4, <1>5, ZenonT(60) DEF Flipped

\* The positions with one for the end of the flipped file.
Extended(at, s) == [at EXCEPT ![Back(s) + 2] = Out(s)]

Agrees(at, at2, s) == \A q \in s.bq.released + 1 .. Back(s) + 1 : at2[q] = at[q]

LEMMA FlippedStored ==
  ASSUME NEW s, NEW at \in [Nat -> Nat], Typed(s), Stored(s, at), HasPushFile(s),
         NEW t, Flipped(s, t), NEW at2, at2 = Extended(at, s)
  PROVE  at2 \in [Nat -> Nat] /\ Stored(t, at2) /\ Agrees(at, at2, s)
<1>1. PICK b \in Nat, r \in Nat, o \in Nat, k \in Nat :
        b = Back(s) /\ r = s.bq.released /\ o = Out(s) /\ k = m_cache_limit
  BY QueueTyped, MemoryLength, LimitIsPositive DEF Stored
<1>2. /\ b + 1 \in Nat /\ b + 2 \in Nat /\ (b + 1) + 1 = b + 2
      /\ \A q \in r + 1 .. b : q \in Nat /\ q + 1 \in Nat /\ q # b + 2 /\ q + 1 # b + 2 /\ q # b + 1
  OBVIOUS
<1>3. at2 = [at EXCEPT ![b + 2] = o]
  BY <1>1 DEF Extended
<1>4. /\ at2 \in [Nat -> Nat] /\ at2[b + 2] = o /\ at2[b + 1] = at[b + 1]
      /\ \A q \in r + 1 .. b : at2[q] = at[q] /\ at2[q + 1] = at[q + 1]
  <2>1. at2 \in [Nat -> Nat] /\ at2[b + 2] = o
    BY <1>2, <1>3
  <2>2. \A x \in Nat : x # b + 2 => at2[x] = at[x]
    BY <1>3
  <2>3. b + 1 # b + 2
    OBVIOUS
  <2>4. QED
    BY <1>2, <2>1, <2>2, <2>3
<1>5. /\ at[b + 1] + k <= o /\ s.disk[s.bq.file_name] = Interval(at[b + 1], o)
      /\ b * k <= at[b + 1]
  BY <1>1 DEF Stored, InPushFile, InPopQueues, HasPushFile
<1>6. PICK a \in Nat : a = at[b + 1] /\ a + k <= o /\ a <= o
  <2>1. PICK a \in Nat : a = at[b + 1] /\ a + k <= o
    BY <1>2, <1>5
  <2>2. QED
    BY <2>1
<1>7. /\ Back(t) = b + 1
      /\ \A q \in r + 1 .. b :
           /\ PopQueue(t, q).file_name = PopQueue(s, q).file_name
           /\ PopQueue(t, q).file_length = PopQueue(s, q).file_length
           /\ PopQueue(t, q).next_queue = IF q = b THEN b + 1 ELSE PopQueue(s, q).next_queue
      /\ PopQueue(t, b + 1).file_name = s.bq.file_name
      /\ PopQueue(t, b + 1).file_length = Len(s.disk[s.bq.file_name])
      /\ PopQueue(t, b + 1).next_queue = NULL
  <2>1. /\ Back(t) = Back(s) + 1
        /\ \A q \in s.bq.released + 1 .. Back(s) :
             /\ PopQueue(t, q).file_name = PopQueue(s, q).file_name
             /\ PopQueue(t, q).file_length = PopQueue(s, q).file_length
             /\ PopQueue(t, q).next_queue =
                  IF q = Back(s) THEN Back(s) + 1 ELSE PopQueue(s, q).next_queue
        /\ PopQueue(t, Back(s) + 1).file_name = s.bq.file_name
        /\ PopQueue(t, Back(s) + 1).file_length = Len(s.disk[s.bq.file_name])
        /\ PopQueue(t, Back(s) + 1).next_queue = NULL
    BY FlippedQueues
  <2>2. QED
    BY <1>1, <2>1
<1>8. t.disk = s.disk /\ Out(t) = o /\ InMemory(t) /\ t.bq.released = r /\ t.bq.write_handle = FALSE
  BY <1>1 DEF Flipped, Out, Stored, InMemory
<1>9. ASSUME NEW q \in r + 1 .. b
      PROVE  /\ Holds(t, q, at2[q], at2[q + 1])
             /\ PopQueue(t, q).next_queue = q + 1
  <2>1. /\ Holds(s, q, at[q], at[q + 1])
        /\ PopQueue(s, q).next_queue = IF q = b THEN NULL ELSE q + 1
    BY <1>1 DEF Stored, InPopQueues
  <2>2. Holds(t, q, at2[q], at2[q + 1])
    BY <1>4, <1>7, <1>8, <2>1 DEF Holds
  <2>3. QED
    BY <1>7, <2>1, <2>2
<1>10. Holds(t, b + 1, at2[b + 1], at2[(b + 1) + 1])
  <2>1. Len(Interval(a, o)) = o - a
    BY <1>6, IntervalIsSeq
  <2>2. QED
    <3>1. at2[b + 1] = a /\ at2[(b + 1) + 1] = o
      BY <1>2, <1>4, <1>6
    <3>2. t.disk[PopQueue(t, b + 1).file_name] = Interval(a, o)
      BY <1>5, <1>6, <1>7, <1>8
    <3>3. PopQueue(t, b + 1).file_length = o - a
      BY <1>5, <1>6, <1>7, <2>1
    <3>4. a + m_cache_limit <= o
      BY <1>1, <1>6
    <3>5. QED
      BY <3>1, <3>2, <3>3, <3>4 DEF Holds
<1>11. (b + 1) * k <= at2[(b + 1) + 1]
  <2>1. PICK x \in Nat : x = b * k /\ (b + 1) * k = x + k
    OBVIOUS
  <2>2. x <= a
    BY <1>5, <1>6, <2>1
  <2>3. x + k <= o
    BY <1>6, <2>2
  <2>4. QED
    BY <1>2, <1>4, <2>1, <2>3
<1>12. InPopQueues(t, at2)
  <2>1. ASSUME NEW q \in r + 1 .. b + 1
        PROVE  /\ Holds(t, q, at2[q], at2[q + 1])
               /\ PopQueue(t, q).next_queue = IF q = b + 1 THEN NULL ELSE q + 1
    <3>1. CASE q = b + 1
      BY <1>7, <1>10, <3>1
    <3>2. CASE q # b + 1
      <4>1. q \in r + 1 .. b
        BY <3>2
      <4>2. QED
        BY <1>9, <3>2, <4>1
    <3>3. QED
      BY <3>1, <3>2
  <2>2. QED
    BY <1>1, <1>7, <1>8, <1>11, <2>1 DEF InPopQueues
<1>13. InPushFile(t, at2)
  <2>1. at2[Back(t) + 1] = Out(t)
    BY <1>2, <1>4, <1>7, <1>8
  <2>2. QED
    BY <1>8, <2>1 DEF InPushFile
<1>14. \A q \in r + 1 .. b + 1 : at2[q] = at[q]
  <2> TAKE q \in r + 1 .. b + 1
  <2>1. q \in r + 1 .. b \/ q = b + 1
    OBVIOUS
  <2>2. QED
    BY <1>4, <2>1
<1>15. QED
  BY <1>1, <1>4, <1>8, <1>12, <1>13, <1>14 DEF Stored, Agrees

LEMMA FlippedNamed ==
  ASSUME NEW s, Typed(s), Named(s), HasPushFile(s), NEW t, Flipped(s, t)
  PROVE  Named(t)
<1>1. PICK n \in Nat : n = Len(s.bq.pop_queues)
  BY QueueTyped
<1>2. DOMAIN s.bq.pop_queues = 1 .. n /\ DOMAIN t.bq.pop_queues = 1 .. n + 1
  BY <1>1 DEF Typed, Flipped
<1>3. /\ \A i \in 1 .. n : t.bq.pop_queues[i].file_name = s.bq.pop_queues[i].file_name
      /\ t.bq.pop_queues[n + 1].file_name = s.bq.file_name
  BY <1>1 DEF Flipped
<1>4. 1 .. n + 1 = (1 .. n) \cup {n + 1}
  OBVIOUS
<1>5. PopNames(t) = PopNames(s) \cup {s.bq.file_name}
  BY <1>2, <1>3, <1>4, SMTT(60) DEF PopNames
<1>6. PoolNames(t) = PoolNames(s) /\ PushNames(t) = {} /\ PushNames(s) = {s.bq.file_name}
  BY DEF PoolNames, PushNames, Flipped, HasPushFile
<1>7. PopsAreDistinct(t)
  <2>1. s.bq.file_name \notin PopNames(s)
    BY <1>6 DEF Named
  <2>2. \A i \in 1 .. n : s.bq.pop_queues[i].file_name # s.bq.file_name
    BY <1>2, <2>1 DEF PopNames
  <2>3. PopsAreDistinct(s)
    BY DEF Named
  <2>4. QED
    BY <1>2, <1>3, <1>4, <2>2, <2>3, SMTT(60) DEF PopsAreDistinct
<1>8. PoolIsDistinct(t)
  BY DEF Named, PoolIsDistinct, Flipped
<1>9. DOMAIN t.disk = DOMAIN s.disk /\ t.bq.temp_ids = s.bq.temp_ids /\ t.bq.file_name = NoFile
  BY DEF Flipped
<1>10. QED
  BY <1>5, <1>6, <1>7, <1>8, <1>9 DEF Named

LEMMA FlipFields ==
  ASSUME NEW s, Typed(s), Named(s), HasPushFile(s), NEW t, t = flip_queues(s)
  PROVE  /\ Shape(t) /\ t.bq.consumers = s.bq.consumers
         /\ t.bq.nelements = Len(s.bq.element_cache)
         /\ Flipped(s, t)
<1>1. PICK n \in Nat, b \in Nat, p \in Seq(PopQueues) :
        n = Len(s.bq.pop_queues) /\ b = Back(s) /\ p = s.bq.pop_queues
  BY QueueTyped DEF Typed
<1>2. PICK pq : pq = [file_name |-> s.bq.file_name,
                      file_length |-> Len(s.disk[s.bq.file_name]),
                      nelements |-> s.bq.nelements - Len(s.bq.element_cache),
                      next_queue |-> NULL]
  OBVIOUS
<1>3. pq \in PopQueues
  <2>1. s.disk[s.bq.file_name] \in Seq(Nat)
    BY DEF Named, PushNames, Typed, HasPushFile
  <2>2. Len(s.disk[s.bq.file_name]) \in Nat
    BY <2>1
  <2>3. s.bq.nelements - Len(s.bq.element_cache) \in Int
    <3>1. PICK x \in Nat, y \in Nat : x = s.bq.nelements /\ y = Len(s.bq.element_cache)
      BY QueueTyped DEF Typed
    <3>2. x - y \in Int
      OBVIOUS
    <3>3. QED
      BY <3>1, <3>2
  <2>4. s.bq.file_name \in Nat /\ NULL \in Nat
    BY DEF Typed, NULL
  <2>5. QED
    BY <1>2, <2>2, <2>3, <2>4 DEF PopQueues
<1>4. PICK linked : linked = [i \in DOMAIN s.bq.pop_queues |->
                   IF i = Len(s.bq.pop_queues)
                     THEN [s.bq.pop_queues[i] EXCEPT !.next_queue = Back(s) + 1]
                     ELSE s.bq.pop_queues[i]]
  OBVIOUS
<1>5. linked = [i \in 1 .. n |-> IF i = n THEN [p[i] EXCEPT !.next_queue = b + 1] ELSE p[i]]
  BY <1>1, <1>4
<1>6. \A i \in 1 .. n : linked[i] \in PopQueues
  <2> TAKE i \in 1 .. n
  <2>1. p[i] \in PopQueues /\ b + 1 \in Nat
    BY <1>1
  <2>2. [p[i] EXCEPT !.next_queue = b + 1] \in PopQueues
    BY <2>1 DEF PopQueues
  <2>3. QED
    BY <1>5, <2>1, <2>2
<1>7. linked \in Seq(PopQueues) /\ Len(linked) = n
  <2>1. linked \in [1 .. n -> PopQueues]
    BY <1>5, <1>6
  <2>2. QED
    BY <1>1, <2>1
<1>8. t = [s EXCEPT !.bq.write_handle = FALSE,
                    !.bq.file_name = NoFile,
                    !.bq.pop_queues = Append(linked, pq),
                    !.bq.nelements = Len(s.bq.element_cache)]
  BY <1>2, <1>4 DEF flip_queues
<1>9. /\ Shape(t) /\ t.bq.consumers = s.bq.consumers
      /\ t.bq.nelements = Len(s.bq.element_cache)
      /\ t.bq.pop_queues = Append(linked, pq)
      /\ t.disk = s.disk /\ t.bq.element_cache = s.bq.element_cache
      /\ t.bq.write_handle = FALSE /\ t.bq.file_name = NoFile
      /\ t.bq.released = s.bq.released /\ t.bq.nelements_pushed = s.bq.nelements_pushed
      /\ t.bq.allocated_filenames = s.bq.allocated_filenames /\ t.bq.temp_ids = s.bq.temp_ids
  <2>1. Shape(s)
    BY DEF Typed
  <2>3. t.disk = s.disk
    BY <1>8, <2>1 DEF Shape, IsFcn, Fields
  <2>4. t.bq = [s.bq EXCEPT !.write_handle = FALSE, !.file_name = NoFile,
                            !.pop_queues = Append(linked, pq), !.nelements = Len(s.bq.element_cache)]
    BY <1>8, <2>1 DEF Shape, IsFcn, Fields
  <2>2. Shape(t)
    <3>1. DOMAIN t = {"bq", "disk"}
      BY <1>8, <2>1 DEF Shape
    <3>2. DOMAIN t.bq = Fields
      BY <2>1, <2>4 DEF Shape
    <3>3. IsFcn(t.bq)
      BY <2>4 DEF IsFcn
    <3>4. IsFcn(t)
      BY <1>8 DEF IsFcn
    <3>5. QED
      BY <3>1, <3>2, <3>3, <3>4 DEF Shape
  <2>5. /\ t.bq.consumers = s.bq.consumers
        /\ t.bq.nelements = Len(s.bq.element_cache)
        /\ t.bq.pop_queues = Append(linked, pq)
        /\ t.bq.element_cache = s.bq.element_cache
    BY <2>1, <2>4 DEF Shape, IsFcn, Fields
  <2>6. t.bq.write_handle = FALSE /\ t.bq.file_name = NoFile
    BY <2>1, <2>4 DEF Shape, IsFcn, Fields
  <2>7. /\ t.bq.released = s.bq.released /\ t.bq.nelements_pushed = s.bq.nelements_pushed
        /\ t.bq.allocated_filenames = s.bq.allocated_filenames /\ t.bq.temp_ids = s.bq.temp_ids
    BY <2>1, <2>4 DEF Shape, IsFcn, Fields
  <2>8. QED
    BY <2>2, <2>3, <2>5, <2>6, <2>7
<1>10. /\ t.bq.pop_queues \in Seq(PopQueues) /\ Len(t.bq.pop_queues) = n + 1
       /\ t.bq.pop_queues[n + 1] = pq /\ \A i \in 1 .. n : t.bq.pop_queues[i] = linked[i]
  <2>1. /\ Append(linked, pq) \in Seq(PopQueues) /\ Len(Append(linked, pq)) = Len(linked) + 1
        /\ Append(linked, pq)[Len(linked) + 1] = pq
        /\ \A i \in 1 .. Len(linked) : Append(linked, pq)[i] = linked[i]
    BY <1>3, <1>7, AppendProperties
  <2>2. QED
    BY <1>7, <1>9, <2>1
<1>11. \A i \in 1 .. n :
         /\ linked[i].file_name = p[i].file_name /\ linked[i].file_length = p[i].file_length
         /\ linked[i].next_queue = IF i = n THEN b + 1 ELSE p[i].next_queue
  <2> TAKE i \in 1 .. n
  <2>1. PICK x \in PopQueues : x = p[i]
    BY <1>1
  <2>2. linked[i] = IF i = n THEN [x EXCEPT !.next_queue = b + 1] ELSE x
    BY <1>5, <2>1
  <2>3. QED
    BY <2>1, <2>2 DEF PopQueues
<1>12. /\ pq.file_name = s.bq.file_name /\ pq.next_queue = NULL
       /\ pq.file_length = Len(s.disk[s.bq.file_name])
  BY <1>2
<1>13. Flipped(s, t)
  BY <1>1, <1>9, <1>10, <1>11, <1>12 DEF Flipped
<1>14. QED
  BY <1>9, <1>13

\* A consumer that a flip does not move stays where it was.
LEMMA FlippedStands ==
  ASSUME NEW s, NEW at \in [Nat -> Nat], Typed(s), Stored(s, at), HasPushFile(s),
         NEW t, Flipped(s, t), NEW at2, at2 = Extended(at, s),
         NEW c \in Live(s), Stands(s, at, c), t.bq.consumers[c] = s.bq.consumers[c]
  PROVE  Stands(t, at2, c)
<1>1. PICK b \in Nat, r \in Nat, o \in Nat :
        b = Back(s) /\ r = s.bq.released /\ o = Out(s)
  BY QueueTyped, MemoryLength DEF Stored
<1>2. PICK q \in Nat : q = s.bq.consumers[c].current_pop_queue
  BY ConsumerTyped
<1>3. /\ \A x \in r + 1 .. b + 1 : at2[x] = at[x]
      /\ Back(t) = b + 1
  <2>1. Agrees(at, at2, s)
    BY FlippedStored
  <2>2. Back(t) = b + 1
    BY <1>1, FlippedQueues
  <2>3. QED
    BY <1>1, <2>1, <2>2 DEF Agrees
<1>4. /\ t.bq.released = r /\ t.bq.element_cache = s.bq.element_cache
      /\ Out(t) = Out(s)
  BY <1>1 DEF Flipped, Out
<1>5. CASE q = NULL
  BY <1>2, <1>4, <1>5 DEF Stands
<1>6. CASE q # NULL
  <2>1. q \in r + 1 .. b
    BY <1>1, <1>2, <1>6 DEF Stands
  <2>2. q \in r + 1 .. b + 1 /\ q + 1 \in r + 1 .. b + 1
    BY <2>1
  <2>3. at2[q] = at[q] /\ at2[q + 1] = at[q + 1]
    BY <1>3, <2>2
  <2>4. QED
    BY <1>2, <1>3, <1>4, <1>6, <2>2, <2>3, <1>1 DEF Stands
<1>7. QED
  BY <1>5, <1>6

LEMMA FlipStep ==
  ASSUME NEW s, NEW at \in [Nat -> Nat], Typed(s), Stored(s, at), Placed(s, at), Named(s),
         HasPushFile(s), NEW t, t = flip_queues(s)
  PROVE  /\ Typed(t) /\ Named(t) /\ SamePops(s, t) /\ t.bq.consumers = s.bq.consumers
         /\ t.bq.nelements = Len(s.bq.element_cache) /\ Flipped(s, t)
         /\ \E at2 \in [Nat -> Nat] : Stored(t, at2) /\ Placed(t, at2)
<1>1. /\ Shape(t) /\ t.bq.consumers = s.bq.consumers
      /\ t.bq.nelements = Len(s.bq.element_cache) /\ Flipped(s, t)
  BY FlipFields
<1>2. Live(t) = Live(s)
  BY <1>1 DEF Live
<1>3. Typed(t)
  <2>1. NoFile \in Nat /\ FALSE \in BOOLEAN
    BY DEF NoFile
  <2>2. Len(s.bq.element_cache) \in Nat
    BY QueueTyped
  <2>3. QED
    BY <1>1, <1>2, <2>1, <2>2 DEF Typed, Flipped
<1>4. Named(t)
  BY <1>1, FlippedNamed
<1>5. SamePops(s, t)
  BY <1>1, <1>2 DEF SamePops, Flipped
<1>6. PICK at2 : at2 = Extended(at, s)
  OBVIOUS
<1>7. at2 \in [Nat -> Nat] /\ Stored(t, at2)
  BY <1>1, <1>6, FlippedStored
<1>8. Placed(t, at2)
  <2> SUFFICES ASSUME NEW c \in Live(s) PROVE Stands(t, at2, c)
    BY <1>2 DEF Placed
  <2>1. Stands(s, at, c) /\ t.bq.consumers[c] = s.bq.consumers[c]
    BY <1>1 DEF Placed
  <2>2. QED
    BY <1>1, <1>6, <2>1, FlippedStands
<1>9. QED
  BY <1>1, <1>3, <1>4, <1>5, <1>7, <1>8

-----------------------------------------------------------------------------
(* flush_push_queue(): the first m_cache_limit elements of the memory      *)
(* queue go to a new push file.                                            *)

\* The new push file is written; its elements are still in memory.
write_first(s) ==
  LET opened == open_push_file(s)
  IN  [opened EXCEPT !.disk = WriteFile(@, opened.bq.file_name,
                                        SubSeq(s.bq.element_cache, 1, m_cache_limit))]

drop_first(s) == [s EXCEPT !.bq.element_cache = DropFirst(@, m_cache_limit)]

\* f is a name for a new push file: one of the pool, which loses it, or a new one.
Fresh(s, t, f) ==
  \/ /\ s.bq.allocated_filenames # <<>> /\ f = Head(s.bq.allocated_filenames)
     /\ t.bq.allocated_filenames = Tail(s.bq.allocated_filenames)
     /\ t.bq.temp_ids = s.bq.temp_ids
  \/ /\ t.bq.allocated_filenames = s.bq.allocated_filenames
     /\ f = s.bq.temp_ids + 1 /\ t.bq.temp_ids = s.bq.temp_ids + 1

Written(s, t) ==
  /\ HasPushFile(t) /\ Fresh(s, t, t.bq.file_name)
  /\ DOMAIN t.disk = DOMAIN s.disk \cup {t.bq.file_name}
  /\ \A f \in DOMAIN s.disk : f # t.bq.file_name => t.disk[f] = s.disk[f]
  /\ t.disk[t.bq.file_name] = SubSeq(s.bq.element_cache, 1, m_cache_limit)
  /\ IsFcn(t.disk)
  /\ t.bq.element_cache = DropFirst(s.bq.element_cache, m_cache_limit)
  /\ t.bq.pop_queues = s.bq.pop_queues /\ t.bq.released = s.bq.released
  /\ t.bq.nelements_pushed = s.bq.nelements_pushed

LEMMA OpenFields ==
  ASSUME NEW s, Typed(s), NEW t, t = open_push_file(s)
  PROVE  /\ Shape(t) /\ HasPushFile(t) /\ Fresh(s, t, t.bq.file_name)
         /\ t.disk = WriteFile(s.disk, t.bq.file_name, <<>>)
         /\ t.bq.element_cache = s.bq.element_cache
         /\ t.bq.pop_queues = s.bq.pop_queues /\ t.bq.released = s.bq.released
         /\ t.bq.nelements_pushed = s.bq.nelements_pushed /\ t.bq.consumers = s.bq.consumers
         /\ t.bq.nelements = s.bq.nelements
<1>1. Shape(s)
  BY DEF Typed
<1>2. CASE s.bq.allocated_filenames # <<>>
  <2>1. PICK u : u = [s EXCEPT !.bq.allocated_filenames = Tail(s.bq.allocated_filenames)]
    OBVIOUS
  <2>2. PICK f : f = Head(s.bq.allocated_filenames)
    OBVIOUS
  <2>3. t = [bq |-> [u.bq EXCEPT !.file_name = f, !.write_handle = TRUE],
             disk |-> WriteFile(u.disk, f, <<>>)]
    BY <1>2, <2>1, <2>2 DEF open_push_file, open_file
  <2>4. u.disk = s.disk /\ u.bq = [s.bq EXCEPT !.allocated_filenames = Tail(s.bq.allocated_filenames)]
    BY <1>1, <2>1 DEF Shape, IsFcn, Fields
  <2>5. t.bq = [s.bq EXCEPT !.allocated_filenames = Tail(s.bq.allocated_filenames),
                            !.file_name = f, !.write_handle = TRUE]
    BY <2>3, <2>4
  <2>6. t.disk = WriteFile(s.disk, f, <<>>)
    BY <2>3, <2>4
  <2>7. Shape(t)
    <3>1. DOMAIN t = {"bq", "disk"} /\ IsFcn(t)
      BY <2>3 DEF IsFcn
    <3>2. DOMAIN t.bq = Fields /\ IsFcn(t.bq)
      BY <1>1, <2>5 DEF Shape, IsFcn
    <3>3. QED
      BY <3>1, <3>2 DEF Shape
  <2>8. t.bq.write_handle = TRUE
    BY <1>1, <2>5 DEF Shape, IsFcn, Fields
  <2>9. /\ t.bq.file_name = f /\ t.bq.allocated_filenames = Tail(s.bq.allocated_filenames)
        /\ t.bq.temp_ids = s.bq.temp_ids
    BY <1>1, <2>5 DEF Shape, IsFcn, Fields
  <2>10. /\ t.bq.element_cache = s.bq.element_cache
         /\ t.bq.pop_queues = s.bq.pop_queues /\ t.bq.released = s.bq.released
         /\ t.bq.nelements_pushed = s.bq.nelements_pushed /\ t.bq.consumers = s.bq.consumers
         /\ t.bq.nelements = s.bq.nelements
    BY <1>1, <2>5 DEF Shape, IsFcn, Fields
  <2>11. Fresh(s, t, f)
    BY <1>2, <2>2, <2>9 DEF Fresh
  <2>12. QED
    BY <2>6, <2>7, <2>8, <2>9, <2>10, <2>11 DEF HasPushFile
<1>3. CASE s.bq.allocated_filenames = <<>>
  <2>1. PICK f : f = s.bq.temp_ids + 1
    OBVIOUS
  <2>2. PICK u : u = [s EXCEPT !.bq.temp_ids = f]
    OBVIOUS
  <2>3. t = [bq |-> [u.bq EXCEPT !.file_name = f, !.write_handle = TRUE],
             disk |-> WriteFile(u.disk, f, <<>>)]
    BY <1>3, <2>1, <2>2 DEF open_push_file, open_file, get_temp_cache_id
  <2>4. u.disk = s.disk /\ u.bq = [s.bq EXCEPT !.temp_ids = f]
    BY <1>1, <2>2 DEF Shape, IsFcn, Fields
  <2>5. t.bq = [s.bq EXCEPT !.temp_ids = f, !.file_name = f, !.write_handle = TRUE]
    BY <2>3, <2>4
  <2>6. t.disk = WriteFile(s.disk, f, <<>>)
    BY <2>3, <2>4
  <2>7. Shape(t)
    <3>1. DOMAIN t = {"bq", "disk"} /\ IsFcn(t)
      BY <2>3 DEF IsFcn
    <3>2. DOMAIN t.bq = Fields /\ IsFcn(t.bq)
      BY <1>1, <2>5 DEF Shape, IsFcn
    <3>3. QED
      BY <3>1, <3>2 DEF Shape
  <2>8. t.bq.write_handle = TRUE
    BY <1>1, <2>5 DEF Shape, IsFcn, Fields
  <2>9. /\ t.bq.file_name = f /\ t.bq.allocated_filenames = s.bq.allocated_filenames
        /\ t.bq.temp_ids = f
    BY <1>1, <2>5 DEF Shape, IsFcn, Fields
  <2>10. /\ t.bq.element_cache = s.bq.element_cache
         /\ t.bq.pop_queues = s.bq.pop_queues /\ t.bq.released = s.bq.released
         /\ t.bq.nelements_pushed = s.bq.nelements_pushed /\ t.bq.consumers = s.bq.consumers
         /\ t.bq.nelements = s.bq.nelements
    BY <1>1, <2>5 DEF Shape, IsFcn, Fields
  <2>11. Fresh(s, t, f)
    BY <2>1, <2>9 DEF Fresh
  <2>12. QED
    BY <2>6, <2>7, <2>8, <2>9, <2>10, <2>11 DEF HasPushFile
<1>4. QED
  BY <1>2, <1>3

NoPushFile(s) == s.bq.write_handle = FALSE

LEMMA PopNamesOnDisk ==
  ASSUME NEW s, Typed(s), Named(s), NEW q \in s.bq.released + 1 .. Back(s)
  PROVE  PopQueue(s, q).file_name \in PopNames(s) /\ PopQueue(s, q).file_name \in DOMAIN s.disk
<1>1. q - s.bq.released \in DOMAIN s.bq.pop_queues
  <2>1. PICK p \in Seq(PopQueues) : p = s.bq.pop_queues
    BY DEF Typed
  <2>2. DOMAIN p = 1 .. Len(p)
    OBVIOUS
  <2>3. q - s.bq.released \in 1 .. Len(p)
    BY <2>1, QueueTyped
  <2>4. QED
    BY <2>1, <2>2, <2>3
<1>2. QED
  BY <1>1 DEF Named, PopNames, PopQueue

LEMMA FreshIsUnused ==
  ASSUME NEW s, Typed(s), Named(s), NEW t, NEW f, Fresh(s, t, f)
  PROVE  /\ f \in Nat /\ f \notin PopNames(s) /\ f \notin PushNames(s)
         /\ PoolNames(t) = PoolNames(s) \ {f} /\ PoolIsDistinct(t)
         /\ t.bq.allocated_filenames \in Seq(Nat) /\ t.bq.temp_ids \in Nat
         /\ 1 .. s.bq.temp_ids \subseteq 1 .. t.bq.temp_ids /\ f \in 1 .. t.bq.temp_ids
<1>1. PICK pool \in Seq(Nat), n \in Nat, k \in Nat :
        /\ pool = s.bq.allocated_filenames /\ n = Len(pool) /\ DOMAIN pool = 1 .. n
        /\ k = s.bq.temp_ids
  <2>1. PICK pool \in Seq(Nat), k \in Nat : pool = s.bq.allocated_filenames /\ k = s.bq.temp_ids
    BY DEF Typed
  <2>2. Len(pool) \in Nat /\ DOMAIN pool = 1 .. Len(pool)
    OBVIOUS
  <2>3. QED
    BY <2>1, <2>2
<1>2. PoolNames(s) = {pool[i] : i \in 1 .. n} /\ \A i, j \in 1 .. n : pool[i] = pool[j] => i = j
  <2>1. PoolNames(s) = {pool[i] : i \in DOMAIN pool}
    BY <1>1 DEF PoolNames, Elements
  <2>2. PoolIsDistinct(s)
    BY DEF Named
  <2>3. \A i, j \in DOMAIN pool : pool[i] = pool[j] => i = j
    BY <1>1, <2>2 DEF PoolIsDistinct
  <2>4. QED
    BY <1>1, <2>1, <2>3
<1>3. PoolNames(s) \subseteq 1 .. k /\ PopNames(s) \subseteq 1 .. k /\ PushNames(s) \subseteq 1 .. k
  BY <1>1 DEF Named
<1>4. PoolNames(s) \cap PopNames(s) = {} /\ PoolNames(s) \cap PushNames(s) = {}
  BY DEF Named
<1>5. CASE /\ s.bq.allocated_filenames # <<>> /\ f = Head(s.bq.allocated_filenames)
           /\ t.bq.allocated_filenames = Tail(s.bq.allocated_filenames)
           /\ t.bq.temp_ids = s.bq.temp_ids
  <2>1. n # 0 /\ 1 \in 1 .. n /\ f = pool[1]
    BY <1>1, <1>5
  <2>2. PICK m \in Nat : m = n - 1 /\ \A i \in 1 .. m : i + 1 \in 1 .. n /\ i + 1 # 1
    BY <2>1
  <2>3. PICK rest \in Seq(Nat) : rest = Tail(pool) /\ Len(rest) = m /\ DOMAIN rest = 1 .. m
                                 /\ \A i \in 1 .. m : rest[i] = pool[i + 1]
    <3>1. Tail(pool) \in Seq(Nat) /\ Len(Tail(pool)) = n - 1 /\ \A i \in 1 .. n - 1 : Tail(pool)[i] = pool[i + 1]
      BY <1>1, <1>5
    <3>2. PICK rest \in Seq(Nat) : rest = Tail(pool) /\ Len(rest) = m /\ \A i \in 1 .. m : rest[i] = pool[i + 1]
      BY <2>2, <3>1
    <3>3. DOMAIN rest = 1 .. m
      BY <3>2
    <3>4. QED
      BY <3>2, <3>3
  <2>4. \A j \in 1 .. n : j # 1 => \E i \in 1 .. m : j = i + 1
    <3> SUFFICES ASSUME NEW j \in 1 .. n, j # 1 PROVE j - 1 \in 1 .. m /\ j = (j - 1) + 1
      OBVIOUS
    <3>1. QED
      BY <2>2
  <2>5. t.bq.allocated_filenames = rest
    BY <1>1, <1>5, <2>3
  <2>6. PoolNames(t) = {rest[i] : i \in 1 .. m}
    BY <2>3, <2>5 DEF PoolNames, Elements
  <2>7. PoolNames(t) = PoolNames(s) \ {f}
    <3>1. ASSUME NEW x \in PoolNames(t) PROVE x \in PoolNames(s) \ {f}
      <4>1. PICK i \in 1 .. m : x = rest[i]
        BY <2>6
      <4>2. x = pool[i + 1] /\ i + 1 \in 1 .. n /\ i + 1 # 1
        BY <2>2, <2>3, <4>1
      <4>3. QED
        BY <1>2, <2>1, <4>2
    <3>2. ASSUME NEW x \in PoolNames(s) \ {f} PROVE x \in PoolNames(t)
      <4>1. PICK j \in 1 .. n : x = pool[j] /\ j # 1
        BY <1>2, <2>1
      <4>2. PICK i \in 1 .. m : j = i + 1
        BY <2>4, <4>1
      <4>3. QED
        BY <2>3, <2>6, <4>1, <4>2
    <3>3. QED
      BY <3>1, <3>2
  <2>8. PoolIsDistinct(t)
    <3>1. ASSUME NEW i \in 1 .. m, NEW j \in 1 .. m, rest[i] = rest[j] PROVE i = j
      <4>1. i + 1 = j + 1
        BY <1>2, <2>2, <2>3, <3>1
      <4>2. QED
        BY <4>1
    <3>2. QED
      BY <2>3, <2>5, <3>1 DEF PoolIsDistinct
  <2>9. f \in PoolNames(s) /\ f \in Nat
    BY <1>2, <2>1, <1>1
  <2>10. QED
    BY <1>1, <1>3, <1>4, <1>5, <2>3, <2>5, <2>7, <2>8, <2>9
<1>6. CASE /\ t.bq.allocated_filenames = s.bq.allocated_filenames
           /\ f = s.bq.temp_ids + 1 /\ t.bq.temp_ids = s.bq.temp_ids + 1
  <2>1. f = k + 1 /\ t.bq.temp_ids = k + 1
    BY <1>1, <1>6
  <2>2. f \in Nat /\ f \notin 1 .. k /\ 1 .. k \subseteq 1 .. k + 1 /\ f \in 1 .. k + 1 /\ k + 1 \in Nat
    BY <2>1
  <2>3. PoolNames(t) = PoolNames(s)
    BY <1>6 DEF PoolNames
  <2>4. PoolIsDistinct(t)
    BY <1>6 DEF PoolIsDistinct, Named
  <2>5. QED
    BY <1>1, <1>3, <1>6, <2>1, <2>2, <2>3, <2>4
<1>7. QED
  BY <1>5, <1>6 DEF Fresh

LEMMA WrittenNamed ==
  ASSUME NEW s, Typed(s), Named(s), NoPushFile(s), NEW t, Written(s, t)
  PROVE  Named(t)
<1>1. PICK f : f = t.bq.file_name /\ Fresh(s, t, f)
  BY DEF Written
<1>2. PICK k \in Nat : k = t.bq.temp_ids
  BY <1>1, FreshIsUnused
<1>3. /\ f \notin PopNames(s) /\ PoolNames(t) = PoolNames(s) \ {f} /\ PoolIsDistinct(t)
      /\ 1 .. s.bq.temp_ids \subseteq 1 .. k /\ f \in 1 .. k
  BY <1>1, <1>2, FreshIsUnused
<1>4. PushNames(s) = {} /\ PushNames(t) = {f}
  BY <1>1 DEF PushNames, Written, HasPushFile, NoPushFile
<1>5. PopNames(t) = PopNames(s) /\ PopsAreDistinct(t)
  BY DEF Written, PopNames, PopsAreDistinct, Named
<1>6. DOMAIN t.disk = DOMAIN s.disk \cup {f}
  BY <1>1 DEF Written
<1>7. DOMAIN s.disk = PoolNames(s) \cup PopNames(s) /\ DOMAIN s.disk \subseteq 1 .. s.bq.temp_ids
  BY <1>4 DEF Named
<1>8. PoolNames(s) \cap PopNames(s) = {}
  BY DEF Named
<1>9. DOMAIN t.disk \subseteq 1 .. t.bq.temp_ids
  BY <1>2, <1>3, <1>6, <1>7
<1>10. DOMAIN t.disk = PoolNames(t) \cup PopNames(t) \cup PushNames(t)
  BY <1>3, <1>4, <1>5, <1>6, <1>7
<1>11. t.bq.write_handle = TRUE
  BY DEF Written, HasPushFile
<1>12. QED
  BY <1>3, <1>4, <1>5, <1>8, <1>9, <1>10, <1>11 DEF Named

LEMMA WrittenStored ==
  ASSUME NEW s, NEW at \in [Nat -> Nat], Typed(s), Stored(s, at), Named(s), NoPushFile(s),
         NEW k \in Nat, k = m_cache_limit, k <= Len(s.bq.element_cache),
         NEW t, Written(s, t)
  PROVE  /\ Stored(t, at) /\ Out(t) = Out(s) + k
         /\ Len(t.bq.element_cache) = Len(s.bq.element_cache) - k
         /\ t.bq.element_cache \in Seq(Nat) /\ t.disk \in [DOMAIN t.disk -> Seq(Nat)]
<1>1. PICK l \in Nat, p \in Nat, o \in Nat, b \in Nat, r \in Nat :
        /\ l = Len(s.bq.element_cache) /\ p = s.bq.nelements_pushed /\ o = Out(s)
        /\ o <= p /\ l = p - o /\ b = Back(s) /\ r = s.bq.released
  BY MemoryLength, QueueTyped DEF Stored
<1>2. PICK f : f = t.bq.file_name /\ Fresh(s, t, f)
  BY DEF Written
<1>3. f \notin PopNames(s)
  BY <1>2, FreshIsUnused
<1>4. PICK x \in Nat : x = o + k /\ o <= x /\ x <= p /\ x - o = k
  <2>1. o + k \in Nat /\ o <= o + k /\ o + k <= p /\ (o + k) - o = k
    BY <1>1
  <2>2. QED
    BY <2>1
<1>5. s.bq.element_cache = Interval(o, p)
  BY <1>1 DEF Stored, InMemory
<1>6. t.bq.element_cache = Interval(x, p) /\ t.disk[f] = Interval(o, x)
  <2>1. /\ SubSeq(Interval(o, p), 1, x - o) = Interval(o, x)
        /\ DropFirst(Interval(o, p), x - o) = Interval(x, p)
    <3>1. o <= x /\ x <= p
      BY <1>4
    <3>2. CutsAt(o, x, p)
      BY <3>1, IntervalCuts
    <3>3. QED
      BY <3>2 DEF CutsAt
  <2>2. t.bq.element_cache = DropFirst(s.bq.element_cache, k) /\ t.disk[f] = SubSeq(s.bq.element_cache, 1, k)
    BY <1>2 DEF Written
  <2>3. QED
    BY <1>4, <1>5, <2>1, <2>2
<1>7. t.bq.element_cache \in Seq(Nat) /\ Len(t.bq.element_cache) = l - k
  <2>1. Interval(x, p) \in Seq(Nat) /\ Len(Interval(x, p)) = p - x
    BY <1>4, IntervalIsSeq
  <2>2. p - x = l - k
    BY <1>1, <1>4
  <2>3. QED
    BY <1>6, <2>1, <2>2
<1>8. Out(t) = o + k /\ t.bq.nelements_pushed = p
  <2>1. t.bq.nelements_pushed = p
    BY <1>1 DEF Written
  <2>2. Out(t) = p - (l - k)
    BY <1>7, <2>1 DEF Out
  <2>3. p - (l - k) = o + k
    BY <1>1
  <2>4. QED
    BY <2>1, <2>2, <2>3
<1>9. InMemory(t)
  BY <1>4, <1>6, <1>8 DEF InMemory
<1>10. Back(t) = b /\ t.bq.released = r /\ \A q : PopQueue(t, q) = PopQueue(s, q)
  BY <1>1 DEF Written, Back, PopQueue
<1>11. ASSUME NEW q \in r + 1 .. b
       PROVE  t.disk[PopQueue(s, q).file_name] = s.disk[PopQueue(s, q).file_name]
  BY <1>1, <1>2, <1>3, PopNamesOnDisk DEF Written
<1>12. InPopQueues(t, at)
  <2>1. /\ \A q \in r + 1 .. b : /\ Holds(s, q, at[q], at[q + 1])
                                 /\ PopQueue(s, q).next_queue = IF q = b THEN NULL ELSE q + 1
        /\ b * m_cache_limit <= at[b + 1]
    BY <1>1 DEF Stored, InPopQueues
  <2>2. \A q \in r + 1 .. b : Holds(t, q, at[q], at[q + 1])
    BY <1>10, <1>11, <2>1, ZenonT(60) DEF Holds
  <2>3. QED
    BY <1>10, <2>1, <2>2 DEF InPopQueues
<1>13. InPushFile(t, at)
  <2>1. at[b + 1] = o
    BY <1>1 DEF Stored, InPushFile, NoPushFile
  <2>2. at[Back(t) + 1] + m_cache_limit <= Out(t)
    BY <1>1, <1>4, <1>8, <1>10, <2>1
  <2>3. t.disk[t.bq.file_name] = Interval(at[Back(t) + 1], Out(t))
    <3>1. at[Back(t) + 1] = o /\ Out(t) = x
      BY <1>4, <1>8, <1>10, <2>1
    <3>2. QED
      BY <1>2, <1>6, <3>1
  <2>4. QED
    BY <2>2, <2>3 DEF InPushFile, Written, HasPushFile
<1>14. t.disk \in [DOMAIN t.disk -> Seq(Nat)]
  <2>1. t.disk[f] \in Seq(Nat)
    BY <1>4, <1>6, IntervalIsSeq
  <2>2. \A g \in DOMAIN t.disk : t.disk[g] \in Seq(Nat)
    BY <1>2, <2>1 DEF Written, Typed
  <2>3. IsFcn(t.disk)
    BY DEF Written
  <2>4. QED
    BY <2>2, <2>3 DEF IsFcn
<1>15. QED
  BY <1>1, <1>7, <1>8, <1>9, <1>12, <1>13, <1>14 DEF Stored

WroteFirst(s, w) ==
  /\ Shape(w) /\ HasPushFile(w) /\ Fresh(s, w, w.bq.file_name)
  /\ w.bq.element_cache = s.bq.element_cache
  /\ w.bq.pop_queues = s.bq.pop_queues /\ w.bq.released = s.bq.released
  /\ w.bq.nelements_pushed = s.bq.nelements_pushed /\ w.bq.consumers = s.bq.consumers
  /\ w.bq.nelements = s.bq.nelements
  /\ DOMAIN w.disk = DOMAIN s.disk \cup {w.bq.file_name}
  /\ \A f \in DOMAIN s.disk : f # w.bq.file_name => w.disk[f] = s.disk[f]
  /\ w.disk[w.bq.file_name] = SubSeq(s.bq.element_cache, 1, m_cache_limit)
  /\ IsFcn(w.disk)

LEMMA WriteFirstFields ==
  ASSUME NEW s, Typed(s), NEW w, w = write_first(s)
  PROVE  WroteFirst(s, w)
<1>1. PICK o : o = open_push_file(s)
  OBVIOUS
<1>2. /\ Shape(o) /\ HasPushFile(o) /\ Fresh(s, o, o.bq.file_name)
      /\ o.disk = WriteFile(s.disk, o.bq.file_name, <<>>)
      /\ o.bq.element_cache = s.bq.element_cache
      /\ o.bq.pop_queues = s.bq.pop_queues /\ o.bq.released = s.bq.released
      /\ o.bq.nelements_pushed = s.bq.nelements_pushed /\ o.bq.consumers = s.bq.consumers
      /\ o.bq.nelements = s.bq.nelements
  BY <1>1, OpenFields
<1>3. PICK f, data : f = o.bq.file_name /\ data = SubSeq(s.bq.element_cache, 1, m_cache_limit)
  OBVIOUS
<1>4. w = [o EXCEPT !.disk = WriteFile(o.disk, f, data)]
  BY <1>1, <1>3 DEF write_first
<1>5. w.bq = o.bq /\ w.disk = WriteFile(o.disk, f, data) /\ Shape(w)
  <2>1. w.bq = o.bq /\ w.disk = WriteFile(o.disk, f, data) /\ DOMAIN w = {"bq", "disk"}
    BY <1>2, <1>4 DEF Shape
  <2>2. IsFcn(w)
    BY <1>4 DEF IsFcn
  <2>3. QED
    BY <1>2, <2>1, <2>2 DEF Shape
<1>6. /\ DOMAIN w.disk = DOMAIN s.disk \cup {f}
      /\ \A g \in DOMAIN s.disk : g # f => w.disk[g] = s.disk[g]
      /\ w.disk[f] = data
  <2>1. PICK d, e : d = s.disk /\ e = o.disk
    OBVIOUS
  <2>2. e = [g \in DOMAIN d \cup {f} |-> IF g = f THEN <<>> ELSE d[g]]
    BY <1>2, <1>3, <2>1 DEF WriteFile
  <2>3. w.disk = [g \in DOMAIN e \cup {f} |-> IF g = f THEN data ELSE e[g]]
    BY <1>5, <2>1 DEF WriteFile
  <2>4. DOMAIN e = DOMAIN d \cup {f} /\ \A g \in DOMAIN d : g # f => e[g] = d[g]
    BY <2>2
  <2>5. QED
    BY <2>1, <2>3, <2>4
<1>7. IsFcn(w.disk)
  BY <1>5 DEF WriteFile, IsFcn
<1>8. HasPushFile(w) /\ Fresh(s, w, f)
  BY <1>2, <1>3, <1>5 DEF HasPushFile, Fresh
<1>9. QED
  BY <1>2, <1>3, <1>5, <1>6, <1>7, <1>8 DEF WroteFirst

LEMMA DropFirstFields ==
  ASSUME NEW s, Shape(s), NEW t, t = drop_first(s)
  PROVE  /\ Shape(t) /\ SameFiles(s, t) /\ t.bq.consumers = s.bq.consumers
         /\ t.bq.element_cache = DropFirst(s.bq.element_cache, m_cache_limit)
         /\ t.bq.nelements = s.bq.nelements
         /\ t.bq.nelements_pushed = s.bq.nelements_pushed
BY DEF drop_first, Shape, IsFcn, Fields, SameFiles

\* The states with the file written, without and with the elements dropped.
WroteAndDropped(s, at, w, u) ==
  /\ Written(s, u) /\ Typed(u) /\ Named(u) /\ Stored(u, at)
  /\ u.bq.consumers = s.bq.consumers /\ u.bq.nelements = s.bq.nelements
  /\ SameFiles(u, w) /\ Typed(w) /\ Named(w)
  /\ w.bq.element_cache = s.bq.element_cache /\ w.bq.nelements_pushed = s.bq.nelements_pushed
  /\ w.bq.consumers = s.bq.consumers
  /\ u.bq.element_cache = DropFirst(s.bq.element_cache, m_cache_limit)

LEMMA WrittenState ==
  ASSUME NEW s, NEW at \in [Nat -> Nat], Typed(s), Stored(s, at), Named(s), NoPushFile(s),
         m_cache_limit <= Len(s.bq.element_cache),
         NEW w, w = write_first(s), NEW u, u = drop_first(w)
  PROVE  WroteAndDropped(s, at, w, u)
<1>1. /\ Shape(w) /\ HasPushFile(w) /\ Fresh(s, w, w.bq.file_name)
      /\ w.bq.element_cache = s.bq.element_cache
      /\ w.bq.pop_queues = s.bq.pop_queues /\ w.bq.released = s.bq.released
      /\ w.bq.nelements_pushed = s.bq.nelements_pushed /\ w.bq.consumers = s.bq.consumers
      /\ w.bq.nelements = s.bq.nelements
      /\ DOMAIN w.disk = DOMAIN s.disk \cup {w.bq.file_name}
      /\ \A f \in DOMAIN s.disk : f # w.bq.file_name => w.disk[f] = s.disk[f]
      /\ w.disk[w.bq.file_name] = SubSeq(s.bq.element_cache, 1, m_cache_limit)
      /\ IsFcn(w.disk)
  <2>1. WroteFirst(s, w)
    BY WriteFirstFields
  <2>2. QED
    BY <2>1 DEF WroteFirst
<1>2. /\ Shape(u) /\ SameFiles(w, u) /\ u.bq.consumers = w.bq.consumers
      /\ u.bq.element_cache = DropFirst(w.bq.element_cache, m_cache_limit)
      /\ u.bq.nelements = w.bq.nelements
      /\ u.bq.nelements_pushed = w.bq.nelements_pushed
  BY <1>1, DropFirstFields, SMTT(60)
<1>3. HasPushFile(u) /\ Fresh(s, u, u.bq.file_name)
  BY <1>1, <1>2 DEF HasPushFile, Fresh, SameFiles
<1>4. Written(s, u)
  BY <1>1, <1>2, <1>3 DEF Written, SameFiles
<1>5. PICK k \in Nat : k = m_cache_limit /\ k <= Len(s.bq.element_cache)
  BY LimitIsPositive
<1>6. Stored(u, at) /\ u.bq.element_cache \in Seq(Nat) /\ u.disk \in [DOMAIN u.disk -> Seq(Nat)]
  BY <1>4, <1>5, WrittenStored
<1>7. Named(u)
  BY <1>4, WrittenNamed
<1>8. /\ u.bq.file_name \in Nat /\ u.bq.allocated_filenames \in Seq(Nat) /\ u.bq.temp_ids \in Nat
  BY <1>3, FreshIsUnused
<1>9. u.bq.write_handle \in BOOLEAN
  BY <1>3 DEF HasPushFile
<1>10. Live(u) = Live(s) /\ Live(w) = Live(s)
  BY <1>1, <1>2 DEF Live
<1>11. /\ u.bq.pop_queues = s.bq.pop_queues /\ u.bq.released = s.bq.released
       /\ u.bq.nelements_pushed = s.bq.nelements_pushed /\ u.bq.consumers = s.bq.consumers
       /\ u.bq.nelements = s.bq.nelements
  BY <1>1, <1>2 DEF SameFiles
<1>12. Typed(u)
  BY <1>2, <1>6, <1>8, <1>9, <1>10, <1>11 DEF Typed
<1>13. SameFiles(u, w)
  BY <1>2 DEF SameFiles
<1>14. Typed(w)
  <2>1. Shape(w) /\ w.bq.element_cache \in Seq(Nat) /\ w.bq.nelements \in Nat
    BY <1>1 DEF Typed
  <2>2. w.bq.consumers \in [Live(w) -> ConsumerStates] /\ Live(w) \in {Consumers, {}}
    BY <1>1, <1>10 DEF Typed
  <2>3. QED
    BY <1>1, <1>12, <1>13, <2>1, <2>2 DEF Typed, SameFiles
<1>15. Named(w)
  BY <1>7, <1>13, FilesStay
<1>16. QED
  BY <1>1, <1>2, <1>4, <1>6, <1>7, <1>11, <1>12, <1>13, <1>14, <1>15 DEF WroteAndDropped

MustFlip(s) ==
  \E c \in Live(s) : reading_from_push_queue(s, c) /\ s.bq.consumers[c].element_offset < m_cache_limit

\* Where a flush moves consumer c when b is the last pop queue.
Moved(s, c, b) ==
  LET cc == s.bq.consumers[c]
  IN  IF ~ reading_from_push_queue(s, c) THEN cc
      ELSE IF cc.element_offset >= m_cache_limit
        THEN [cc EXCEPT !.element_offset = cc.element_offset - m_cache_limit]
        ELSE [cc EXCEPT !.current_pop_queue = b, !.file_offset = cc.element_offset,
                        !.element_offset = 0]

MovedAll(s, b) == [c \in Live(s) |-> Moved(s, c, b)]

close(v, cs, ec) == [v EXCEPT !.bq.consumers = cs, !.bq.element_cache = ec]

Closed(v, cs, ec, t) ==
  /\ Shape(t) /\ SameFiles(v, t) /\ t.bq.consumers = cs /\ t.bq.element_cache = ec
  /\ t.bq.nelements = v.bq.nelements /\ t.bq.nelements_pushed = v.bq.nelements_pushed

LEMMA ConsumersAndCache ==
  ASSUME NEW v, Shape(v), NEW cs, NEW ec, NEW t, t = close(v, cs, ec)
  PROVE  Closed(v, cs, ec, t)
BY ZenonT(60) DEF Shape, IsFcn, Fields, SameFiles, close, Closed

Flushed(s, u, t) ==
  /\ Shape(t) /\ t.bq.element_cache = u.bq.element_cache
  /\ t.bq.nelements_pushed = s.bq.nelements_pushed
  /\ MustFlip(s) => /\ Flipped(u, t) /\ t.bq.nelements = Len(s.bq.element_cache)
                    /\ t.bq.consumers = MovedAll(s, Back(s) + 1)
  /\ ~ MustFlip(s) => /\ SameFiles(u, t) /\ t.bq.nelements = s.bq.nelements
                      /\ t.bq.consumers = MovedAll(s, Back(s))

LEMMA FlushFields ==
  ASSUME NEW s, NEW at \in [Nat -> Nat], Typed(s), Stored(s, at), Named(s), NoPushFile(s),
         m_cache_limit <= Len(s.bq.element_cache),
         NEW t, t = flush_push_queue(s), NEW u, u = drop_first(write_first(s))
  PROVE  Flushed(s, u, t)
<1>1. PICK w : w = write_first(s)
  OBVIOUS
<1>2. /\ Written(s, u) /\ Typed(u) /\ Named(u) /\ Stored(u, at)
      /\ u.bq.consumers = s.bq.consumers /\ u.bq.nelements = s.bq.nelements
      /\ SameFiles(u, w) /\ Typed(w) /\ Named(w)
      /\ w.bq.element_cache = s.bq.element_cache /\ w.bq.nelements_pushed = s.bq.nelements_pushed
      /\ w.bq.consumers = s.bq.consumers
      /\ u.bq.element_cache = DropFirst(s.bq.element_cache, m_cache_limit)
  <2>1. u = drop_first(w)
    BY <1>1
  <2>2. WroteAndDropped(s, at, w, u)
    BY <1>1, <2>1, WrittenState
  <2>3. QED
    BY <2>2 DEF WroteAndDropped
<1>3. PICK v : v = IF MustFlip(s) THEN flip_queues(w) ELSE w
  BY SMTT(60)
<1>4. t = [v EXCEPT !.bq.consumers = MovedAll(s, Back(v)),
                    !.bq.element_cache = DropFirst(v.bq.element_cache, m_cache_limit)]
  <2>1. MustFlip(s) <=>
          /\ has_push_queue_reader(s)
          /\ \E c \in Live(s) : /\ reading_from_push_queue(s, c)
                                /\ s.bq.consumers[c].element_offset < m_cache_limit
    BY DEF MustFlip, has_push_queue_reader
  <2>2. QED
    BY <1>1, <1>3, <2>1 DEF flush_push_queue, flush_first, write_first, Moved, MovedAll
<1>5. HasPushFile(w)
  BY <1>2 DEF Written, SameFiles, HasPushFile
<1>6. Back(w) = Back(s)
  BY <1>2 DEF Written, SameFiles, Back
<1>7. CASE MustFlip(s)
  <2>1. v = flip_queues(w)
    BY <1>3, <1>7
  <2>2. /\ Shape(v) /\ v.bq.consumers = w.bq.consumers
        /\ v.bq.nelements = Len(w.bq.element_cache) /\ Flipped(w, v)
    BY <1>2, <1>5, <2>1, FlipFields
  <2>3. Back(v) = Back(s) + 1
    BY <1>2, <1>6, <2>2, FlippedQueues
  <2>4. PICK cs, ec : /\ cs = MovedAll(s, Back(v))
                      /\ ec = DropFirst(v.bq.element_cache, m_cache_limit)
    OBVIOUS
  <2>5. /\ Shape(t) /\ SameFiles(v, t) /\ t.bq.consumers = cs /\ t.bq.element_cache = ec
        /\ t.bq.nelements = v.bq.nelements /\ t.bq.nelements_pushed = v.bq.nelements_pushed
    <3>1. t = [v EXCEPT !.bq.consumers = cs, !.bq.element_cache = ec]
      BY <1>4, <2>4
    <3>2. t = close(v, cs, ec)
      BY <3>1 DEF close
    <3>3. Closed(v, cs, ec, t)
      BY <2>2, <3>2, ConsumersAndCache
    <3>4. QED
      BY <3>3 DEF Closed
  <2>6. v.bq.element_cache = s.bq.element_cache /\ v.bq.nelements_pushed = s.bq.nelements_pushed
    BY <1>2, <2>2 DEF Flipped
  <2>7. ec = u.bq.element_cache
    BY <1>2, <2>4, <2>6
  <2>8. /\ t.disk = u.disk /\ t.bq.write_handle = FALSE /\ t.bq.file_name = NoFile
        /\ t.bq.released = u.bq.released /\ t.bq.nelements_pushed = u.bq.nelements_pushed
        /\ t.bq.allocated_filenames = u.bq.allocated_filenames /\ t.bq.temp_ids = u.bq.temp_ids
    BY <1>2, <2>2, <2>5, <2>6, SMTT(60) DEF Flipped, SameFiles, Written
  <2>9. t.bq.pop_queues = v.bq.pop_queues /\ w.bq.pop_queues = u.bq.pop_queues
        /\ w.bq.file_name = u.bq.file_name /\ w.disk = u.disk /\ Back(u) = Back(w)
    BY <1>2, <2>5, SMTT(60) DEF SameFiles, Back
  <2>10. Flipped(u, t)
    BY <2>2, <2>5, <2>7, <2>8, <2>9 DEF Flipped
  <2>11. QED
    BY <1>2, <1>7, <2>2, <2>3, <2>4, <2>5, <2>6, <2>7, <2>10 DEF Flushed
<1>8. CASE ~ MustFlip(s)
  <2>1. v = w
    BY <1>3, <1>8
  <2>2. PICK cs, ec : /\ cs = MovedAll(s, Back(v))
                      /\ ec = DropFirst(v.bq.element_cache, m_cache_limit)
    OBVIOUS
  <2>3. Shape(v)
    BY <1>2, <2>1 DEF Typed
  <2>4. /\ Shape(t) /\ SameFiles(v, t) /\ t.bq.consumers = cs /\ t.bq.element_cache = ec
        /\ t.bq.nelements = v.bq.nelements /\ t.bq.nelements_pushed = v.bq.nelements_pushed
    <3>1. t = [v EXCEPT !.bq.consumers = cs, !.bq.element_cache = ec]
      BY <1>4, <2>2
    <3>2. t = close(v, cs, ec)
      BY <3>1 DEF close
    <3>3. Closed(v, cs, ec, t)
      BY <2>3, <3>2, ConsumersAndCache
    <3>4. QED
      BY <3>3 DEF Closed
  <2>5. SameFiles(u, t)
    BY <1>2, <2>1, <2>4 DEF SameFiles
  <2>6. w.bq.nelements = s.bq.nelements
    BY <1>1, WriteFirstFields DEF WroteFirst
  <2>7. QED
    BY <1>2, <1>6, <1>8, <2>1, <2>2, <2>4, <2>5, <2>6 DEF Flushed
<1>9. QED
  BY <1>7, <1>8

\* A consumer in a pop queue.
LEMMA StandsInQueue ==
  ASSUME NEW s, NEW at \in [Nat -> Nat], Typed(s), NEW c \in Live(s), Stands(s, at, c),
         ~ reading_from_push_queue(s, c)
  PROVE  /\ s.bq.consumers[c].current_pop_queue \in s.bq.released + 1 .. Back(s)
         /\ s.bq.pop_queues # <<>>
<1>1. PICK n \in Nat, r \in Nat : n = Len(s.bq.pop_queues) /\ r = s.bq.released /\ Back(s) = r + n
  BY QueueTyped
<1>2. PICK q \in r + 1 .. r + n : q = s.bq.consumers[c].current_pop_queue
  BY <1>1 DEF Stands, reading_from_push_queue
<1>3. n # 0
  BY <1>2
<1>4. QED
  BY <1>1, <1>2, <1>3

LEMMA StandsInMemory ==
  ASSUME NEW s, NEW at, Typed(s), NEW c \in Live(s), Stands(s, at, c),
         reading_from_push_queue(s, c)
  PROVE  \E e \in Nat : /\ e = s.bq.consumers[c].element_offset /\ e <= Len(s.bq.element_cache)
                        /\ s.bq.consumers[c].nelements_popped = Out(s) + e
BY ConsumerTyped DEF Stands, reading_from_push_queue

\* Moved, case by case.
IsMoved(s, c, b, m) ==
  LET e == s.bq.consumers[c].element_offset
  IN  /\ m \in ConsumerStates
      /\ m.nelements_popped = s.bq.consumers[c].nelements_popped
      /\ ~ reading_from_push_queue(s, c) => m = s.bq.consumers[c]
      /\ reading_from_push_queue(s, c) /\ e >= m_cache_limit =>
           m.current_pop_queue = NULL /\ m.element_offset = e - m_cache_limit
      /\ reading_from_push_queue(s, c) /\ ~ (e >= m_cache_limit) =>
           m.current_pop_queue = b /\ m.element_offset = 0 /\ m.file_offset = e

LEMMA MovedFields ==
  ASSUME NEW s, Typed(s), NEW c \in Live(s), NEW b \in Nat
  PROVE  IsMoved(s, c, b, Moved(s, c, b))
<1>1. PICK cc \in ConsumerStates : cc = s.bq.consumers[c]
  BY ConsumerTyped
<1>2. PICK k \in Nat, e \in Nat : k = m_cache_limit /\ e = cc.element_offset
  BY <1>1, LimitIsPositive, ConsumerFields
<1>3. PICK m : m = Moved(s, c, b)
  OBVIOUS
<1>4. CASE ~ reading_from_push_queue(s, c)
  <2>1. m = cc
    BY <1>1, <1>3, <1>4 DEF Moved
  <2>2. QED
    BY <1>1, <1>3, <1>4, <2>1 DEF IsMoved
<1>5. CASE reading_from_push_queue(s, c) /\ e >= k
  <2>1. m = [cc EXCEPT !.element_offset = e - k]
    BY <1>1, <1>2, <1>3, <1>5 DEF Moved
  <2>2. e - k \in Nat
    BY <1>5
  <2>3. cc.current_pop_queue = NULL
    BY <1>1, <1>5 DEF reading_from_push_queue
  <2>4. /\ m \in ConsumerStates /\ m.nelements_popped = cc.nelements_popped
        /\ m.current_pop_queue = NULL /\ m.element_offset = e - k
    BY <2>1, <2>2, <2>3 DEF ConsumerStates
  <2>5. QED
    BY <1>1, <1>2, <1>3, <1>5, <2>4 DEF IsMoved
<1>6. CASE reading_from_push_queue(s, c) /\ ~ (e >= k)
  <2>1. m = [cc EXCEPT !.current_pop_queue = b, !.file_offset = e, !.element_offset = 0]
    BY <1>1, <1>2, <1>3, <1>6 DEF Moved
  <2>2. m \in ConsumerStates
    <3>1. PICK c1 \in ConsumerStates : c1 = [cc EXCEPT !.current_pop_queue = b]
      BY DEF ConsumerStates
    <3>2. PICK c2 \in ConsumerStates : c2 = [c1 EXCEPT !.file_offset = e]
      BY DEF ConsumerStates
    <3>3. [c2 EXCEPT !.element_offset = 0] \in ConsumerStates
      BY DEF ConsumerStates
    <3>4. QED
      BY <2>1, <3>1, <3>2, <3>3
  <2>3. m.nelements_popped = cc.nelements_popped /\ m.current_pop_queue = b
    BY <2>1 DEF ConsumerStates
  <2>4. m.element_offset = 0 /\ m.file_offset = e
    BY <2>1 DEF ConsumerStates
  <2>5. QED
    BY <1>1, <1>2, <1>3, <1>6, <2>2, <2>3, <2>4 DEF IsMoved
<1>7. QED
  BY <1>4, <1>5, <1>6

\* The file of a pop queue that is still there has the same name and contents.
FileKept(s, t, q) ==
  LET f == PopQueue(s, q).file_name
  IN  /\ PopQueue(t, q).file_name = f
      /\ f \in DOMAIN t.disk /\ t.disk[f] = s.disk[f]

FilesKept(s, t) ==
  /\ s.bq.released <= t.bq.released /\ Back(s) <= Back(t)
  /\ \A q \in s.bq.released + 1 .. Back(s) : q \in t.bq.released + 1 .. Back(t) => FileKept(s, t, q)

LEMMA KeptIsTransitive ==
  ASSUME NEW s, NEW t, NEW u, Typed(s), Typed(t), Typed(u), FilesKept(s, t), FilesKept(t, u)
  PROVE  FilesKept(s, u)
<1>1. PICK r1 \in Nat, r2 \in Nat, r3 \in Nat, b1 \in Nat, b2 \in Nat, b3 \in Nat :
        /\ r1 = s.bq.released /\ r2 = t.bq.released /\ r3 = u.bq.released
        /\ b1 = Back(s) /\ b2 = Back(t) /\ b3 = Back(u)
  BY QueueTyped
<1>2. r1 <= r2 /\ r2 <= r3 /\ b1 <= b2 /\ b2 <= b3
  BY <1>1 DEF FilesKept
<1>3. r1 <= r3 /\ b1 <= b3
  BY <1>2
<1>4. ASSUME NEW q \in r1 + 1 .. b1, q \in r3 + 1 .. b3 PROVE FileKept(s, u, q)
  <2>1. q \in r2 + 1 .. b2
    BY <1>2, <1>4
  <2>2. FileKept(s, t, q) /\ FileKept(t, u, q)
    BY <1>1, <1>4, <2>1 DEF FilesKept
  <2>3. QED
    BY <2>2 DEF FileKept
<1>5. QED
  BY <1>1, <1>3, <1>4 DEF FilesKept

LEMMA SameFilesKept ==
  ASSUME NEW s, NEW t, Typed(s), Named(s), SameFiles(s, t)
  PROVE  FilesKept(s, t)
<1>1. PICK r \in Nat, b \in Nat : r = s.bq.released /\ b = Back(s) /\ t.bq.released = r /\ Back(t) = b
  BY QueueTyped, FilesStay DEF SameFiles
<1>2. r <= r /\ b <= b
  OBVIOUS
<1>3. ASSUME NEW q \in s.bq.released + 1 .. Back(s) PROVE FileKept(s, t, q)
  <2>1. PopQueue(s, q).file_name \in DOMAIN s.disk
    BY PopNamesOnDisk
  <2>2. PopQueue(t, q) = PopQueue(s, q) /\ t.disk = s.disk
    BY FilesStay DEF SameFiles
  <2>3. QED
    BY <2>1, <2>2 DEF FileKept
<1>4. QED
  BY <1>1, <1>2, <1>3 DEF FilesKept

LEMMA FlippedKept ==
  ASSUME NEW s, NEW t, Typed(s), Named(s), Flipped(s, t)
  PROVE  FilesKept(s, t)
<1>1. PICK r \in Nat, b \in Nat : r = s.bq.released /\ b = Back(s) /\ t.bq.released = r /\ Back(t) = b + 1
  <2>1. PICK r \in Nat, b \in Nat : r = s.bq.released /\ b = Back(s)
    BY QueueTyped
  <2>2. t.bq.released = s.bq.released
    BY DEF Flipped
  <2>3. Back(t) = Back(s) + 1
    BY FlippedQueues
  <2>4. QED
    BY <2>1, <2>2, <2>3
<1>2. r <= r /\ b <= b + 1
  OBVIOUS
<1>3. ASSUME NEW q \in s.bq.released + 1 .. Back(s) PROVE FileKept(s, t, q)
  <2>1. PopQueue(s, q).file_name \in DOMAIN s.disk
    BY PopNamesOnDisk
  <2>2. PopQueue(t, q).file_name = PopQueue(s, q).file_name /\ t.disk = s.disk
    BY FlippedQueues, ZenonT(60) DEF Flipped
  <2>3. QED
    BY <2>1, <2>2, SMTT(60) DEF FileKept
<1>4. QED
  BY <1>1, <1>2, <1>3 DEF FilesKept

\* Another file is written.
LEMMA OtherFileKept ==
  ASSUME NEW s, NEW t, Typed(s), Named(s), NEW g, g \notin PopNames(s),
         t.bq.pop_queues = s.bq.pop_queues, t.bq.released = s.bq.released,
         DOMAIN s.disk \subseteq DOMAIN t.disk,
         \A f \in DOMAIN s.disk : f # g => t.disk[f] = s.disk[f]
  PROVE  FilesKept(s, t)
<1>1. PICK r \in Nat, b \in Nat : r = s.bq.released /\ b = Back(s) /\ t.bq.released = r /\ Back(t) = b
  BY QueueTyped DEF Back
<1>2. r <= r /\ b <= b
  OBVIOUS
<1>3. ASSUME NEW q \in s.bq.released + 1 .. Back(s) PROVE FileKept(s, t, q)
  <2>1. PopQueue(s, q).file_name \in DOMAIN s.disk /\ PopQueue(s, q).file_name \in PopNames(s)
    BY PopNamesOnDisk
  <2>2. PopQueue(t, q) = PopQueue(s, q)
    BY DEF PopQueue
  <2>3. QED
    BY <2>1, <2>2 DEF FileKept
<1>4. QED
  BY <1>1, <1>2, <1>3 DEF FilesKept

LEMMA WrittenKept ==
  ASSUME NEW s, NEW t, Typed(s), Named(s), Written(s, t)
  PROVE  FilesKept(s, t)
<1>1. Fresh(s, t, t.bq.file_name)
  BY DEF Written
<1>2. t.bq.file_name \notin PopNames(s)
  BY <1>1, FreshIsUnused
<1>3. QED
  BY <1>2, OtherFileKept DEF Written

\* What every step inside of push() preserves.
Keeps(s, t) ==
  /\ Typed(t) /\ Named(t) /\ SamePops(s, t) /\ FilesKept(s, t)
  /\ \E at2 \in [Nat -> Nat] : Stored(t, at2) /\ Placed(t, at2)

LEMMA FlushTyped ==
  ASSUME NEW s, Typed(s), NEW b \in Nat, NEW t, Shape(t),
         t.bq.consumers = MovedAll(s, b),
         t.bq.nelements_pushed = s.bq.nelements_pushed
  PROVE  /\ Live(t) = Live(s) /\ SamePops(s, t)
         /\ t.bq.consumers \in [Live(t) -> ConsumerStates] /\ Live(t) \in {Consumers, {}}
<1>2. Live(t) = Live(s)
  BY DEF Live, MovedAll
<1>3. ASSUME NEW c \in Live(s)
      PROVE  /\ t.bq.consumers[c] \in ConsumerStates
             /\ t.bq.consumers[c].nelements_popped = s.bq.consumers[c].nelements_popped
  <2>1. IsMoved(s, c, b, Moved(s, c, b))
    BY MovedFields
  <2>2. t.bq.consumers[c] = Moved(s, c, b)
    BY DEF MovedAll
  <2>3. QED
    BY <2>1, <2>2 DEF IsMoved
<1>4. SamePops(s, t)
  BY <1>2, <1>3 DEF SamePops
<1>5. Live(s) \in {Consumers, {}}
  BY DEF Typed
<1>6. t.bq.consumers \in [Live(s) -> ConsumerStates]
  BY <1>3 DEF MovedAll
<1>7. QED
  BY <1>2, <1>4, <1>5, <1>6

\* The flush that ends with a flip.
LEMMA FlushFlips ==
  ASSUME NEW s, NEW at \in [Nat -> Nat], Typed(s), Stored(s, at), Placed(s, at), Named(s),
         NoPushFile(s), m_cache_limit <= Len(s.bq.element_cache), MustFlip(s),
         NEW t, t = flush_push_queue(s)
  PROVE  Keeps(s, t)
<1>1. PICK u : u = drop_first(write_first(s))
  OBVIOUS
<1>2. /\ Shape(t) /\ t.bq.element_cache = u.bq.element_cache
      /\ t.bq.nelements_pushed = s.bq.nelements_pushed
      /\ Flipped(u, t) /\ t.bq.nelements = Len(s.bq.element_cache)
      /\ t.bq.consumers = MovedAll(s, Back(s) + 1)
  <2>1. Flushed(s, u, t)
    BY <1>1, FlushFields
  <2>2. QED
    BY <2>1 DEF Flushed
<1>20. Flipped(u, t)
  BY <1>2
<1>21. Shape(t) /\ t.bq.nelements_pushed = s.bq.nelements_pushed
  BY <1>2
<1>3. WroteAndDropped(s, at, write_first(s), u)
  BY <1>1, WrittenState
<1>4. Written(s, u) /\ Typed(u) /\ Named(u) /\ Stored(u, at)
  BY <1>3 DEF WroteAndDropped
<1>5. PICK k \in Nat, b \in Nat, r \in Nat, o \in Nat, l \in Nat :
        /\ k = m_cache_limit /\ b = Back(s) /\ r = s.bq.released /\ o = Out(s)
        /\ l = Len(s.bq.element_cache) /\ k <= l
  BY LimitIsPositive, QueueTyped, MemoryLength DEF Stored
<1>6. Back(u) = b /\ u.bq.released = r
  BY <1>4, <1>5 DEF Written, Back
<1>7. Out(u) = o + k /\ Len(u.bq.element_cache) = l - k /\ HasPushFile(u)
  BY <1>4, <1>5, WrittenStored, ZenonT(60) DEF Written
<1>8. PICK at2 : at2 = Extended(at, u)
  OBVIOUS
<1>9. /\ at2 \in [Nat -> Nat] /\ Stored(t, at2)
      /\ \A q \in u.bq.released + 1 .. Back(u) + 1 : at2[q] = at[q]
  <2>1. at2 \in [Nat -> Nat] /\ Stored(t, at2)
    BY <1>4, <1>7, <1>8, <1>20, FlippedStored
  <2>2. \A q \in u.bq.released + 1 .. Back(u) + 1 : at2[q] = at[q]
    <3>1. Agrees(at, at2, u)
      BY <1>4, <1>7, <1>8, <1>20, FlippedStored
    <3>2. QED
      BY <3>1 DEF Agrees
  <2>3. QED
    BY <2>1, <2>2
<1>10. Named(t)
  BY <1>2, <1>4, <1>7, FlippedNamed
<1>11. PICK x \in Nat : x = b + 1 /\ x + 1 = b + 2 /\ b + 2 \in Nat /\ o + k \in Nat
  OBVIOUS
<1>12. t.bq.consumers = MovedAll(s, x)
  BY <1>2, <1>5, <1>11
<1>13. /\ Live(t) = Live(s) /\ SamePops(s, t)
       /\ t.bq.consumers \in [Live(t) -> ConsumerStates] /\ Live(t) \in {Consumers, {}}
  BY <1>21, <1>12, FlushTyped, SMTT(60)
<1>14. Typed(t)
  <2>1. NoFile \in Nat /\ FALSE \in BOOLEAN
    BY DEF NoFile
  <2>2. t.bq.nelements \in Nat
    BY <1>2, <1>5
  <2>3. QED
    BY <1>2, <1>4, <1>13, <2>1, <2>2 DEF Typed, Flipped
<1>15. Back(t) = b + 1 /\ t.bq.released = r /\ Out(t) = o + k
  <2>1. Back(t) = b + 1
    BY <1>2, <1>4, <1>6, FlippedQueues
  <2>2. Out(t) = Out(u)
    BY <1>2 DEF Out, Flipped
  <2>3. QED
    BY <1>2, <1>6, <1>7, <2>1, <2>2 DEF Flipped
<1>16. at2[b + 1] = o /\ at2[b + 2] = o + k
  <2>1. at[b + 1] = o
    BY <1>5 DEF Stored, InPushFile, NoPushFile
  <2>2. b + 1 \in r + 1 .. b + 1
    <3>1. PICK n \in Nat : b = r + n
      BY <1>5, QueueTyped
    <3>2. QED
      BY <3>1
  <2>3. at2[b + 2] = o + k
    BY <1>6, <1>7, <1>8, <1>11 DEF Extended
  <2>4. QED
    BY <1>6, <1>9, <2>1, <2>2, <2>3
<1>17. ASSUME NEW c \in Live(s) PROVE Stands(t, at2, c)
  <2>1. PICK e \in Nat : e = s.bq.consumers[c].element_offset
    BY ConsumerTyped
  <2>2. PICK m : m = Moved(s, c, x)
    OBVIOUS
  <2>3. t.bq.consumers[c] = m
    BY <1>12, <2>2 DEF MovedAll
  <2>4. Stands(s, at, c) /\ IsMoved(s, c, x, m)
    BY <2>2, MovedFields DEF Placed
  <2>5. CASE ~ reading_from_push_queue(s, c)
    <3>1. m = s.bq.consumers[c]
      BY <1>5, <2>1, <2>4, <2>5 DEF IsMoved
    <3>2. u.bq.consumers[c] = s.bq.consumers[c] /\ Live(u) = Live(s)
      BY <1>3 DEF WroteAndDropped, Live
    <3>3. Stands(u, at, c)
      BY <1>5, <1>6, <2>4, <2>5, <3>2 DEF Stands, reading_from_push_queue
    <3>4. QED
      BY <1>2, <1>4, <1>7, <1>8, <2>3, <3>1, <3>2, <3>3, FlippedStands
  <2>6. CASE reading_from_push_queue(s, c) /\ e >= k
    <3>1. m.current_pop_queue = NULL /\ m.element_offset = e - k
          /\ m.nelements_popped = s.bq.consumers[c].nelements_popped
      BY <1>5, <2>1, <2>4, <2>6 DEF IsMoved
    <3>2. e <= l /\ s.bq.consumers[c].nelements_popped = o + e
      BY <1>5, <2>1, <2>4, <2>6, StandsInMemory
    <3>3. e - k <= l - k /\ o + e = (o + k) + (e - k)
      <4>1. e <= l
        BY <3>2
      <4>2. QED
        BY <4>1
    <3>4. QED
      BY <1>2, <1>7, <1>15, <2>3, <3>1, <3>2, <3>3 DEF Stands
  <2>7. CASE reading_from_push_queue(s, c) /\ ~ (e >= k)
    <3>1. m.current_pop_queue = x /\ m.element_offset = 0 /\ m.file_offset = e
          /\ m.nelements_popped = s.bq.consumers[c].nelements_popped
      BY <1>5, <2>1, <2>4, <2>7 DEF IsMoved
    <3>2. s.bq.consumers[c].nelements_popped = o + e
      BY <1>5, <2>1, <2>4, <2>7, StandsInMemory
    <3>3. o + e <= o + k
      BY <2>7
    <3>4. b + 1 \in r + 1 .. b + 1 /\ b + 1 # NULL
      <4>1. PICK n \in Nat : b = r + n
        BY <1>5, QueueTyped
      <4>2. QED
        BY <4>1 DEF NULL
    <3>5. QED
      BY <1>11, <1>15, <1>16, <2>3, <3>1, <3>2, <3>3, <3>4, ZenonT(60) DEF Stands
  <2>8. QED
    BY <2>5, <2>6, <2>7
<1>18. Placed(t, at2)
  BY <1>13, <1>17 DEF Placed
<1>19. FilesKept(s, t)
  <2>1. FilesKept(s, u)
    BY <1>4, WrittenKept
  <2>2. FilesKept(u, t)
    BY <1>4, <1>20, FlippedKept
  <2>3. QED
    BY <1>4, <1>14, <2>1, <2>2, KeptIsTransitive
<1>22. QED
  BY <1>9, <1>10, <1>13, <1>14, <1>18, <1>19 DEF Keeps

\* Only the consumers differ.
LEMMA StoredStays ==
  ASSUME NEW s, NEW t, SameFiles(s, t), t.bq.element_cache = s.bq.element_cache,
         t.bq.nelements_pushed = s.bq.nelements_pushed, NEW at, Stored(s, at)
  PROVE  Stored(t, at) /\ Out(t) = Out(s) /\ Back(t) = Back(s)
<1>1. Out(t) = Out(s) /\ Back(t) = Back(s)
  BY DEF Out, Back, SameFiles
<1>2. InPopQueues(t, at)
  BY FilesStay DEF Stored
<1>3. InMemory(t)
  BY <1>1 DEF Stored, InMemory
<1>4. InPushFile(t, at)
  BY <1>1 DEF Stored, InPushFile, SameFiles
<1>5. QED
  BY <1>1, <1>2, <1>3, <1>4 DEF Stored

\* The flush that leaves the new push file open.
LEMMA FlushStays ==
  ASSUME NEW s, NEW at \in [Nat -> Nat], Typed(s), Stored(s, at), Placed(s, at), Named(s),
         NoPushFile(s), m_cache_limit <= Len(s.bq.element_cache), ~ MustFlip(s),
         NEW t, t = flush_push_queue(s)
  PROVE  Keeps(s, t) /\ HasPushFile(t)
<1>1. PICK u : u = drop_first(write_first(s))
  OBVIOUS
<1>2. /\ Shape(t) /\ t.bq.element_cache = u.bq.element_cache
      /\ t.bq.nelements_pushed = s.bq.nelements_pushed
      /\ SameFiles(u, t) /\ t.bq.nelements = s.bq.nelements
      /\ t.bq.consumers = MovedAll(s, Back(s))
  <2>1. Flushed(s, u, t)
    BY <1>1, FlushFields
  <2>2. QED
    BY <2>1 DEF Flushed
<1>3. WroteAndDropped(s, at, write_first(s), u)
  BY <1>1, WrittenState
<1>4. Written(s, u) /\ Typed(u) /\ Named(u) /\ Stored(u, at)
  BY <1>3 DEF WroteAndDropped
<1>5. PICK k \in Nat, b \in Nat, r \in Nat, o \in Nat, l \in Nat :
        /\ k = m_cache_limit /\ b = Back(s) /\ r = s.bq.released /\ o = Out(s)
        /\ l = Len(s.bq.element_cache) /\ k <= l
  BY LimitIsPositive, QueueTyped, MemoryLength DEF Stored
<1>6. Back(u) = b /\ u.bq.released = r /\ u.bq.nelements_pushed = s.bq.nelements_pushed
  BY <1>4, <1>5 DEF Written, Back
<1>7. Out(u) = o + k /\ Len(u.bq.element_cache) = l - k /\ HasPushFile(u)
  BY <1>4, <1>5, WrittenStored, ZenonT(60) DEF Written
<1>8. Stored(t, at) /\ Out(t) = o + k /\ Back(t) = b
  BY <1>2, <1>4, <1>6, <1>7, StoredStays
<1>9. Named(t)
  BY <1>2, <1>4, FilesStay
<1>10. HasPushFile(t) /\ t.bq.released = r
  BY <1>2, <1>6, <1>7 DEF HasPushFile, SameFiles
<1>11. t.bq.consumers = MovedAll(s, b)
  BY <1>2, <1>5
<1>12. Shape(t) /\ t.bq.nelements_pushed = s.bq.nelements_pushed
  BY <1>2
<1>13. /\ Live(t) = Live(s) /\ SamePops(s, t)
       /\ t.bq.consumers \in [Live(t) -> ConsumerStates] /\ Live(t) \in {Consumers, {}}
  BY <1>11, <1>12, FlushTyped, ZenonT(60)
<1>14. Typed(t)
  <2>1. t.bq.nelements \in Nat /\ t.bq.nelements_pushed \in Nat
    BY <1>2 DEF Typed
  <2>2. QED
    BY <1>2, <1>4, <1>13, <2>1 DEF Typed, SameFiles
<1>15. ASSUME NEW c \in Live(s) PROVE Stands(t, at, c)
  <2>1. PICK e \in Nat : e = s.bq.consumers[c].element_offset
    BY ConsumerTyped
  <2>2. PICK m : m = Moved(s, c, b)
    OBVIOUS
  <2>3. t.bq.consumers[c] = m
    BY <1>11, <2>2 DEF MovedAll
  <2>4. Stands(s, at, c) /\ IsMoved(s, c, b, m)
    BY <2>2, MovedFields DEF Placed
  <2>5. CASE ~ reading_from_push_queue(s, c)
    <3>1. m = s.bq.consumers[c]
      BY <2>4, <2>5 DEF IsMoved
    <3>2. QED
      BY <1>5, <1>8, <1>10, <2>3, <2>4, <2>5, <3>1 DEF Stands, reading_from_push_queue
  <2>6. CASE reading_from_push_queue(s, c)
    <3>1. e >= k
      <4>1. ~ (e < k)
        BY <1>5, <2>1, <2>6 DEF MustFlip
      <4>2. QED
        BY <4>1
    <3>2. m.current_pop_queue = NULL /\ m.element_offset = e - k
          /\ m.nelements_popped = s.bq.consumers[c].nelements_popped
      BY <1>5, <2>1, <2>4, <2>6, <3>1 DEF IsMoved
    <3>3. e <= l /\ s.bq.consumers[c].nelements_popped = o + e
      BY <1>5, <2>1, <2>4, <2>6, StandsInMemory
    <3>4. e - k <= l - k /\ o + e = (o + k) + (e - k)
      <4>1. e <= l
        BY <3>3
      <4>2. QED
        BY <4>1
    <3>5. QED
      BY <1>2, <1>7, <1>8, <2>3, <3>2, <3>3, <3>4 DEF Stands
  <2>7. QED
    BY <2>5, <2>6
<1>16. Placed(t, at)
  BY <1>13, <1>15 DEF Placed
<1>17. FilesKept(s, t)
  <2>1. FilesKept(s, u)
    BY <1>4, WrittenKept
  <2>2. FilesKept(u, t)
    BY <1>2, <1>4, SameFilesKept
  <2>3. QED
    BY <1>4, <1>14, <2>1, <2>2, KeptIsTransitive
<1>18. QED
  BY <1>8, <1>9, <1>10, <1>13, <1>14, <1>16, <1>17 DEF Keeps

\* Some consumer has read nothing of what is in memory, if all read from there.
NotTrimmable(s) == AllReadPushQueue(s) => \E c \in Live(s) : s.bq.consumers[c].element_offset = 0

LEMMA FlushStep ==
  ASSUME NEW s, NEW at \in [Nat -> Nat], Typed(s), Stored(s, at), Placed(s, at), Named(s), Used(s),
         Live(s) # {}, NoPushFile(s), NotTrimmable(s),
         m_cache_limit <= Len(s.bq.element_cache),
         Len(s.bq.element_cache) <= 2 * m_cache_limit,
         NEW t, t = flush_push_queue(s)
  PROVE  Keeps(s, t) /\ Counted(t) /\ Used(t)
<1>1. Keeps(s, t)
  BY FlushFlips, FlushStays
<1>2. PICK u : u = drop_first(write_first(s))
  OBVIOUS
<1>3. Flushed(s, u, t)
  BY <1>2, FlushFields
<1>4. WroteAndDropped(s, at, write_first(s), u)
  BY <1>2, WrittenState
<1>5. PICK k \in Nat, b \in Nat, r \in Nat, l \in Nat, n \in Nat :
        /\ k = m_cache_limit /\ b = Back(s) /\ r = s.bq.released
        /\ l = Len(s.bq.element_cache) /\ k <= l /\ l <= 2 * k /\ k > 0
        /\ n = Len(s.bq.pop_queues) /\ b = r + n
  BY LimitIsPositive, QueueTyped
<1>6. Written(s, u) /\ Typed(u) /\ Stored(u, at) /\ Named(u)
  BY <1>4 DEF WroteAndDropped
<1>7. Len(t.bq.element_cache) = l - k
  <2>1. Len(u.bq.element_cache) = l - k
    BY <1>5, <1>6, WrittenStored, ZenonT(60)
  <2>2. QED
    BY <1>3, <2>1 DEF Flushed
<1>8. l - k < 2 * k /\ l - k <= l /\ l <= (l - k) + k
  <2>1. k <= l /\ l <= 2 * k /\ k > 0
    BY <1>5
  <2>2. QED
    BY <2>1
<1>9. Live(t) = Live(s)
  BY <1>1 DEF Keeps, SamePops
<1>10. ASSUME NEW c \in Live(s), ~ reading_from_push_queue(s, c)
       PROVE  t.bq.consumers[c] = s.bq.consumers[c]
  <2>1. PICK x \in Nat : t.bq.consumers = MovedAll(s, x)
    <3>1. b \in Nat /\ b + 1 \in Nat
      OBVIOUS
    <3>2. QED
      BY <1>3, <1>5, <3>1 DEF Flushed
  <2>2. t.bq.consumers[c] = Moved(s, c, x)
    BY <2>1 DEF MovedAll
  <2>3. QED
    BY <1>10, <2>2 DEF Moved
<1>11. PICK f : f = s.bq.released + 1 /\ f # NULL
  <2>1. r + 1 # NULL
    BY DEF NULL
  <2>2. QED
    BY <1>5, <2>1
<1>12. t.bq.released = s.bq.released
  BY <1>3, <1>6 DEF Flushed, SameFiles, Flipped, Written
<1>13. s.bq.pop_queues # <<>> => ReaderAt(t, t.bq.released + 1)
  <2> SUFFICES ASSUME s.bq.pop_queues # <<>> PROVE ReaderAt(t, f)
    BY <1>11, <1>12
  <2>1. PICK c \in Live(s) : s.bq.consumers[c].current_pop_queue = f
    BY <1>11 DEF Used, ReaderAt
  <2>2. t.bq.consumers[c] = s.bq.consumers[c]
    BY <1>10, <1>11, <2>1 DEF reading_from_push_queue
  <2>3. QED
    BY <1>9, <2>1, <2>2 DEF ReaderAt
<1>14. CASE MustFlip(s)
  <2>1. /\ t.bq.nelements = l /\ t.bq.consumers = MovedAll(s, b + 1) /\ t.bq.write_handle = FALSE
    BY <1>3, <1>5, <1>14 DEF Flushed, Flipped
  <2>2. Counted(t)
    BY <1>5, <1>7, <1>8, <2>1 DEF Counted
  <2>3. CASE s.bq.pop_queues # <<>>
    BY <1>1, <1>13, <2>1, <2>2, <2>3 DEF Used
  <2>4. CASE s.bq.pop_queues = <<>>
    <3>1. PICK c \in Live(s), e \in Nat :
            reading_from_push_queue(s, c) /\ e = s.bq.consumers[c].element_offset /\ e < k
      BY <1>5, <1>14, ConsumerTyped DEF MustFlip
    <3>2. PICK x \in Nat : x = b + 1
      OBVIOUS
    <3>3. PICK m : m = Moved(s, c, x)
      OBVIOUS
    <3>4. t.bq.consumers[c] = m
      BY <2>1, <3>2, <3>3 DEF MovedAll
    <3>5. IsMoved(s, c, x, m)
      BY <3>3, MovedFields
    <3>6. ~ (e >= k)
      <4>1. e < k
        BY <3>1
      <4>2. QED
        BY <4>1
    <3>7. m.current_pop_queue = x
      BY <1>5, <3>1, <3>5, <3>6 DEF IsMoved
    <3>8. n = 0
      BY <1>5, <2>4
    <3>9. x = f
      BY <1>5, <1>11, <3>2, <3>8
    <3>10. ReaderAt(t, t.bq.released + 1)
      BY <1>9, <1>11, <1>12, <3>4, <3>7, <3>9 DEF ReaderAt
    <3>11. QED
      BY <1>1, <2>1, <2>2, <3>10 DEF Used
  <2>5. QED
    BY <1>1, <2>2, <2>3, <2>4
<1>15. CASE ~ MustFlip(s)
  <2>1. HasPushFile(t)
    BY <1>15, FlushStays
  <2>2. Counted(t)
    BY <1>5, <1>7, <1>8, <2>1 DEF Counted, HasPushFile
  <2>3. ~ AllReadPushQueue(s)
    <3> SUFFICES ASSUME AllReadPushQueue(s) PROVE FALSE
      OBVIOUS
    <3>1. PICK c \in Live(s) : s.bq.consumers[c].element_offset = 0
      BY DEF NotTrimmable
    <3>2. 0 < m_cache_limit
      BY <1>5
    <3>3. reading_from_push_queue(s, c)
      BY DEF AllReadPushQueue
    <3>4. QED
      BY <1>15, <3>1, <3>2, <3>3 DEF MustFlip
  <2>4. PICK c \in Live(s) : ~ reading_from_push_queue(s, c)
    BY <2>3 DEF AllReadPushQueue
  <2>5. s.bq.pop_queues # <<>>
    BY <2>4, StandsInQueue DEF Placed
  <2>6. t.bq.pop_queues = s.bq.pop_queues
    BY <1>3, <1>6, <1>15 DEF Flushed, SameFiles, Written
  <2>7. QED
    BY <1>1, <1>13, <2>2, <2>5, <2>6 DEF Used
<1>16. QED
  BY <1>14, <1>15

-----------------------------------------------------------------------------
(* The rolling cache.                                                      *)

NoReaderAtFront(s) ==
  \A c \in Live(s) : reading_from_push_queue(s, c) => s.bq.consumers[c].element_offset # 0

Shifted(s, c) ==
  IF reading_from_push_queue(s, c)
    THEN [s.bq.consumers[c] EXCEPT !.element_offset = s.bq.consumers[c].element_offset - 1]
    ELSE s.bq.consumers[c]

Rolled(s, t) ==
  /\ Shape(t)
  /\ t.disk = WriteFile(s.disk, s.bq.file_name,
                        Append(s.disk[s.bq.file_name], Head(s.bq.element_cache)))
  /\ t.bq.element_cache = Tail(s.bq.element_cache)
  /\ t.bq.consumers = [c \in Live(s) |-> Shifted(s, c)]
  /\ t.bq.nelements = s.bq.nelements /\ t.bq.nelements_pushed = s.bq.nelements_pushed
  /\ t.bq.pop_queues = s.bq.pop_queues /\ t.bq.released = s.bq.released
  /\ t.bq.write_handle = s.bq.write_handle /\ t.bq.file_name = s.bq.file_name
  /\ t.bq.allocated_filenames = s.bq.allocated_filenames /\ t.bq.temp_ids = s.bq.temp_ids

LEMMA RollFields ==
  ASSUME NEW s, Shape(s), NEW t, t = roll(s)
  PROVE  Rolled(s, t)
<1>1. PICK d, ec, cs :
        /\ d = WriteFile(s.disk, s.bq.file_name,
                         Append(s.disk[s.bq.file_name], Head(s.bq.element_cache)))
        /\ ec = Tail(s.bq.element_cache)
        /\ cs = [c \in Live(s) |-> Shifted(s, c)]
  OBVIOUS
<1>2. t = [s EXCEPT !.disk = d, !.bq.element_cache = ec, !.bq.consumers = cs]
  BY <1>1 DEF roll, Shifted
<1>3. t.disk = d
  BY <1>2 DEF Shape, IsFcn, Fields
<1>4. t.bq = [s.bq EXCEPT !.element_cache = ec, !.consumers = cs]
  BY <1>2 DEF Shape, IsFcn, Fields
<1>5. Shape(t)
  <2>1. DOMAIN t = {"bq", "disk"} /\ DOMAIN t.bq = Fields
    BY <1>2, <1>4 DEF Shape
  <2>2. IsFcn(t.bq)
    BY <1>4 DEF IsFcn
  <2>3. IsFcn(t)
    BY <1>2 DEF IsFcn
  <2>4. QED
    BY <2>1, <2>2, <2>3 DEF Shape
<1>6. /\ t.bq.element_cache = ec /\ t.bq.consumers = cs
      /\ t.bq.nelements = s.bq.nelements /\ t.bq.nelements_pushed = s.bq.nelements_pushed
  BY <1>4 DEF Shape, IsFcn, Fields
<1>7. /\ t.bq.pop_queues = s.bq.pop_queues /\ t.bq.released = s.bq.released
      /\ t.bq.write_handle = s.bq.write_handle /\ t.bq.file_name = s.bq.file_name
      /\ t.bq.allocated_filenames = s.bq.allocated_filenames /\ t.bq.temp_ids = s.bq.temp_ids
  BY <1>4 DEF Shape, IsFcn, Fields
<1>8. QED
  BY <1>1, <1>3, <1>5, <1>6, <1>7 DEF Rolled

WroteFile(d, f, data, e) ==
  /\ DOMAIN e = DOMAIN d \cup {f} /\ e[f] = data /\ IsFcn(e)
  /\ \A g \in DOMAIN d : g # f => e[g] = d[g]

LEMMA WriteFileFields ==
  ASSUME NEW d, NEW f, NEW data
  PROVE  WroteFile(d, f, data, WriteFile(d, f, data))
BY DEF WriteFile, IsFcn, WroteFile

\* Where Shifted moves a consumer.
IsShifted(s, c, m) ==
  LET e == s.bq.consumers[c].element_offset
  IN  /\ m \in ConsumerStates
      /\ m.nelements_popped = s.bq.consumers[c].nelements_popped
      /\ m.current_pop_queue = s.bq.consumers[c].current_pop_queue
      /\ ~ reading_from_push_queue(s, c) => m = s.bq.consumers[c]
      /\ reading_from_push_queue(s, c) => m.element_offset = e - 1

LEMMA ShiftedFields ==
  ASSUME NEW s, Typed(s), NoReaderAtFront(s), NEW c \in Live(s)
  PROVE  IsShifted(s, c, Shifted(s, c))
<1>1. PICK cc \in ConsumerStates, e \in Nat : cc = s.bq.consumers[c] /\ e = cc.element_offset
  BY ConsumerTyped
<1>2. CASE ~ reading_from_push_queue(s, c)
  <2>1. Shifted(s, c) = cc
    BY <1>1, <1>2 DEF Shifted
  <2>2. QED
    BY <1>1, <1>2, <2>1 DEF IsShifted
<1>3. CASE reading_from_push_queue(s, c)
  <2>1. e # 0
    BY <1>1, <1>3 DEF NoReaderAtFront
  <2>2. e - 1 \in Nat
    BY <2>1
  <2>3. PICK m : m = [cc EXCEPT !.element_offset = e - 1]
    OBVIOUS
  <2>4. /\ m \in ConsumerStates /\ m.nelements_popped = cc.nelements_popped
        /\ m.current_pop_queue = cc.current_pop_queue /\ m.element_offset = e - 1
    BY <2>2, <2>3 DEF ConsumerStates
  <2>5. Shifted(s, c) = m
    BY <1>1, <1>3, <2>3 DEF Shifted
  <2>6. QED
    BY <1>1, <1>3, <2>4, <2>5 DEF IsShifted
<1>4. QED
  BY <1>2, <1>3

LEMMA RolledStored ==
  ASSUME NEW s, NEW at \in [Nat -> Nat], Typed(s), Stored(s, at), Named(s), HasPushFile(s),
         s.bq.element_cache # <<>>, NEW t, Rolled(s, t)
  PROVE  /\ Stored(t, at) /\ Named(t) /\ Out(t) = Out(s) + 1
         /\ Len(t.bq.element_cache) = Len(s.bq.element_cache) - 1
         /\ t.bq.element_cache \in Seq(Nat) /\ t.disk \in [DOMAIN t.disk -> Seq(Nat)]
<1>0. PICK f : f = s.bq.file_name
  OBVIOUS
<1>1. PICK l \in Nat, p \in Nat, o \in Nat, b \in Nat, r \in Nat, k \in Nat :
        /\ l = Len(s.bq.element_cache) /\ p = s.bq.nelements_pushed /\ o = Out(s)
        /\ o <= p /\ l = p - o /\ b = Back(s) /\ r = s.bq.released /\ k = m_cache_limit
  BY MemoryLength, QueueTyped, LimitIsPositive DEF Stored
<1>2. o < p
  <2>1. l # 0
    <3>1. PICK q \in Seq(Nat) : q = s.bq.element_cache
      BY DEF Typed
    <3>2. Len(q) # 0
      BY <3>1
    <3>3. QED
      BY <1>0, <1>1, <3>1, <3>2
  <2>2. l = p - o
    BY <1>0, <1>1
  <2>3. QED
    BY <2>1, <2>2
<1>3. PICK x \in Nat : x = o + 1 /\ x <= p /\ o <= x
  <2>1. o + 1 \in Nat /\ o + 1 <= p /\ o <= o + 1
    BY <1>2
  <2>2. QED
    BY <2>1
<1>4. s.bq.element_cache = Interval(o, p)
  BY <1>0, <1>1 DEF Stored, InMemory
<1>5. Head(s.bq.element_cache) = x /\ t.bq.element_cache = Interval(x, p)
  BY <1>2, <1>3, <1>4, HeadOfInterval DEF Rolled
<1>6. t.bq.element_cache \in Seq(Nat) /\ Len(t.bq.element_cache) = l - 1
  <2>1. Interval(x, p) \in Seq(Nat) /\ Len(Interval(x, p)) = p - x
    BY <1>3, IntervalIsSeq
  <2>2. p - x = l - 1
    <3>1. l = p - o /\ x = o + 1
      BY <1>0, <1>1, <1>3
    <3>2. QED
      BY <3>1
  <2>3. QED
    BY <1>5, <2>1, <2>2
<1>7. Out(t) = x /\ t.bq.nelements_pushed = p
  <2>1. t.bq.nelements_pushed = p
    BY <1>0, <1>1 DEF Rolled
  <2>2. Out(t) = p - (l - 1)
    BY <1>6, <2>1 DEF Out
  <2>3. p - (l - 1) = x
    <3>1. l = p - o /\ x = o + 1
      BY <1>0, <1>1, <1>3
    <3>2. QED
      BY <3>1
  <2>4. QED
    BY <2>1, <2>2, <2>3
<1>8. InMemory(t)
  BY <1>5, <1>7 DEF InMemory
<1>9. PICK a \in Nat : a = at[b + 1] /\ a + k <= o /\ a <= o /\ s.disk[f] = Interval(a, o)
  <2>1. PICK a \in Nat : a = at[b + 1]
    OBVIOUS
  <2>2. a + k <= o /\ s.disk[f] = Interval(a, o)
    BY <1>0, <1>1, <2>1 DEF Stored, InPushFile, HasPushFile
  <2>3. a <= o
    <3>1. a + k <= o
      BY <2>2
    <3>2. QED
      BY <3>1
  <2>4. QED
    BY <2>1, <2>2, <2>3
<1>10. f \in DOMAIN s.disk /\ f \notin PopNames(s)
  BY <1>0, <1>1 DEF Named, PushNames, HasPushFile
<1>11. /\ DOMAIN t.disk = DOMAIN s.disk /\ IsFcn(t.disk)
       /\ t.disk[f] = Append(s.disk[f], x)
       /\ \A g \in DOMAIN s.disk : g # f => t.disk[g] = s.disk[g]
  <2>1. PICK data : data = Append(s.disk[f], x)
    OBVIOUS
  <2>2. t.disk = WriteFile(s.disk, f, data)
    BY <1>0, <1>1, <1>5, <2>1 DEF Rolled
  <2>3. /\ DOMAIN t.disk = DOMAIN s.disk \cup {f} /\ t.disk[f] = data /\ IsFcn(t.disk)
        /\ \A g \in DOMAIN s.disk : g # f => t.disk[g] = s.disk[g]
    <3>1. WroteFile(s.disk, f, data, t.disk)
      BY <2>2, WriteFileFields
    <3>2. QED
      BY <3>1 DEF WroteFile
  <2>4. QED
    BY <1>10, <2>1, <2>3
<1>12. t.disk[f] = Interval(a, x)
  BY <1>3, <1>9, <1>11, AppendToInterval, ZenonT(60)
<1>13. Back(t) = b /\ t.bq.released = r /\ \A q : PopQueue(t, q) = PopQueue(s, q)
  BY <1>0, <1>1 DEF Rolled, Back, PopQueue
<1>14. ASSUME NEW q \in r + 1 .. b
       PROVE  t.disk[PopQueue(s, q).file_name] = s.disk[PopQueue(s, q).file_name]
  BY <1>0, <1>1, <1>10, <1>11, PopNamesOnDisk
<1>15. InPopQueues(t, at)
  <2>1. /\ \A q \in r + 1 .. b : /\ Holds(s, q, at[q], at[q + 1])
                                 /\ PopQueue(s, q).next_queue = IF q = b THEN NULL ELSE q + 1
        /\ b * m_cache_limit <= at[b + 1]
    BY <1>0, <1>1 DEF Stored, InPopQueues
  <2>2. \A q \in r + 1 .. b : Holds(t, q, at[q], at[q + 1])
    BY <1>13, <1>14, <2>1, ZenonT(60) DEF Holds
  <2>3. QED
    BY <1>13, <2>1, <2>2 DEF InPopQueues
<1>16. InPushFile(t, at)
  <2>1. a + k <= x
    <3>1. a + k <= o /\ x = o + 1
      BY <1>3, <1>9
    <3>2. QED
      BY <3>1
  <2>2. at[Back(t) + 1] = a /\ Out(t) = x
    BY <1>7, <1>9, <1>13
  <2>3. t.disk[t.bq.file_name] = Interval(a, x)
    BY <1>0, <1>1, <1>12 DEF Rolled
  <2>4. at[Back(t) + 1] + m_cache_limit <= Out(t) /\ t.disk[t.bq.file_name] = Interval(at[Back(t) + 1], Out(t))
    BY <1>0, <1>1, <2>1, <2>2, <2>3
  <2>5. QED
    BY <2>4 DEF InPushFile, Rolled, HasPushFile
<1>17. t.disk \in [DOMAIN t.disk -> Seq(Nat)]
  <2>1. t.disk[f] \in Seq(Nat)
    <3>1. a <= x
      BY <1>3, <1>9
    <3>2. QED
      BY <1>12, <3>1, IntervalIsSeq
  <2>2. \A g \in DOMAIN t.disk : t.disk[g] \in Seq(Nat)
    BY <1>11, <2>1 DEF Typed
  <2>3. QED
    BY <1>11, <2>2 DEF IsFcn
<1>18. Named(t)
  <2>1. /\ PoolNames(t) = PoolNames(s) /\ PopNames(t) = PopNames(s) /\ PushNames(t) = PushNames(s)
        /\ (PoolIsDistinct(s) => PoolIsDistinct(t)) /\ (PopsAreDistinct(s) => PopsAreDistinct(t))
    BY DEF Rolled, PoolNames, PopNames, PushNames, PoolIsDistinct, PopsAreDistinct
  <2>2. DOMAIN t.disk = DOMAIN s.disk /\ t.bq.temp_ids = s.bq.temp_ids
    BY <1>11 DEF Rolled
  <2>3. t.bq.write_handle = TRUE
    BY DEF Rolled, HasPushFile
  <2>4. QED
    BY <2>1, <2>2, <2>3 DEF Named
<1>19. QED
  BY <1>0, <1>1, <1>3, <1>6, <1>7, <1>8, <1>15, <1>16, <1>17, <1>18 DEF Stored

LEMMA RollStep ==
  ASSUME NEW s, NEW at \in [Nat -> Nat], Typed(s), Stored(s, at), Placed(s, at), Named(s), Used(s),
         HasPushFile(s), NoReaderAtFront(s), s.bq.element_cache # <<>>,
         Len(s.bq.element_cache) <= 2 * m_cache_limit, NEW t, t = roll(s)
  PROVE  Keeps(s, t) /\ Counted(t) /\ Used(t)
<1>1. Rolled(s, t)
  BY RollFields DEF Typed
<1>2. PICK l \in Nat, o \in Nat, k \in Nat :
        /\ l = Len(s.bq.element_cache) /\ o = Out(s) /\ k = m_cache_limit /\ l <= 2 * k
  BY MemoryLength, QueueTyped, LimitIsPositive DEF Stored
<1>3. /\ Stored(t, at) /\ Named(t) /\ Out(t) = o + 1
      /\ Len(t.bq.element_cache) = l - 1
      /\ t.bq.element_cache \in Seq(Nat) /\ t.disk \in [DOMAIN t.disk -> Seq(Nat)]
  BY <1>1, <1>2, RolledStored
<1>4. t.bq.consumers = [c \in Live(s) |-> Shifted(s, c)] /\ Shape(t)
  BY <1>1 DEF Rolled
<1>5. Live(t) = Live(s)
  BY <1>4 DEF Live
<1>6. ASSUME NEW c \in Live(s) PROVE IsShifted(s, c, t.bq.consumers[c])
  <2>1. t.bq.consumers[c] = Shifted(s, c)
    BY <1>4
  <2>2. QED
    BY <2>1, ShiftedFields
<1>7. Typed(t)
  <2>1. \A c \in Live(s) : t.bq.consumers[c] \in ConsumerStates
    BY <1>6 DEF IsShifted
  <2>2. t.bq.consumers \in [Live(t) -> ConsumerStates] /\ Live(t) \in {Consumers, {}}
    BY <1>4, <1>5, <2>1 DEF Typed
  <2>3. QED
    BY <1>1, <1>3, <2>2 DEF Typed, Rolled
<1>8. SamePops(s, t)
  BY <1>1, <1>5, <1>6 DEF SamePops, IsShifted, Rolled
<1>9. Back(t) = Back(s) /\ t.bq.released = s.bq.released
  BY <1>1 DEF Rolled, Back
<1>10. ASSUME NEW c \in Live(s) PROVE Stands(t, at, c)
  <2>1. PICK m : m = t.bq.consumers[c] /\ IsShifted(s, c, m)
    BY <1>6
  <2>2. Stands(s, at, c)
    BY DEF Placed
  <2>3. CASE ~ reading_from_push_queue(s, c)
    <3>1. m = s.bq.consumers[c]
      BY <2>1, <2>3 DEF IsShifted
    <3>2. QED
      BY <1>9, <2>1, <2>2, <2>3, <3>1 DEF Stands, reading_from_push_queue
  <2>4. CASE reading_from_push_queue(s, c)
    <3>1. PICK e \in Nat : e = s.bq.consumers[c].element_offset /\ e <= l
                           /\ s.bq.consumers[c].nelements_popped = o + e
      BY <1>2, <2>2, <2>4, StandsInMemory
    <3>2. /\ m.current_pop_queue = NULL /\ m.element_offset = e - 1
          /\ m.nelements_popped = o + e
      BY <2>1, <2>4, <3>1 DEF IsShifted, reading_from_push_queue
    <3>3. e - 1 <= l - 1 /\ o + e = (o + 1) + (e - 1)
      <4>1. e <= l
        BY <3>1
      <4>2. QED
        BY <4>1
    <3>4. QED
      BY <1>3, <2>1, <3>2, <3>3 DEF Stands
  <2>5. QED
    BY <2>3, <2>4
<1>11. Placed(t, at)
  BY <1>5, <1>10 DEF Placed
<1>12. Counted(t)
  <2>1. l - 1 < 2 * k
    <3>1. l <= 2 * k
      BY <1>2
    <3>2. QED
      BY <3>1
  <2>2. t.bq.write_handle = TRUE
    BY <1>1 DEF Rolled, HasPushFile
  <2>3. QED
    BY <1>2, <1>3, <2>1, <2>2 DEF Counted
<1>13. Used(t)
  <2>1. \A q : ReaderAt(s, q) => ReaderAt(t, q)
    BY <1>5, <1>6 DEF ReaderAt, IsShifted
  <2>2. QED
    BY <1>1, <2>1 DEF Used, Rolled
<1>14. FilesKept(s, t)
  <2>1. PICK f : f = s.bq.file_name /\ f \notin PopNames(s)
    BY DEF Named, PushNames, HasPushFile
  <2>2. PICK data : t.disk = WriteFile(s.disk, f, data)
    BY <1>1, <2>1 DEF Rolled
  <2>3. DOMAIN t.disk = DOMAIN s.disk \cup {f} /\ \A g \in DOMAIN s.disk : g # f => t.disk[g] = s.disk[g]
    <3>1. WroteFile(s.disk, f, data, WriteFile(s.disk, f, data))
      BY WriteFileFields
    <3>2. WroteFile(s.disk, f, data, t.disk)
      BY <2>2, <3>1
    <3>3. QED
      BY <3>2 DEF WroteFile
  <2>4. t.bq.pop_queues = s.bq.pop_queues /\ t.bq.released = s.bq.released
    BY <1>1 DEF Rolled
  <2>5. QED
    BY <2>1, <2>3, <2>4, OtherFileKept
<1>15. QED
  BY <1>3, <1>7, <1>8, <1>11, <1>12, <1>13, <1>14 DEF Keeps

-----------------------------------------------------------------------------
(* push()                                                                  *)

LEMMA KeepsIsTransitive ==
  ASSUME NEW s, NEW t, NEW u, Typed(s), Typed(t), SamePops(s, t), FilesKept(s, t), Keeps(t, u)
  PROVE  Keeps(s, u)
BY KeptIsTransitive DEF Keeps, SamePops

\* What is known of the counts when there is no push file.
Bounded(s) ==
  /\ Len(s.bq.element_cache) <= 2 * m_cache_limit
  /\ Len(s.bq.element_cache) <= s.bq.nelements
  /\ s.bq.nelements <= Len(s.bq.element_cache) + m_cache_limit

Full(s) == s.bq.nelements >= 2 * m_cache_limit

LEMMA BoundedIsCounted ==
  ASSUME NEW s, Typed(s), Bounded(s), ~ Full(s)
  PROVE  Counted(s)
<1>1. PICK l \in Nat, n \in Nat, k \in Nat :
        l = Len(s.bq.element_cache) /\ n = s.bq.nelements /\ k = m_cache_limit
  BY QueueTyped, LimitIsPositive DEF Typed
<1>2. l <= n /\ n <= l + k /\ ~ (n >= 2 * k)
  BY <1>1 DEF Bounded, Full
<1>3. l < 2 * k
  BY <1>2
<1>4. QED
  BY <1>1, <1>2, <1>3 DEF Counted

\* Without a push file: the memory queue is trimmed if it is full, and flushed
\* if it is still full then.
LEMMA PushEnd ==
  ASSUME NEW s, NEW at \in [Nat -> Nat], Typed(s), Stored(s, at), Placed(s, at), Named(s), Used(s),
         Live(s) # {}, NoPushFile(s), Bounded(s),
         NEW u, u = IF Full(s) THEN trim_push_queue(s) ELSE s,
         NEW t, t = IF Full(u) THEN flush_push_queue(u) ELSE u
  PROVE  Keeps(s, t) /\ Counted(t) /\ Used(t)
<1>1. PICK k \in Nat, l \in Nat, n \in Nat :
        /\ k = m_cache_limit /\ l = Len(s.bq.element_cache) /\ n = s.bq.nelements
        /\ l <= 2 * k /\ l <= n /\ n <= l + k
  BY LimitIsPositive, QueueTyped DEF Typed, Bounded
<1>2. CASE ~ Full(s)
  <2>1. u = s /\ t = s
    BY <1>2
  <2>2. Counted(t)
    BY <1>2, <2>1, BoundedIsCounted
  <2>3. Keeps(s, t)
    BY <2>1, SameFilesKept DEF Keeps, SamePops, SameFiles
  <2>4. QED
    BY <2>1, <2>2, <2>3
<1>3. CASE Full(s)
  <2>1. u = trim_push_queue(s)
    BY <1>3
  <2>2. CountsMemory(s)
    BY <1>1 DEF CountsMemory
  <2>3. Typed(u) /\ Named(u) /\ Used(u) /\ SameFiles(s, u) /\ SamePops(s, u) /\ NotTrimmable(u)
    BY <2>1, <2>2, TrimStep DEF NotTrimmable
  <2>4. PICK at2 \in [Nat -> Nat] : Stored(u, at2) /\ Placed(u, at2)
    BY <2>1, <2>2, TrimStep
  <2>5. PICK m \in Nat, l2 \in Nat, n2 \in Nat :
          /\ l2 = Len(u.bq.element_cache) /\ n2 = u.bq.nelements
          /\ l = l2 + m /\ n = n2 + m
    <3>1. PICK m \in Nat : /\ Len(s.bq.element_cache) = Len(u.bq.element_cache) + m
                           /\ s.bq.nelements = u.bq.nelements + m
      BY <2>1, <2>2, TrimStep, ZenonT(60)
    <3>2. QED
      BY <1>1, <2>3, <3>1, QueueTyped DEF Typed
  <2>6. l2 <= 2 * k /\ l2 <= n2 /\ n2 <= l2 + k
    <3>1. l <= 2 * k /\ l <= n /\ n <= l + k
      BY <1>1
    <3>2. l = l2 + m /\ n = n2 + m
      BY <2>5
    <3>3. QED
      BY <3>1, <3>2
  <2>7. Bounded(u)
    BY <1>1, <2>5, <2>6 DEF Bounded
  <2>8. NoPushFile(u) /\ Live(u) # {}
    BY <2>3 DEF SameFiles, NoPushFile, SamePops
  <2>9. CASE ~ Full(u)
    <3>1. t = u
      BY <2>9
    <3>2. Counted(u)
      BY <2>3, <2>7, <2>9, BoundedIsCounted
    <3>3. Keeps(s, u)
      BY <2>3, <2>4, SameFilesKept DEF Keeps
    <3>4. QED
      BY <2>3, <3>1, <3>2, <3>3
  <2>10. CASE Full(u)
    <3>1. t = flush_push_queue(u)
      BY <2>10
    <3>2. k <= l2
      <4>1. n2 >= 2 * k
        BY <1>1, <2>5, <2>10 DEF Full
      <4>2. n2 <= l2 + k
        BY <2>6
      <4>3. QED
        BY <4>1, <4>2
    <3>3. m_cache_limit <= Len(u.bq.element_cache) /\ Len(u.bq.element_cache) <= 2 * m_cache_limit
      BY <1>1, <2>5, <2>6, <3>2
    <3>4. Keeps(u, t) /\ Counted(t) /\ Used(t)
      BY <2>3, <2>4, <2>8, <3>1, <3>3, FlushStep
    <3>5. QED
      BY <2>3, <3>4, SameFilesKept, KeepsIsTransitive
  <2>11. QED
    BY <2>9, <2>10
<1>4. QED
  BY <1>2, <1>3

ReaderAtFront(s) ==
  \E c \in Live(s) : reading_from_push_queue(s, c) /\ s.bq.consumers[c].element_offset = 0

\* push() after the element has been appended, and what it does at the end.
push_end(s2, s3) ==
  IF s2.bq.write_handle THEN roll(s2)
  ELSE IF Full(s3) THEN flush_push_queue(s3) ELSE s3
push_middle(s2) == push_end(s2, IF Full(s2) THEN trim_push_queue(s2) ELSE s2)
push_appended(s1) ==
  push_middle(IF s1.bq.write_handle /\ ReaderAtFront(s1) THEN flip_queues(s1) ELSE s1)

\* push() in three cases.
LEMMA PushCases ==
  ASSUME NEW s, NEW el, NEW s1, s1 = append(s, el), s1.bq.write_handle \in BOOLEAN,
         NEW s2, s2 = IF HasPushFile(s1) /\ ReaderAtFront(s1) THEN flip_queues(s1) ELSE s1,
         s2.bq.write_handle \in BOOLEAN,
         NEW s3, s3 = IF Full(s2) THEN trim_push_queue(s2) ELSE s2
  PROVE  push(s, el) = IF HasPushFile(s2) THEN roll(s2)
                       ELSE IF Full(s3) THEN flush_push_queue(s3) ELSE s3
<1>1. (HasPushFile(s1) <=> s1.bq.write_handle) /\ (HasPushFile(s2) <=> s2.bq.write_handle)
  BY DEF HasPushFile
<1>2. s2 = IF s1.bq.write_handle /\ ReaderAtFront(s1) THEN flip_queues(s1) ELSE s1
  BY <1>1
<1>3. push(s, el) = IF s2.bq.write_handle THEN roll(s2)
                    ELSE IF Full(s3) THEN flush_push_queue(s3) ELSE s3
  <2>1. push(s, el) = push_appended(append(s, el))
    BY DEF push, push_until, append, push_appended, push_middle, push_end, ReaderAtFront, Full
  <2>2. push(s, el) = push_middle(s2)
    BY <1>2, <2>1 DEF push_appended
  <2>3. push(s, el) = push_end(s2, s3)
    BY <2>2 DEF push_middle
  <2>4. QED
    BY <2>3, SMTT(60) DEF push_end
<1>4. QED
  BY <1>1, <1>3

Pushed(s, t) ==
  /\ Live(t) = Live(s) /\ t.bq.nelements_pushed = s.bq.nelements_pushed + 1
  /\ \A c \in Live(s) : t.bq.consumers[c].nelements_popped = s.bq.consumers[c].nelements_popped

LEMMA PushStep ==
  ASSUME NEW s, NEW at \in [Nat -> Nat], Good(s, at), Live(s) # {},
         NEW t, t = push(s, s.bq.nelements_pushed + 1)
  PROVE  (\E at2 \in [Nat -> Nat] : Good(t, at2)) /\ Pushed(s, t) /\ FilesKept(s, t)
<1>1. Typed(s) /\ Stored(s, at) /\ Placed(s, at) /\ Named(s) /\ Used(s) /\ Counted(s)
  BY DEF Good
<1>2. PICK s1 : s1 = append(s, s.bq.nelements_pushed + 1)
  OBVIOUS
<1>3. /\ Typed(s1) /\ Stored(s1, at) /\ Placed(s1, at) /\ Named(s1) /\ Used(s1)
      /\ Len(s1.bq.element_cache) = Len(s.bq.element_cache) + 1
  BY <1>1, <1>2, AppendStep
<1>4. /\ SameFiles(s, s1) /\ s1.bq.consumers = s.bq.consumers
      /\ s1.bq.nelements = s.bq.nelements + 1
      /\ s1.bq.nelements_pushed = s.bq.nelements_pushed + 1
  BY <1>1, <1>2, AppendFields
<1>5. Live(s1) = Live(s) /\ Pushed(s, s1)
  BY <1>4 DEF Live, Pushed
<1>6. PICK k \in Nat, l \in Nat, n \in Nat :
        /\ k = m_cache_limit /\ l = Len(s.bq.element_cache) /\ n = s.bq.nelements /\ l < 2 * k
  BY <1>1, LimitIsPositive, QueueTyped DEF Typed, Counted
<1>7. Len(s1.bq.element_cache) = l + 1 /\ s1.bq.nelements = n + 1 /\ l + 1 <= 2 * k
  <2>1. l < 2 * k
    BY <1>6
  <2>2. l + 1 <= 2 * k
    BY <2>1
  <2>3. QED
    BY <1>3, <1>4, <1>6, <2>2
<1>8. PICK s2 : s2 = IF HasPushFile(s1) /\ ReaderAtFront(s1) THEN flip_queues(s1) ELSE s1
  OBVIOUS
<1>9. PICK s3 : s3 = IF Full(s2) THEN trim_push_queue(s2) ELSE s2
  OBVIOUS
<1>10. s1.bq.write_handle \in BOOLEAN
  BY <1>3 DEF Typed
<1>11. SUFFICES Keeps(s1, t) /\ Counted(t) /\ Used(t)
  <2>1. FilesKept(s, s1)
    BY <1>1, <1>4, SameFilesKept
  <2>2. Keeps(s1, t) => FilesKept(s, t)
    BY <1>1, <1>3, <2>1, KeptIsTransitive DEF Keeps
  <2>3. QED
    BY <1>5, <2>2 DEF Keeps, Good, Pushed, SamePops
<1>12. CASE HasPushFile(s1) /\ ReaderAtFront(s1)
  <2>1. s2 = flip_queues(s1)
    BY <1>8, <1>12
  <2>2. /\ Typed(s2) /\ Named(s2) /\ SamePops(s1, s2) /\ s2.bq.consumers = s1.bq.consumers
        /\ s2.bq.nelements = Len(s1.bq.element_cache) /\ Flipped(s1, s2)
    BY <1>3, <1>12, <2>1, FlipStep
  <2>3. PICK at2 \in [Nat -> Nat] : Stored(s2, at2) /\ Placed(s2, at2)
    BY <1>3, <1>12, <2>1, FlipStep
  <2>4. NoPushFile(s2) /\ ~ HasPushFile(s2) /\ s2.bq.write_handle \in BOOLEAN
    BY <2>2 DEF Flipped, NoPushFile, HasPushFile
  <2>5. Used(s2)
    <3>1. s1.bq.pop_queues # <<>>
      BY <1>3, <1>12 DEF Used, HasPushFile
    <3>2. ReaderAt(s1, s1.bq.released + 1)
      BY <1>3, <3>1 DEF Used
    <3>3. ReaderAt(s2, s2.bq.released + 1)
      BY <2>2, <3>2 DEF ReaderAt, SamePops, Flipped
    <3>4. QED
      BY <2>4, <3>3 DEF Used, NoPushFile
  <2>6. Bounded(s2)
    <3>1. Len(s2.bq.element_cache) = l + 1 /\ s2.bq.nelements = l + 1
      BY <1>7, <2>2 DEF Flipped
    <3>2. l + 1 <= l + 1 /\ l + 1 <= (l + 1) + k
      OBVIOUS
    <3>3. QED
      BY <1>6, <1>7, <3>1, <3>2 DEF Bounded
  <2>7. t = IF Full(s3) THEN flush_push_queue(s3) ELSE s3
    BY <1>2, <1>8, <1>9, <1>10, <2>4, PushCases
  <2>8. Live(s2) # {}
    BY <1>5, <2>2 DEF SamePops
  <2>9. Keeps(s2, t) /\ Counted(t) /\ Used(t)
    BY <1>9, <2>2, <2>3, <2>4, <2>5, <2>6, <2>7, <2>8, PushEnd
  <2>10. QED
    BY <1>3, <2>2, <2>9, FlippedKept, KeepsIsTransitive
<1>13. CASE HasPushFile(s1) /\ ~ ReaderAtFront(s1)
  <2>1. s2 = s1
    BY <1>8, <1>13
  <2>2. t = roll(s1)
    <3>1. t = IF HasPushFile(s2) THEN roll(s2) ELSE IF Full(s3) THEN flush_push_queue(s3) ELSE s3
      BY <1>2, <1>8, <1>9, <1>10, <2>1, PushCases
    <3>2. QED
      BY <1>13, <2>1, <3>1
  <2>3. NoReaderAtFront(s1)
    BY <1>13 DEF ReaderAtFront, NoReaderAtFront
  <2>4. s1.bq.element_cache # <<>>
    <3>1. l + 1 # 0
      OBVIOUS
    <3>2. QED
      BY <1>7, <3>1
  <2>5. Len(s1.bq.element_cache) <= 2 * m_cache_limit
    BY <1>6, <1>7
  <2>6. QED
    BY <1>3, <1>13, <2>2, <2>3, <2>4, <2>5, RollStep
<1>14. CASE ~ HasPushFile(s1)
  <2>1. s2 = s1
    BY <1>8, <1>14
  <2>2. NoPushFile(s1)
    BY <1>10, <1>14 DEF HasPushFile, NoPushFile
  <2>3. t = IF Full(s3) THEN flush_push_queue(s3) ELSE s3
    <3>1. t = IF HasPushFile(s2) THEN roll(s2) ELSE IF Full(s3) THEN flush_push_queue(s3) ELSE s3
      BY <1>2, <1>8, <1>9, <1>10, <2>1, PushCases
    <3>2. QED
      BY <1>14, <2>1, <3>1
  <2>4. l <= n /\ n <= l + k
    <3>1. s.bq.write_handle = FALSE
      BY <1>4, <2>2 DEF SameFiles, NoPushFile
    <3>2. QED
      BY <1>1, <1>6, <3>1 DEF Counted
  <2>5. l + 1 <= n + 1 /\ n + 1 <= (l + 1) + k
    BY <2>4
  <2>6. Bounded(s1)
    BY <1>6, <1>7, <2>5 DEF Bounded
  <2>7. s3 = IF Full(s1) THEN trim_push_queue(s1) ELSE s1
    BY <1>9, <2>1
  <2>8. Live(s1) # {}
    BY <1>5
  <2>9. QED
    BY <1>3, <2>2, <2>3, <2>6, <2>7, <2>8, PushEnd
<1>15. QED
  BY <1>12, <1>13, <1>14

-----------------------------------------------------------------------------
(* settle(): one step is enough, since no file is empty.                   *)

settle_once(s, c) == IF at_end_of_pop_queue(s, c) THEN advance(s, c) ELSE s

LEMMA SettleOnce ==
  ASSUME NEW s, NEW c, Len(s.bq.pop_queues) \in Nat,
         NEW v, v = settle_once(s, c), ~ at_end_of_pop_queue(v, c)
  PROVE  settle(s, c) = v
<1>1. PICK n \in Nat : n = Len(s.bq.pop_queues) + 1 /\ n >= 1
  OBVIOUS
<1>2. settle_once(v, c) = v
  BY DEF settle_once
<1> DEFINE Step(f) == [i \in 0 .. n |-> IF i = 0 THEN s ELSE settle_once(f[i - 1], c)]
<1> DEFINE after == CHOOSE f : f = Step(f)
<1>3. settle(s, c) = after[n]
  BY <1>1 DEF settle, settle_once
<1>4. \E f : f = Step(f)
  <2>1. PICK g : g = [i \in 0 .. n |-> IF i = 0 THEN s ELSE v]
    OBVIOUS
  <2>2. ASSUME NEW i \in 0 .. n, i # 0 PROVE settle_once(g[i - 1], c) = v
    <3>1. i - 1 \in 0 .. n
      BY <2>2
    <3>2. CASE i - 1 = 0
      BY <2>1, <3>1, <3>2
    <3>3. CASE i - 1 # 0
      BY <1>2, <2>1, <3>1, <3>3
    <3>4. QED
      BY <3>2, <3>3
  <2>3. g = Step(g)
    BY <2>1, <2>2
  <2>4. QED
    BY <2>3
<1>5. after = Step(after)
  BY <1>4
<1> HIDE DEF after
<1>6. \A i \in 0 .. n : after[i] = IF i = 0 THEN s ELSE settle_once(after[i - 1], c)
  BY <1>5
<1> HIDE DEF Step
<1>7. \A i \in 1 .. n : after[i] = v
  <2> DEFINE bad == {i \in 1 .. n : after[i] # v}
  <2> SUFFICES ASSUME bad # {} PROVE FALSE
    OBVIOUS
  <2>1. bad \in SUBSET Nat
    OBVIOUS
  <2>2. PICK m \in bad : \A i \in bad : m <= i
    BY <2>1, Least
  <2>3. m \in 1 .. n /\ after[m] # v /\ m \in 0 .. n /\ m # 0 /\ m - 1 \in 0 .. n
    BY <2>2
  <2>4. after[m] = settle_once(after[m - 1], c)
    BY <1>6, <2>3
  <2>5. CASE m - 1 = 0
    <3>1. after[m - 1] = s
      BY <1>6, <2>3, <2>5
    <3>2. QED
      BY <2>3, <2>4, <3>1
  <2>6. CASE m - 1 # 0
    <3>1. m - 1 \in 1 .. n /\ ~ (m <= m - 1)
      BY <2>3, <2>6
    <3>2. after[m - 1] = v
      BY <2>2, <3>1
    <3>3. QED
      BY <1>2, <2>3, <2>4, <3>2
  <2>7. QED
    BY <2>5, <2>6
<1>8. n \in 1 .. n
  BY <1>1
<1>9. QED
  BY <1>3, <1>7, <1>8

-----------------------------------------------------------------------------
(* The consumer's file is finished.                                        *)

\* A flip keeps everything.
LEMMA FlipIsGood ==
  ASSUME NEW s, NEW at \in [Nat -> Nat], Good(s, at), HasPushFile(s), NEW t, t = flip_queues(s)
  PROVE  \E at2 \in [Nat -> Nat] : Good(t, at2)
<1>1. Typed(s) /\ Stored(s, at) /\ Placed(s, at) /\ Named(s) /\ Used(s) /\ Counted(s)
  BY DEF Good
<1>2. /\ Typed(t) /\ Named(t) /\ SamePops(s, t) /\ t.bq.consumers = s.bq.consumers
      /\ t.bq.nelements = Len(s.bq.element_cache) /\ Flipped(s, t)
  BY <1>1, FlipStep
<1>3. PICK at2 \in [Nat -> Nat] : Stored(t, at2) /\ Placed(t, at2)
  BY <1>1, FlipStep
<1>4. Used(t)
  <2>1. s.bq.pop_queues # <<>>
    BY <1>1 DEF Used, HasPushFile
  <2>2. ReaderAt(s, s.bq.released + 1)
    BY <1>1, <2>1 DEF Used
  <2>3. ReaderAt(t, t.bq.released + 1)
    BY <1>2, <2>2 DEF ReaderAt, SamePops, Flipped
  <2>4. QED
    BY <1>2, <2>3 DEF Used, Flipped
<1>5. Counted(t)
  <2>1. PICK k \in Nat, l \in Nat : k = m_cache_limit /\ l = Len(s.bq.element_cache) /\ l < 2 * k
    BY <1>1, LimitIsPositive, QueueTyped DEF Counted
  <2>2. l <= l /\ l <= l + k
    OBVIOUS
  <2>3. t.bq.element_cache = s.bq.element_cache
    BY <1>2 DEF Flipped
  <2>4. QED
    BY <1>2, <2>1, <2>2, <2>3 DEF Counted
<1>6. QED
  BY <1>2, <1>3, <1>4, <1>5 DEF Good

Here(s, c) == s.bq.consumers[c].current_pop_queue

LEMMA FlipIfNext ==
  ASSUME NEW s, NEW at \in [Nat -> Nat], Good(s, at), NEW c \in Live(s), at_end_of_pop_queue(s, c),
         NEW t, t = flip_if_next(s, c)
  PROVE  /\ \E at2 \in [Nat -> Nat] : Good(t, at2)
         /\ SamePops(s, t) /\ t.bq.consumers = s.bq.consumers /\ at_end_of_pop_queue(t, c)
         /\ FilesKept(s, t)
         /\ PopQueue(t, Here(t, c)).next_queue = NULL => NoPushFile(t)
<1>1. Typed(s) /\ Stored(s, at) /\ Placed(s, at) /\ Named(s) /\ Used(s) /\ Counted(s)
  BY DEF Good
<1>2. ~ reading_from_push_queue(s, c)
  BY DEF at_end_of_pop_queue
<1>3. Here(s, c) \in s.bq.released + 1 .. Back(s)
  BY <1>1, <1>2, StandsInQueue DEF Placed, Here
<1>4. s.bq.write_handle \in BOOLEAN
  BY <1>1 DEF Typed
<1>5. CASE PopQueue(s, Here(s, c)).next_queue = NULL /\ HasPushFile(s)
  <2>1. t = flip_queues(s)
    BY <1>5 DEF flip_if_next, HasPushFile, Here
  <2>2. SamePops(s, t) /\ t.bq.consumers = s.bq.consumers /\ Flipped(s, t)
    BY <1>1, <1>5, <2>1, FlipStep
  <2>3. NoPushFile(t)
    BY <2>2 DEF Flipped, NoPushFile
  <2>4. PopQueue(t, Here(s, c)).file_length = PopQueue(s, Here(s, c)).file_length
    BY <1>1, <1>3, <2>2, FlippedQueues
  <2>5. at_end_of_pop_queue(t, c)
    BY <2>2, <2>4 DEF at_end_of_pop_queue, Here, reading_from_push_queue
  <2>6. \E at2 \in [Nat -> Nat] : Good(t, at2)
    BY <1>5, <2>1, FlipIsGood
  <2>7. FilesKept(s, t)
    BY <1>1, <2>2, FlippedKept
  <2>8. QED
    BY <2>2, <2>3, <2>5, <2>6, <2>7
<1>6. CASE ~ (PopQueue(s, Here(s, c)).next_queue = NULL /\ HasPushFile(s))
  <2>1. t = s
    BY <1>4, <1>6 DEF flip_if_next, HasPushFile, Here
  <2>2. PopQueue(s, Here(s, c)).next_queue = NULL => NoPushFile(s)
    BY <1>4, <1>6 DEF HasPushFile, NoPushFile
  <2>3. FilesKept(s, t)
    BY <1>1, <2>1, SameFilesKept DEF SameFiles
  <2>4. QED
    BY <2>1, <2>2, <2>3 DEF SamePops
<1>7. QED
  BY <1>5, <1>6

\* Only consumer c has moved, to m.
OnlyMoves(s, t, c, m) ==
  /\ Shape(t) /\ SameFiles(s, t)
  /\ t.bq.element_cache = s.bq.element_cache /\ t.bq.nelements = s.bq.nelements
  /\ t.bq.nelements_pushed = s.bq.nelements_pushed
  /\ t.bq.consumers = [s.bq.consumers EXCEPT ![c] = m]

LEMMA MoveOnFields ==
  ASSUME NEW s, Typed(s), NEW c \in Live(s), NEW t, t = move_on(s, c),
         NEW m, m = [s.bq.consumers[c] EXCEPT
                       !.current_pop_queue = PopQueue(s, Here(s, c)).next_queue, !.file_offset = 0]
  PROVE  OnlyMoves(s, t, c, m)
<1>1. PICK nx : nx = PopQueue(s, Here(s, c)).next_queue
  BY SMTT(60)
<1>2. PICK u : u = [s EXCEPT !.bq.consumers[c].current_pop_queue = nx]
  OBVIOUS
<1>3. t = [u EXCEPT !.bq.consumers[c].file_offset = 0]
  BY <1>1, <1>2 DEF move_on, to_next_queue, Here
<1>4. Shape(s) /\ c \in DOMAIN s.bq.consumers
  BY DEF Typed, Live
<1>5. u.disk = s.disk /\ DOMAIN u = {"bq", "disk"} /\ IsFcn(u)
  BY <1>2, <1>4 DEF Shape, IsFcn
<1>6. u.bq = [s.bq EXCEPT !.consumers[c].current_pop_queue = nx]
  BY <1>2, <1>4 DEF Shape
<1>7. t.disk = s.disk /\ DOMAIN t = {"bq", "disk"} /\ IsFcn(t)
  BY <1>3, <1>5 DEF IsFcn
<1>8. t.bq = [u.bq EXCEPT !.consumers[c].file_offset = 0]
  BY <1>3, <1>5
<1>9. /\ DOMAIN u.bq = Fields /\ IsFcn(u.bq)
      /\ u.bq.consumers = [s.bq.consumers EXCEPT ![c].current_pop_queue = nx]
      /\ \A f \in Fields \ {"consumers"} : u.bq[f] = s.bq[f]
  BY <1>4, <1>6 DEF Shape, IsFcn, Fields
<1>10. /\ DOMAIN t.bq = Fields /\ IsFcn(t.bq)
       /\ t.bq.consumers = [u.bq.consumers EXCEPT ![c].file_offset = 0]
       /\ \A f \in Fields \ {"consumers"} : t.bq[f] = u.bq[f]
  BY <1>8, <1>9 DEF IsFcn, Fields
<1>11. \A f \in Fields \ {"consumers"} : t.bq[f] = s.bq[f]
  BY <1>9, <1>10
<1>12. t.bq.consumers = [s.bq.consumers EXCEPT ![c] = m]
  <2>1. PICK cs : cs = s.bq.consumers /\ c \in DOMAIN cs
    BY <1>4
  <2>2. u.bq.consumers = [cs EXCEPT ![c] = [cs[c] EXCEPT !.current_pop_queue = nx]]
    BY <1>9, <2>1
  <2>3. t.bq.consumers = [cs EXCEPT ![c] = [[cs[c] EXCEPT !.current_pop_queue = nx] EXCEPT !.file_offset = 0]]
    BY <1>10, <2>1, <2>2
  <2>4. m = [[cs[c] EXCEPT !.current_pop_queue = nx] EXCEPT !.file_offset = 0]
    BY <1>1, <2>1
  <2>5. QED
    BY <2>1, <2>3, <2>4
<1>13. /\ t.bq.element_cache = s.bq.element_cache /\ t.bq.nelements = s.bq.nelements
       /\ t.bq.nelements_pushed = s.bq.nelements_pushed
  BY <1>11 DEF Fields
<1>14. SameFiles(s, t)
  BY <1>7, <1>11 DEF SameFiles, Fields
<1>15. QED
  BY <1>7, <1>10, <1>12, <1>13, <1>14 DEF OnlyMoves, Shape

LEMMA MovesStep ==
  ASSUME NEW s, NEW at \in [Nat -> Nat], Typed(s), Stored(s, at), Placed(s, at), Named(s), Counted(s),
         NEW c \in Live(s), NEW m \in ConsumerStates, NEW t, OnlyMoves(s, t, c, m), Stands(t, at, c)
  PROVE  /\ Typed(t) /\ Stored(t, at) /\ Placed(t, at) /\ Named(t) /\ Counted(t)
         /\ Live(t) = Live(s) /\ t.bq.consumers[c] = m
         /\ \A d \in Live(s) : d # c => t.bq.consumers[d] = s.bq.consumers[d]
<1>1. /\ Shape(t) /\ SameFiles(s, t)
      /\ t.bq.element_cache = s.bq.element_cache /\ t.bq.nelements = s.bq.nelements
      /\ t.bq.nelements_pushed = s.bq.nelements_pushed
      /\ t.bq.consumers = [s.bq.consumers EXCEPT ![c] = m]
  BY DEF OnlyMoves
<1>2. PICK cs \in [Live(s) -> ConsumerStates] : cs = s.bq.consumers
  BY DEF Typed
<1>3. /\ t.bq.consumers \in [Live(s) -> ConsumerStates] /\ t.bq.consumers[c] = m
      /\ \A d \in Live(s) : d # c => t.bq.consumers[d] = s.bq.consumers[d]
  BY <1>1, <1>2
<1>4. Live(t) = Live(s)
  BY <1>3 DEF Live
<1>5. Typed(t)
  <2>1. t.bq.consumers \in [Live(t) -> ConsumerStates] /\ Live(t) \in {Consumers, {}}
    BY <1>3, <1>4 DEF Typed
  <2>2. QED
    BY <1>1, <2>1 DEF Typed, SameFiles
<1>6. Stored(t, at) /\ Out(t) = Out(s) /\ Back(t) = Back(s)
  BY <1>1, StoredStays
<1>7. Named(t)
  BY <1>1, FilesStay
<1>8. Placed(t, at)
  <2> SUFFICES ASSUME NEW d \in Live(s), d # c PROVE Stands(t, at, d)
    BY <1>4 DEF Placed
  <2>1. Stands(s, at, d)
    BY DEF Placed
  <2>2. t.bq.consumers[d] = s.bq.consumers[d]
    BY <1>3
  <2>3. QED
    BY <1>1, <1>6, <2>1, <2>2 DEF Stands, SameFiles
<1>9. Counted(t)
  BY <1>1, <1>4 DEF Counted, SameFiles
<1>10. QED
  BY <1>3, <1>4, <1>5, <1>6, <1>7, <1>8, <1>9

\* Where the next queue of a pop queue is.
LEMMA NextQueue ==
  ASSUME NEW s, NEW at \in [Nat -> Nat], Typed(s), Stored(s, at), NEW q \in s.bq.released + 1 .. Back(s)
  PROVE  /\ PopQueue(s, q).next_queue = IF q = Back(s) THEN NULL ELSE q + 1
         /\ q # NULL /\ q + 1 # NULL /\ q \in Nat /\ at[q] \in Nat /\ at[q + 1] \in Nat
         /\ PopQueue(s, q).file_length = at[q + 1] - at[q]
         /\ at[q] + m_cache_limit <= at[q + 1]
<1>1. PICK n \in Nat, r \in Nat : n = Len(s.bq.pop_queues) /\ r = s.bq.released /\ Back(s) = r + n
  BY QueueTyped
<1>2. q \in r + 1 .. r + n
  BY <1>1
<1>3. q \in Nat /\ q + 1 \in Nat /\ q # 0 /\ q + 1 # 0
  BY <1>2
<1>4. /\ PopQueue(s, q).next_queue = IF q = Back(s) THEN NULL ELSE q + 1
      /\ Holds(s, q, at[q], at[q + 1])
  BY DEF Stored, InPopQueues
<1>5. at[q] \in Nat /\ at[q + 1] \in Nat
  BY <1>3
<1>6. QED
  BY <1>3, <1>4, <1>5 DEF Holds, NULL

\* What move_on() does to the state.
LEMMA MoveOnStep ==
  ASSUME NEW s, NEW at \in [Nat -> Nat], Good(s, at), NEW c \in Live(s), at_end_of_pop_queue(s, c),
         PopQueue(s, Here(s, c)).next_queue = NULL => NoPushFile(s),
         NEW t, t = move_on(s, c)
  PROVE  /\ Typed(t) /\ Stored(t, at) /\ Placed(t, at) /\ Named(t) /\ Counted(t)
         /\ SameFiles(s, t) /\ SamePops(s, t) /\ ~ at_end_of_pop_queue(t, c)
         /\ Here(t, c) = IF Here(s, c) = Back(s) THEN NULL ELSE Here(s, c) + 1
         /\ \A d \in Live(s) : d # c => t.bq.consumers[d] = s.bq.consumers[d]
<1>1. Typed(s) /\ Stored(s, at) /\ Placed(s, at) /\ Named(s) /\ Used(s) /\ Counted(s)
  BY DEF Good
<1>2. ~ reading_from_push_queue(s, c) /\ Stands(s, at, c)
  BY <1>1 DEF at_end_of_pop_queue, Placed
<1>3. PICK q : q = Here(s, c) /\ q \in s.bq.released + 1 .. Back(s)
  BY <1>1, <1>2, StandsInQueue DEF Here
<1>4. /\ PopQueue(s, q).next_queue = IF q = Back(s) THEN NULL ELSE q + 1
      /\ q # NULL /\ q + 1 # NULL /\ q \in Nat
      /\ PopQueue(s, q).file_length = at[q + 1] - at[q]
  BY <1>1, <1>3, NextQueue
<1>5. PICK a \in Nat, b \in Nat, k \in Nat, nx \in Nat :
        /\ a = at[q] /\ b = at[q + 1] /\ k = m_cache_limit /\ k > 0 /\ a + k <= b
        /\ nx = PopQueue(s, q).next_queue
  <2>1. PopQueue(s, q) \in PopQueues
    BY <1>1, <1>3, QueueTyped
  <2>2. PopQueue(s, q).next_queue \in Nat
    BY <2>1, PopQueueFields
  <2>3. QED
    BY <1>1, <1>3, <2>2, NextQueue, LimitIsPositive
<1>6. PICK cc \in ConsumerStates, fo \in Nat, np \in Nat :
        cc = s.bq.consumers[c] /\ fo = cc.file_offset /\ np = cc.nelements_popped
  BY <1>1, ConsumerTyped
<1>7. cc.element_offset = 0 /\ a + fo <= b /\ np = a + fo /\ cc.current_pop_queue = q
  BY <1>2, <1>3, <1>5, <1>6 DEF Stands, reading_from_push_queue, Here
<1>8. fo >= b - a
  BY <1>3, <1>4, <1>5, <1>6 DEF at_end_of_pop_queue, Here
<1>9. np = b
  <2>1. a + fo <= b /\ np = a + fo
    BY <1>7
  <2>2. QED
    BY <1>8, <2>1
<1>10. PICK m : m = [cc EXCEPT !.current_pop_queue = nx, !.file_offset = 0]
  OBVIOUS
<1>11. m \in ConsumerStates
  BY <1>10 DEF ConsumerStates
<1>12. /\ m.current_pop_queue = nx /\ m.file_offset = 0
       /\ m.nelements_popped = b /\ m.element_offset = 0
  BY <1>6, <1>7, <1>9, <1>10 DEF ConsumerStates
<1>13. OnlyMoves(s, t, c, m)
  BY <1>1, <1>3, <1>5, <1>6, <1>10, MoveOnFields
<1>14. SameFiles(s, t) /\ t.bq.consumers[c] = m /\ t.bq.element_cache = s.bq.element_cache
       /\ t.bq.nelements_pushed = s.bq.nelements_pushed
  <2>1. PICK cs \in [Live(s) -> ConsumerStates] : cs = s.bq.consumers
    BY <1>1 DEF Typed
  <2>2. QED
    BY <1>13, <2>1 DEF OnlyMoves
<1>15. Back(t) = Back(s) /\ Out(t) = Out(s) /\ t.bq.released = s.bq.released
  BY <1>14 DEF SameFiles, Back, Out
<1>16. ASSUME q = Back(s)
       PROVE  /\ Stands(t, at, c) /\ ~ at_end_of_pop_queue(t, c)
              /\ Here(t, c) = IF q = Back(s) THEN NULL ELSE q + 1
  <2>1. nx = NULL
    BY <1>4, <1>5, <1>16
  <2>2. NoPushFile(s)
    BY <1>3, <1>5, <2>1
  <2>3. b = Out(s)
    BY <1>1, <1>5, <1>16, <2>2 DEF Stored, InPushFile, NoPushFile
  <2>4. 0 <= Len(s.bq.element_cache) /\ b = b + 0
    BY <1>1, QueueTyped
  <2>5. Stands(t, at, c)
    BY <1>12, <1>14, <1>15, <2>1, <2>3, <2>4 DEF Stands
  <2>6. ~ at_end_of_pop_queue(t, c)
    BY <1>12, <1>14, <2>1 DEF at_end_of_pop_queue, reading_from_push_queue
  <2>7. QED
    BY <1>12, <1>14, <1>16, <2>1, <2>5, <2>6 DEF Here
<1>17. ASSUME q # Back(s)
       PROVE  /\ Stands(t, at, c) /\ ~ at_end_of_pop_queue(t, c)
              /\ Here(t, c) = IF q = Back(s) THEN NULL ELSE q + 1
  <2>1. nx = q + 1 /\ nx # NULL
    BY <1>4, <1>5, <1>17
  <2>2. nx \in s.bq.released + 1 .. Back(s)
    <3>1. PICK r \in Nat, z \in Nat : r = s.bq.released /\ z = Back(s)
      BY <1>1, QueueTyped
    <3>2. q \in r + 1 .. z /\ q # z
      BY <1>3, <1>17, <3>1
    <3>3. q + 1 \in r + 1 .. z
      BY <3>2
    <3>4. QED
      BY <2>1, <3>1, <3>3
  <2>3. PICK e \in Nat : at[nx] = b /\ e = at[nx + 1] /\ b + k <= e
                         /\ PopQueue(s, nx).file_length = e - b
    BY <1>1, <1>5, <2>1, <2>2, NextQueue
  <2>4. b + 0 <= e /\ b = b + 0 /\ ~ (0 >= e - b)
    <3>1. b + k <= e /\ k > 0
      BY <1>5, <2>3
    <3>2. QED
      BY <3>1
  <2>5. Stands(t, at, c)
    BY <1>12, <1>14, <1>15, <2>1, <2>2, <2>3, <2>4 DEF Stands
  <2>6. PopQueue(t, nx) = PopQueue(s, nx)
    BY <1>14, FilesStay
  <2>7. ~ at_end_of_pop_queue(t, c)
    BY <1>12, <1>14, <2>3, <2>4, <2>6 DEF at_end_of_pop_queue
  <2>8. QED
    BY <1>12, <1>14, <1>17, <2>1, <2>5, <2>7 DEF Here
<1>18. /\ Stands(t, at, c) /\ ~ at_end_of_pop_queue(t, c)
       /\ Here(t, c) = IF Here(s, c) = Back(s) THEN NULL ELSE Here(s, c) + 1
  BY <1>3, <1>16, <1>17
<1>19. /\ Typed(t) /\ Stored(t, at) /\ Placed(t, at) /\ Named(t) /\ Counted(t)
       /\ Live(t) = Live(s) /\ t.bq.consumers[c] = m
       /\ \A d \in Live(s) : d # c => t.bq.consumers[d] = s.bq.consumers[d]
  BY <1>1, <1>11, <1>13, <1>18, MovesStep
<1>20. SamePops(s, t)
  <2>1. m.nelements_popped = cc.nelements_popped
    BY <1>6, <1>9, <1>12
  <2>2. QED
    BY <1>6, <1>14, <1>19, <2>1 DEF SamePops
<1>21. QED
  BY <1>14, <1>18, <1>19, <1>20

-----------------------------------------------------------------------------
(* release_pop_queue_front()                                               *)

Released(s, t) ==
  /\ Shape(t) /\ t.disk = s.disk
  /\ t.bq.element_cache = s.bq.element_cache /\ t.bq.nelements = s.bq.nelements
  /\ t.bq.nelements_pushed = s.bq.nelements_pushed
  /\ t.bq.write_handle = s.bq.write_handle /\ t.bq.file_name = s.bq.file_name
  /\ t.bq.temp_ids = s.bq.temp_ids /\ t.bq.consumers = s.bq.consumers
  /\ t.bq.pop_queues = Tail(s.bq.pop_queues) /\ t.bq.released = s.bq.released + 1
  /\ t.bq.allocated_filenames =
       Append(s.bq.allocated_filenames, Head(s.bq.pop_queues).file_name)

LEMMA ReleaseFields ==
  ASSUME NEW s, Typed(s), Named(s), s.bq.pop_queues # <<>>,
         NEW t, t = release_pop_queue_front(s)
  PROVE  Released(s, t)
<1>1. PICK p \in Seq(PopQueues) : p = s.bq.pop_queues /\ p # <<>>
  BY DEF Typed
<1>2. 1 \in DOMAIN p /\ Head(p) = p[1]
  BY <1>1
<1>3. p[1].file_name \in PopNames(s)
  BY <1>1, <1>2 DEF PopNames
<1>4. PICK k \in Nat : k = s.bq.temp_ids
  BY DEF Typed
<1>5. p[1].file_name \in 1 .. k
  BY <1>3, <1>4 DEF Named
<1>6. Head(s.bq.pop_queues).file_name # NoFile
  <2>1. 0 \notin 1 .. k
    OBVIOUS
  <2>2. QED
    BY <1>1, <1>2, <1>5, <2>1 DEF NoFile
<1>7. Shape(s)
  BY DEF Typed
<1>8. PICK pool, rest, r : /\ pool = Append(s.bq.allocated_filenames, Head(s.bq.pop_queues).file_name)
                           /\ rest = Tail(s.bq.pop_queues) /\ r = s.bq.released + 1
  OBVIOUS
<1>9. t = [s EXCEPT !.bq.pop_queues = rest, !.bq.released = r, !.bq.allocated_filenames = pool]
  BY <1>6, <1>8 DEF release_pop_queue_front
<1>10. t.disk = s.disk
  BY <1>7, <1>9 DEF Shape, IsFcn, Fields
<1>11. t.bq = [s.bq EXCEPT !.pop_queues = rest, !.released = r, !.allocated_filenames = pool]
  BY <1>7, <1>9 DEF Shape, IsFcn, Fields
<1>12. Shape(t)
  <2>1. DOMAIN t = {"bq", "disk"} /\ DOMAIN t.bq = Fields
    BY <1>7, <1>9, <1>11 DEF Shape
  <2>2. IsFcn(t.bq)
    BY <1>11 DEF IsFcn
  <2>3. IsFcn(t)
    BY <1>9 DEF IsFcn
  <2>4. QED
    BY <2>1, <2>2, <2>3 DEF Shape
<1>13. /\ t.bq.element_cache = s.bq.element_cache /\ t.bq.nelements = s.bq.nelements
       /\ t.bq.nelements_pushed = s.bq.nelements_pushed /\ t.bq.consumers = s.bq.consumers
  BY <1>7, <1>11 DEF Shape, IsFcn, Fields
<1>14. /\ t.bq.write_handle = s.bq.write_handle /\ t.bq.file_name = s.bq.file_name
       /\ t.bq.temp_ids = s.bq.temp_ids
  BY <1>7, <1>11 DEF Shape, IsFcn, Fields
<1>15. t.bq.pop_queues = rest /\ t.bq.released = r /\ t.bq.allocated_filenames = pool
  BY <1>7, <1>11 DEF Shape, IsFcn, Fields
<1>16. QED
  BY <1>8, <1>10, <1>12, <1>13, <1>14, <1>15 DEF Released

LEMMA TailOfQueues ==
  ASSUME NEW p \in Seq(PopQueues), p # <<>>
  PROVE  /\ Tail(p) \in Seq(PopQueues) /\ Len(Tail(p)) = Len(p) - 1 /\ Len(p) - 1 \in Nat
         /\ \A i \in 1 .. Len(p) - 1 : Tail(p)[i] = p[i + 1]
OBVIOUS

\* The pop queues that are left.
LEMMA ReleasedQueues ==
  ASSUME NEW s, Typed(s), s.bq.pop_queues # <<>>, NEW t, Released(s, t)
  PROVE  /\ Back(t) = Back(s) /\ t.bq.pop_queues \in Seq(PopQueues) /\ t.bq.released \in Nat
         /\ \A q \in t.bq.released + 1 .. Back(t) :
              PopQueue(t, q) = PopQueue(s, q) /\ q \in s.bq.released + 1 .. Back(s)
         /\ \A q \in s.bq.released + 1 .. Back(s) :
              q # s.bq.released + 1 => q \in t.bq.released + 1 .. Back(t)
<1>1. PICK p \in Seq(PopQueues), r \in Nat, n \in Nat :
        p = s.bq.pop_queues /\ r = s.bq.released /\ n = Len(p) /\ p # <<>> /\ Back(s) = r + n
  BY QueueTyped DEF Typed
<1>2. PICK x \in Seq(PopQueues), m \in Nat :
        x = Tail(p) /\ m = n - 1 /\ Len(x) = m /\ \A i \in 1 .. m : x[i] = p[i + 1]
  <2>1. p # <<>> /\ n = Len(p)
    BY <1>1
  <2>2. /\ Tail(p) \in Seq(PopQueues) /\ Len(Tail(p)) = n - 1 /\ n - 1 \in Nat
        /\ \A i \in 1 .. n - 1 : Tail(p)[i] = p[i + 1]
    BY <2>1, TailOfQueues
  <2>3. QED
    BY <2>2
<1>3. t.bq.pop_queues = x /\ t.bq.released = r + 1
  BY <1>1, <1>2 DEF Released
<1>4. n = m + 1
  <2>1. m = n - 1
    BY <1>2
  <2>2. QED
    BY <2>1
<1>5. Back(t) = (r + 1) + m
  BY <1>2, <1>3 DEF Back
<1>6. (r + 1) + m = r + n /\ r + 1 \in Nat
  BY <1>4
<1>7. ASSUME NEW q \in (r + 1) + 1 .. r + n
      PROVE  PopQueue(t, q) = PopQueue(s, q) /\ q \in r + 1 .. r + n
  <2>1. PICK i \in 1 .. m : i = q - (r + 1) /\ i + 1 = q - r
    BY <1>4
  <2>2. PopQueue(t, q) = x[i] /\ PopQueue(s, q) = p[i + 1]
    BY <1>1, <1>3, <2>1 DEF PopQueue
  <2>3. QED
    BY <1>2, <2>2
<1>8. \A q \in r + 1 .. r + n : q # r + 1 => q \in (r + 1) + 1 .. r + n
  OBVIOUS
<1>9. QED
  BY <1>1, <1>2, <1>3, <1>5, <1>6, <1>7, <1>8

LEMMA ReleasedKept ==
  ASSUME NEW s, NEW t, Typed(s), Named(s), s.bq.pop_queues # <<>>, Released(s, t)
  PROVE  FilesKept(s, t)
<1>1. PICK r \in Nat, b \in Nat : r = s.bq.released /\ b = Back(s) /\ t.bq.released = r + 1 /\ Back(t) = b
  BY QueueTyped, ReleasedQueues DEF Released
<1>2. r <= r + 1 /\ b <= b
  OBVIOUS
<1>3. ASSUME NEW q \in s.bq.released + 1 .. Back(s), q \in t.bq.released + 1 .. Back(t)
      PROVE  FileKept(s, t, q)
  <2>1. PopQueue(s, q).file_name \in DOMAIN s.disk
    BY PopNamesOnDisk
  <2>2. PopQueue(t, q) = PopQueue(s, q) /\ t.disk = s.disk
    BY <1>3, ReleasedQueues DEF Released
  <2>3. QED
    BY <2>1, <2>2 DEF FileKept
<1>4. QED
  BY <1>1, <1>2, <1>3 DEF FilesKept

LEMMA ReleasedNamed ==
  ASSUME NEW s, Typed(s), Named(s), s.bq.pop_queues # <<>>, NEW t, Released(s, t)
  PROVE  Named(t) /\ t.bq.allocated_filenames \in Seq(Nat)
<1>1. PICK p \in Seq(PopQueues), n \in Nat, pool \in Seq(Nat), k \in Nat, f \in Nat :
        /\ p = s.bq.pop_queues /\ n = Len(p) /\ p # <<>> /\ pool = s.bq.allocated_filenames
        /\ k = Len(pool) /\ f = p[1].file_name /\ n # 0 /\ Head(p) = p[1]
        /\ DOMAIN p = 1 .. n /\ DOMAIN pool = 1 .. k
  <2>1. PICK p \in Seq(PopQueues) : p = s.bq.pop_queues
    BY DEF Typed
  <2>2. PICK pool \in Seq(Nat) : pool = s.bq.allocated_filenames
    BY DEF Typed
  <2>3. Len(p) # 0 /\ Head(p) = p[1] /\ p[1] \in PopQueues /\ Len(p) \in Nat /\ DOMAIN p = 1 .. Len(p)
    BY <2>1
  <2>4. p[1].file_name \in Nat
    BY <2>3, PopQueueFields
  <2>5. Len(pool) \in Nat /\ DOMAIN pool = 1 .. Len(pool)
    OBVIOUS
  <2>6. QED
    BY <2>1, <2>2, <2>3, <2>4, <2>5
<1>2. PICK x \in Seq(PopQueues), m \in Nat :
        /\ x = Tail(p) /\ m = n - 1 /\ n = m + 1 /\ Len(x) = m /\ DOMAIN x = 1 .. m
        /\ \A i \in 1 .. m : x[i] = p[i + 1]
  <2>1. PICK x \in Seq(PopQueues) : x = Tail(p) /\ Len(x) = n - 1 /\ \A i \in 1 .. n - 1 : x[i] = p[i + 1]
    <3>1. p # <<>> /\ n = Len(p)
      BY <1>1
    <3>2. /\ Tail(p) \in Seq(PopQueues) /\ Len(Tail(p)) = n - 1
          /\ \A i \in 1 .. n - 1 : Tail(p)[i] = p[i + 1]
      BY <3>1, TailOfQueues
    <3>3. QED
      BY <3>2
  <2>2. PICK m \in Nat : m = n - 1 /\ n = m + 1
    <3>1. n # 0
      BY <1>1
    <3>2. n - 1 \in Nat /\ n = (n - 1) + 1
      BY <3>1
    <3>3. QED
      BY <3>2
  <2>3. DOMAIN x = 1 .. m
    BY <2>1, <2>2
  <2>4. QED
    BY <2>1, <2>2, <2>3
<1>3. PICK y \in Seq(Nat) :
        /\ y = Append(pool, f) /\ DOMAIN y = 1 .. k + 1
        /\ y[k + 1] = f /\ \A i \in 1 .. k : y[i] = pool[i]
  <2>1. PICK y \in Seq(Nat) : y = Append(pool, f)
    BY AppendProperties
  <2>2. Len(y) = k + 1 /\ y[k + 1] = f /\ \A i \in 1 .. k : y[i] = pool[i]
    BY <1>1, <2>1, AppendProperties
  <2>3. DOMAIN y = 1 .. k + 1
    BY <2>2
  <2>4. QED
    BY <2>1, <2>2, <2>3
<1>4. t.bq.pop_queues = x /\ t.bq.allocated_filenames = y
  BY <1>1, <1>2, <1>3 DEF Released
<1>5. /\ PopNames(s) = {p[i].file_name : i \in 1 .. n}
      /\ PopNames(t) = {x[i].file_name : i \in 1 .. m}
      /\ PoolNames(s) = {pool[i] : i \in 1 .. k} /\ PoolNames(t) = {y[i] : i \in 1 .. k + 1}
  <2>1. PopNames(s) = {p[i].file_name : i \in 1 .. n}
    BY <1>1 DEF PopNames
  <2>1a. PopNames(t) = {x[i].file_name : i \in 1 .. m}
    BY <1>2, <1>4 DEF PopNames
  <2>2. PoolNames(s) = {pool[i] : i \in 1 .. k}
    BY <1>1 DEF PoolNames, Elements
  <2>3. PoolNames(t) = {y[i] : i \in 1 .. k + 1}
    BY <1>3, <1>4 DEF PoolNames, Elements
  <2>4. QED
    BY <2>1, <2>1a, <2>2, <2>3
<1>6. \A i, j \in 1 .. n : p[i].file_name = p[j].file_name => i = j
  BY <1>1 DEF Named, PopsAreDistinct
<1>7. \A i, j \in 1 .. k : pool[i] = pool[j] => i = j
  BY <1>1 DEF Named, PoolIsDistinct
<1>8. 1 \in 1 .. n /\ \A i \in 1 .. m : i + 1 \in 1 .. n /\ i + 1 # 1
  <2>1. n = m + 1
    BY <1>2
  <2>2. QED
    BY <2>1
<1>9. f \in PopNames(s) /\ f \notin PoolNames(s)
  BY <1>1, <1>5, <1>8, ZenonT(60) DEF Named
<1>10. 1 .. k + 1 = (1 .. k) \cup {k + 1}
  OBVIOUS
<1>11. PoolNames(t) = PoolNames(s) \cup {f}
  BY <1>3, <1>5, <1>10
<1>12. PopNames(t) = PopNames(s) \ {f}
  <2>1. ASSUME NEW z \in PopNames(t) PROVE z \in PopNames(s) \ {f}
    <3>1. PICK i \in 1 .. m : z = x[i].file_name
      BY <1>5
    <3>2. z = p[i + 1].file_name /\ i + 1 \in 1 .. n /\ i + 1 # 1
      BY <1>2, <1>8, <3>1
    <3>3. z # f
      BY <1>1, <1>6, <1>8, <3>2
    <3>4. QED
      BY <1>5, <3>2, <3>3
  <2>2. ASSUME NEW z \in PopNames(s) \ {f} PROVE z \in PopNames(t)
    <3>1. PICK j \in 1 .. n : z = p[j].file_name /\ j # 1
      BY <1>1, <1>5
    <3>2. PICK i \in 1 .. m : j = i + 1
      <4>1. n = m + 1 /\ j # 1
        BY <1>2, <3>1
      <4>2. j - 1 \in 1 .. m /\ j = (j - 1) + 1
        BY <4>1
      <4>3. QED
        BY <4>2
    <3>3. z = x[i].file_name
      BY <1>2, <3>1, <3>2
    <3>4. QED
      BY <1>5, <3>3
  <2>3. QED
    BY <2>1, <2>2
<1>13. PopsAreDistinct(t)
  <2>1. ASSUME NEW i \in 1 .. m, NEW j \in 1 .. m, x[i].file_name = x[j].file_name PROVE i = j
    <3>1. p[i + 1].file_name = p[j + 1].file_name
      BY <1>2, <2>1
    <3>2. i + 1 = j + 1
      BY <1>6, <1>8, <3>1
    <3>3. QED
      BY <3>2
  <2>2. QED
    BY <1>2, <1>4, <2>1 DEF PopsAreDistinct
<1>14. PoolIsDistinct(t)
  <2>1. \A i \in 1 .. k : y[i] \in PoolNames(s)
    BY <1>3, <1>5
  <2>2. \A i, j \in 1 .. k + 1 : y[i] = y[j] => i = j
    BY <1>3, <1>7, <1>9, <1>10, <2>1
  <2>3. QED
    BY <1>3, <1>4, <2>2 DEF PoolIsDistinct
<1>15. /\ DOMAIN t.disk = DOMAIN s.disk /\ PushNames(t) = PushNames(s) /\ t.bq.temp_ids = s.bq.temp_ids
       /\ t.bq.file_name = s.bq.file_name /\ t.bq.write_handle = s.bq.write_handle
  BY DEF Released, PushNames
<1>16. /\ DOMAIN s.disk = PoolNames(s) \cup PopNames(s) \cup PushNames(s)
       /\ DOMAIN s.disk \subseteq 1 .. s.bq.temp_ids
       /\ PoolNames(s) \cap PopNames(s) = {} /\ PoolNames(s) \cap PushNames(s) = {}
       /\ PopNames(s) \cap PushNames(s) = {}
  BY DEF Named
<1>17. /\ DOMAIN t.disk = PoolNames(t) \cup PopNames(t) \cup PushNames(t)
       /\ PoolNames(t) \cap PopNames(t) = {} /\ PoolNames(t) \cap PushNames(t) = {}
       /\ PopNames(t) \cap PushNames(t) = {}
  BY <1>9, <1>11, <1>12, <1>15, <1>16
<1>18. ~ t.bq.write_handle => t.bq.file_name = NoFile
  BY <1>15 DEF Named
<1>19. Named(t)
  BY <1>13, <1>14, <1>15, <1>16, <1>17, <1>18 DEF Named
<1>20. QED
  BY <1>4, <1>19

\* Releasing the first pop queue, when no consumer is in it.
LEMMA ReleaseStep ==
  ASSUME NEW s, NEW at \in [Nat -> Nat], Typed(s), Stored(s, at), Placed(s, at), Named(s), Counted(s),
         s.bq.pop_queues # <<>>, ~ ReaderAt(s, s.bq.released + 1), NEW t, Released(s, t)
  PROVE  /\ Typed(t) /\ Stored(t, at) /\ Placed(t, at) /\ Named(t) /\ Counted(t) /\ SamePops(s, t)
         /\ \A c \in Live(s) : at_end_of_pop_queue(t, c) => at_end_of_pop_queue(s, c)
<1>1. /\ Shape(t) /\ t.disk = s.disk
      /\ t.bq.element_cache = s.bq.element_cache /\ t.bq.nelements = s.bq.nelements
      /\ t.bq.nelements_pushed = s.bq.nelements_pushed
      /\ t.bq.write_handle = s.bq.write_handle /\ t.bq.file_name = s.bq.file_name
      /\ t.bq.temp_ids = s.bq.temp_ids /\ t.bq.consumers = s.bq.consumers
  BY DEF Released
<1>2. /\ Back(t) = Back(s) /\ t.bq.pop_queues \in Seq(PopQueues) /\ t.bq.released \in Nat
      /\ \A q \in t.bq.released + 1 .. Back(t) :
           PopQueue(t, q) = PopQueue(s, q) /\ q \in s.bq.released + 1 .. Back(s)
      /\ \A q \in s.bq.released + 1 .. Back(s) :
           q # s.bq.released + 1 => q \in t.bq.released + 1 .. Back(t)
  BY ReleasedQueues
<1>3. Named(t) /\ t.bq.allocated_filenames \in Seq(Nat)
  BY ReleasedNamed
<1>4. Live(t) = Live(s) /\ Out(t) = Out(s)
  BY <1>1 DEF Live, Out
<1>5. Typed(t)
  BY <1>1, <1>2, <1>3, <1>4 DEF Typed
<1>6. InPopQueues(t, at)
  <2>1. ASSUME NEW q \in t.bq.released + 1 .. Back(t)
        PROVE  /\ Holds(t, q, at[q], at[q + 1])
               /\ PopQueue(t, q).next_queue = IF q = Back(t) THEN NULL ELSE q + 1
    <3>1. PopQueue(t, q) = PopQueue(s, q) /\ q \in s.bq.released + 1 .. Back(s)
      BY <1>2
    <3>2. /\ Holds(s, q, at[q], at[q + 1])
          /\ PopQueue(s, q).next_queue = IF q = Back(s) THEN NULL ELSE q + 1
      BY <3>1 DEF Stored, InPopQueues
    <3>3. QED
      BY <1>1, <1>2, <3>1, <3>2 DEF Holds
  <2>2. Back(t) * m_cache_limit <= at[Back(t) + 1]
    BY <1>2 DEF Stored, InPopQueues
  <2>3. QED
    BY <2>1, <2>2 DEF InPopQueues
<1>7. InMemory(t)
  BY <1>1, <1>4 DEF InMemory, Stored
<1>8. InPushFile(t, at)
  BY <1>1, <1>2, <1>4 DEF InPushFile, Stored
<1>9. Stored(t, at)
  BY <1>6, <1>7, <1>8 DEF Stored
<1>10. ASSUME NEW c \in Live(s), ~ reading_from_push_queue(s, c)
       PROVE  Here(s, c) \in t.bq.released + 1 .. Back(t)
  <2>1. Stands(s, at, c)
    BY DEF Placed
  <2>2. Here(s, c) \in s.bq.released + 1 .. Back(s)
    BY <1>10, <2>1, StandsInQueue DEF Here
  <2>3. Here(s, c) # s.bq.released + 1
    BY DEF ReaderAt, Here
  <2>4. QED
    BY <1>2, <2>2, <2>3
<1>11. Placed(t, at)
  <2> SUFFICES ASSUME NEW c \in Live(s) PROVE Stands(t, at, c)
    BY <1>4 DEF Placed
  <2>1. Stands(s, at, c)
    BY DEF Placed
  <2>2. CASE reading_from_push_queue(s, c)
    BY <1>1, <1>4, <2>1, <2>2 DEF Stands, reading_from_push_queue
  <2>3. CASE ~ reading_from_push_queue(s, c)
    <3>1. Here(s, c) \in t.bq.released + 1 .. Back(t)
      BY <1>10, <2>3
    <3>2. QED
      BY <1>1, <2>1, <2>3, <3>1 DEF Stands, reading_from_push_queue, Here
  <2>4. QED
    BY <2>2, <2>3
<1>12. Counted(t)
  BY <1>1, <1>4 DEF Counted
<1>13. SamePops(s, t)
  BY <1>1, <1>4 DEF SamePops
<1>14. ASSUME NEW c \in Live(s), at_end_of_pop_queue(t, c)
       PROVE  at_end_of_pop_queue(s, c)
  <2>1. ~ reading_from_push_queue(s, c)
    BY <1>1, <1>14 DEF at_end_of_pop_queue, reading_from_push_queue
  <2>2. PopQueue(t, Here(s, c)) = PopQueue(s, Here(s, c))
    BY <1>2, <1>10, <2>1
  <2>3. QED
    BY <1>1, <1>14, <2>1, <2>2 DEF at_end_of_pop_queue, Here
<1>15. QED
  BY <1>3, <1>5, <1>9, <1>11, <1>12, <1>13, <1>14

LEMMA QueueOfIndex ==
  ASSUME NEW r \in Nat, NEW n \in Nat, NEW i \in 1 .. n
  PROVE  \E q : q \in r + 1 .. r + n /\ q - r = i /\ 0 # r + 1 /\ q + 1 # r + 1
<1>1. r + i \in r + 1 .. r + n /\ (r + i) - r = i /\ 0 # r + 1 /\ (r + i) + 1 # r + 1
  OBVIOUS
<1>2. QED
  BY <1>1

\* The front of the pop queues is in use by a consumer or by nothing: the links
\* lead away from it.
LEMMA FrontUnique ==
  ASSUME NEW s, NEW at \in [Nat -> Nat], Typed(s), Stored(s, at), s.bq.pop_queues # <<>>
  PROVE  FrontIsUnique(s) <=> ~ ReaderAt(s, s.bq.released + 1)
<1>1. PICK p \in Seq(PopQueues), r \in Nat, n \in Nat :
        p = s.bq.pop_queues /\ r = s.bq.released /\ n = Len(p) /\ Back(s) = r + n /\ DOMAIN p = 1 .. n
  <2>1. PICK p \in Seq(PopQueues) : p = s.bq.pop_queues
    BY DEF Typed
  <2>2. DOMAIN p = 1 .. Len(p) /\ Len(p) \in Nat
    OBVIOUS
  <2>3. QED
    BY <2>1, <2>2, QueueTyped
<1>2. ASSUME NEW i \in 1 .. n PROVE p[i].next_queue # r + 1
  <2>1. PICK q : /\ q \in r + 1 .. r + n /\ q - r = i /\ 0 # r + 1 /\ q + 1 # r + 1
    BY QueueOfIndex, ZenonT(60)
  <2>2. PopQueue(s, q) = p[i]
    BY <1>1, <2>1 DEF PopQueue
  <2>3. p[i].next_queue = IF q = r + n THEN NULL ELSE q + 1
    BY <1>1, <2>1, <2>2 DEF Stored, InPopQueues
  <2>4. QED
    BY <2>1, <2>3 DEF NULL
<1>3. QED
  BY <1>1, <1>2 DEF FrontIsUnique, ReaderAt

-----------------------------------------------------------------------------
(* advance() and settle()                                                  *)

\* The consumer has left its file, and the file is released if it was the last
\* to use it.
LEMMA ReleaseUnusedStep ==
  ASSUME NEW s, NEW at \in [Nat -> Nat], Good(s, at), NEW c \in Live(s), at_end_of_pop_queue(s, c),
         PopQueue(s, Here(s, c)).next_queue = NULL => NoPushFile(s),
         NEW t, t = release_unused(move_on(s, c))
  PROVE  Good(t, at) /\ SamePops(s, t) /\ ~ at_end_of_pop_queue(t, c) /\ FilesKept(s, t)
<1>1. Typed(s) /\ Stored(s, at) /\ Placed(s, at) /\ Named(s) /\ Used(s) /\ Counted(s)
  BY DEF Good
<1>2. PICK u : u = move_on(s, c)
  OBVIOUS
<1>3. /\ Typed(u) /\ Stored(u, at) /\ Placed(u, at) /\ Named(u) /\ Counted(u)
      /\ SameFiles(s, u) /\ SamePops(s, u) /\ ~ at_end_of_pop_queue(u, c)
      /\ Here(u, c) = IF Here(s, c) = Back(s) THEN NULL ELSE Here(s, c) + 1
      /\ \A d \in Live(s) : d # c => u.bq.consumers[d] = s.bq.consumers[d]
  BY <1>2, MoveOnStep
<1>4. /\ Here(s, c) \in s.bq.released + 1 .. Back(s) /\ s.bq.pop_queues # <<>>
  <2>1. Stands(s, at, c) /\ ~ reading_from_push_queue(s, c)
    BY <1>1 DEF Placed, at_end_of_pop_queue
  <2>2. QED
    BY <1>1, <2>1, StandsInQueue DEF Here
<1>5. PICK p \in Seq(PopQueues), r \in Nat, n \in Nat :
        p = s.bq.pop_queues /\ r = s.bq.released /\ n = Len(p) /\ Back(s) = r + n
  <2>1. PICK p \in Seq(PopQueues) : p = s.bq.pop_queues
    BY <1>1 DEF Typed
  <2>2. QED
    BY <1>1, <2>1, QueueTyped
<1>6. u.bq.pop_queues = p /\ u.bq.released = r /\ u.bq.pop_queues # <<>> /\ Back(u) = Back(s)
      /\ u.bq.write_handle = s.bq.write_handle /\ Live(u) = Live(s)
  BY <1>3, <1>4, <1>5, FilesStay DEF SameFiles, SamePops
<1>11. FilesKept(s, u)
  BY <1>1, <1>3, SameFilesKept
<1>7. CASE ReaderAt(u, r + 1)
  <2>1. t = u
    BY <1>2, <1>3, <1>6, <1>7, FrontUnique DEF release_unused
  <2>2. Used(u)
    BY <1>6, <1>7 DEF Used
  <2>3. QED
    BY <1>3, <1>11, <2>1, <2>2 DEF Good
<1>8. CASE ~ ReaderAt(u, r + 1)
  <2>1. t = release_pop_queue_front(u)
    BY <1>2, <1>3, <1>6, <1>8, FrontUnique DEF release_unused
  <2>2. Released(u, t)
    BY <1>3, <1>6, <2>1, ReleaseFields
  <2>3. /\ Typed(t) /\ Stored(t, at) /\ Placed(t, at) /\ Named(t) /\ Counted(t) /\ SamePops(u, t)
        /\ ~ at_end_of_pop_queue(t, c)
    BY <1>3, <1>6, <1>8, <2>2, ReleaseStep
  <2>4. SamePops(s, t)
    BY <1>3, <2>3 DEF SamePops
  <2>5. Here(s, c) = r + 1
    <3>1. PICK d \in Live(s) : Here(s, d) = r + 1
      BY <1>1, <1>4, <1>5 DEF Used, ReaderAt, Here
    <3>2. CASE d = c
      BY <3>1, <3>2
    <3>3. CASE d # c
      BY <1>3, <1>6, <1>8, <3>1, <3>3 DEF ReaderAt, Here
    <3>4. QED
      BY <3>2, <3>3
  <2>6. /\ t.bq.pop_queues = Tail(p) /\ t.bq.released = r + 1 /\ t.bq.consumers = u.bq.consumers
        /\ t.bq.write_handle = s.bq.write_handle
    BY <1>6, <2>2 DEF Released
  <2>7. Live(t) = Live(u)
    BY <2>6 DEF Live
  <2>11. FilesKept(s, t)
    <3>1. FilesKept(u, t)
      BY <1>3, <1>6, <2>2, ReleasedKept
    <3>2. QED
      BY <1>1, <1>3, <1>11, <2>3, <3>1, KeptIsTransitive
  <2>8. CASE r + 1 = Back(s)
    <3>1. Len(p) = 1
      <4>1. r + 1 = r + n
        BY <1>5, <2>8
      <4>2. n = 1
        BY <4>1
      <4>3. QED
        BY <1>5, <4>2
    <3>2. Tail(p) = <<>>
      <4>1. p # <<>>
        BY <1>4, <1>5
      <4>2. Tail(p) \in Seq(PopQueues) /\ Len(Tail(p)) = 1 - 1
        BY <3>1, <4>1, TailOfQueues
      <4>3. 1 - 1 = 0
        OBVIOUS
      <4>4. QED
        BY <4>2, <4>3, EmptySeq
    <3>3. NoPushFile(s)
      BY <1>1, <1>4, <2>5, <2>8, NextQueue
    <3>4. Used(t)
      BY <2>6, <3>2, <3>3 DEF Used, NoPushFile
    <3>5. QED
      BY <2>3, <2>4, <2>11, <3>4 DEF Good
  <2>9. CASE r + 1 # Back(s)
    <3>1. Here(u, c) = (r + 1) + 1
      BY <1>3, <2>5, <2>9
    <3>2. ReaderAt(t, (r + 1) + 1)
      BY <1>6, <2>6, <2>7, <3>1 DEF ReaderAt, Here
    <3>3. (r + 1) + 1 # NULL
      <4>1. (r + 1) + 1 # 0
        OBVIOUS
      <4>2. QED
        BY <4>1 DEF NULL
    <3>4. ~ reading_from_push_queue(t, c) /\ Stands(t, at, c)
      BY <1>6, <2>3, <2>6, <2>7, <3>1, <3>3 DEF reading_from_push_queue, Here, Placed
    <3>5. t.bq.pop_queues # <<>>
      BY <1>6, <2>3, <2>7, <3>4, StandsInQueue
    <3>6. Used(t)
      BY <2>6, <3>2, <3>5 DEF Used
    <3>7. QED
      BY <2>3, <2>4, <2>11, <3>6 DEF Good
  <2>10. QED
    BY <2>8, <2>9
<1>9. QED
  BY <1>7, <1>8

LEMMA AdvanceStep ==
  ASSUME NEW s, NEW at \in [Nat -> Nat], Good(s, at), NEW c \in Live(s), at_end_of_pop_queue(s, c),
         NEW t, t = advance(s, c)
  PROVE  /\ (\E at2 \in [Nat -> Nat] : Good(t, at2)) /\ SamePops(s, t) /\ ~ at_end_of_pop_queue(t, c)
         /\ FilesKept(s, t)
<1>1. PICK u : u = flip_if_next(s, c)
  OBVIOUS
<1>2. PICK at2 \in [Nat -> Nat] : Good(u, at2)
  BY <1>1, FlipIfNext
<1>3. /\ SamePops(s, u) /\ u.bq.consumers = s.bq.consumers /\ at_end_of_pop_queue(u, c)
      /\ FilesKept(s, u)
      /\ PopQueue(u, Here(u, c)).next_queue = NULL => NoPushFile(u)
  BY <1>1, FlipIfNext
<1>4. t = release_unused(move_on(u, c)) /\ c \in Live(u)
  BY <1>1, <1>3 DEF advance, SamePops
<1>5. Good(t, at2) /\ SamePops(u, t) /\ ~ at_end_of_pop_queue(t, c) /\ FilesKept(u, t)
  BY <1>2, <1>3, <1>4, ReleaseUnusedStep
<1>6. FilesKept(s, t)
  BY <1>2, <1>3, <1>5, KeptIsTransitive DEF Good
<1>7. QED
  BY <1>3, <1>5, <1>6 DEF SamePops

\* settle() keeps everything and leaves the consumer at an element that is in
\* its file, or in memory.
LEMMA SettleStep ==
  ASSUME NEW s, NEW at \in [Nat -> Nat], Good(s, at), NEW c \in Live(s), NEW t, t = settle(s, c)
  PROVE  /\ (\E at2 \in [Nat -> Nat] : Good(t, at2)) /\ SamePops(s, t) /\ ~ at_end_of_pop_queue(t, c)
         /\ FilesKept(s, t)
<1>1. Len(s.bq.pop_queues) \in Nat
  BY QueueTyped DEF Good
<1>2. PICK v : v = settle_once(s, c)
  OBVIOUS
<1>3. /\ (\E at2 \in [Nat -> Nat] : Good(v, at2)) /\ SamePops(s, v) /\ ~ at_end_of_pop_queue(v, c)
      /\ FilesKept(s, v)
  <2>1. CASE at_end_of_pop_queue(s, c)
    BY <1>2, <2>1, AdvanceStep DEF settle_once
  <2>2. CASE ~ at_end_of_pop_queue(s, c)
    <3>1. v = s
      BY <1>2, <2>2 DEF settle_once
    <3>2. FilesKept(s, v)
      BY <3>1, SameFilesKept DEF SameFiles, Good
    <3>3. QED
      BY <2>2, <3>1, <3>2 DEF SamePops
  <2>3. QED
    BY <2>1, <2>2
<1>4. t = v
  BY <1>1, <1>2, <1>3, SettleOnce
<1>5. QED
  BY <1>3, <1>4

-----------------------------------------------------------------------------
(* take()                                                                  *)

\* The pop queues follow each other.
LEMMA AtIsMonotone ==
  ASSUME NEW s, NEW at \in [Nat -> Nat], Typed(s), Stored(s, at),
         NEW q0 \in s.bq.released + 1 .. Back(s) + 1
  PROVE  at[q0] <= at[Back(s) + 1]
<1>1. PICK r \in Nat, b \in Nat : r = s.bq.released /\ b = Back(s)
  BY QueueTyped
<1> DEFINE bad == {i \in Nat : i <= b + 1 /\ (b + 1) - i \in r + 1 .. b + 1
                               /\ ~ (at[(b + 1) - i] <= at[b + 1])}
<1> SUFFICES bad = {}
  <2>1. PICK i \in Nat : i = (b + 1) - q0 /\ i <= b + 1 /\ q0 = (b + 1) - i /\ q0 \in r + 1 .. b + 1
    BY <1>1
  <2>2. i \notin bad
    OBVIOUS
  <2>3. at[q0] <= at[b + 1]
    BY <2>1, <2>2
  <2>4. QED
    BY <1>1, <2>3
<1> SUFFICES ASSUME bad # {} PROVE FALSE
  OBVIOUS
<1>2. bad \in SUBSET Nat
  OBVIOUS
<1>3. PICK m \in bad : \A i \in bad : m <= i
  BY <1>2, Least
<1>4. PICK q \in Nat : /\ q = (b + 1) - m /\ q \in r + 1 .. b + 1 /\ m = (b + 1) - q /\ m \in Nat
                       /\ ~ (at[q] <= at[b + 1]) /\ q + 1 \in Nat
  BY <1>3
<1>5. at[q] \in Nat /\ at[q + 1] \in Nat /\ at[b + 1] \in Nat
  BY <1>4
<1>6. q # b + 1
  BY <1>4, <1>5
<1>7. q \in r + 1 .. b /\ q + 1 \in r + 1 .. b + 1
  BY <1>4, <1>6
<1>8. at[q] + m_cache_limit <= at[q + 1]
  BY <1>1, <1>7, NextQueue
<1>9. at[q] <= at[q + 1]
  BY <1>5, <1>8, LimitIsPositive
<1>10. at[q + 1] <= at[b + 1]
  <2>1. PICK i \in Nat : i = (b + 1) - (q + 1) /\ i <= b + 1 /\ q + 1 = (b + 1) - i /\ ~ (m <= i)
    BY <1>4, <1>7
  <2>2. i \notin bad
    BY <1>3, <2>1
  <2>3. QED
    BY <1>7, <2>1, <2>2
<1>11. QED
  BY <1>4, <1>5, <1>9, <1>10

LEMMA AtIsPushed ==
  ASSUME NEW s, NEW at \in [Nat -> Nat], Typed(s), Stored(s, at),
         NEW q \in s.bq.released + 1 .. Back(s) + 1
  PROVE  at[q] \in Nat /\ at[q] <= Out(s) /\ at[Back(s) + 1] \in Nat /\ at[Back(s) + 1] <= Out(s)
         /\ at[q] <= at[Back(s) + 1] /\ at[q] <= s.bq.nelements_pushed
<1>1. PICK r \in Nat, b \in Nat, o \in Nat, p \in Nat, k \in Nat :
        /\ r = s.bq.released /\ b = Back(s) /\ o = Out(s) /\ p = s.bq.nelements_pushed /\ o <= p
        /\ k = m_cache_limit
  BY QueueTyped, MemoryLength, LimitIsPositive DEF Stored
<1>2. q \in Nat /\ b + 1 \in Nat
  BY <1>1
<1>3. PICK x \in Nat, y \in Nat : x = at[q] /\ y = at[b + 1] /\ x <= y
  BY <1>1, <1>2, AtIsMonotone
<1>4. y + k <= o \/ y = o
  BY <1>1, <1>3 DEF Stored, InPushFile
<1>5. y <= o
  BY <1>4
<1>6. x <= o /\ x <= p
  <2>1. x <= y /\ o <= p
    BY <1>1, <1>3
  <2>2. QED
    BY <1>5, <2>1
<1>7. QED
  BY <1>1, <1>3, <1>5, <1>6

\* What a successful pop does to the counts.
Popped(s, t, c) ==
  /\ Live(t) = Live(s) /\ t.bq.nelements_pushed = s.bq.nelements_pushed
  /\ t.bq.consumers[c].nelements_popped = s.bq.consumers[c].nelements_popped + 1
  /\ \A d \in Live(s) : d # c =>
       t.bq.consumers[d].nelements_popped = s.bq.consumers[d].nelements_popped

Success(c, el) == [consumer |-> c, ok |-> TRUE, el |-> el]
Failure(c) == [consumer |-> c, ok |-> FALSE, el |-> 0]

set_consumer(s, c, m) == [s EXCEPT !.bq.consumers[c] = m]

LEMMA SetConsumerFields ==
  ASSUME NEW s, Shape(s), NEW c \in Live(s), NEW m, NEW t, t = set_consumer(s, c, m)
  PROVE  OnlyMoves(s, t, c, m)
<1>1. t.disk = s.disk /\ DOMAIN t = {"bq", "disk"} /\ IsFcn(t)
  BY DEF Shape, IsFcn, set_consumer
<1>2. t.bq = [s.bq EXCEPT !.consumers[c] = m]
  BY DEF Shape, set_consumer
<1>3. /\ DOMAIN t.bq = Fields /\ IsFcn(t.bq)
      /\ t.bq.consumers = [s.bq.consumers EXCEPT ![c] = m]
      /\ \A f \in Fields \ {"consumers"} : t.bq[f] = s.bq[f]
  BY <1>2 DEF Shape, IsFcn, Fields
<1>4. /\ t.bq.element_cache = s.bq.element_cache /\ t.bq.nelements = s.bq.nelements
      /\ t.bq.nelements_pushed = s.bq.nelements_pushed
  BY <1>3 DEF Fields
<1>5. SameFiles(s, t)
  BY <1>1, <1>3 DEF SameFiles, Fields
<1>6. QED
  BY <1>1, <1>3, <1>4, <1>5 DEF OnlyMoves, Shape

LEMMA MovesTwice ==
  ASSUME NEW s, NEW c \in Live(s), NEW u, NEW m, OnlyMoves(s, u, c, m),
         NEW t, NEW n, OnlyMoves(u, t, c, n)
  PROVE  OnlyMoves(s, t, c, n)
<1>1. [[s.bq.consumers EXCEPT ![c] = m] EXCEPT ![c] = n] = [s.bq.consumers EXCEPT ![c] = n]
  OBVIOUS
<1>2. t.bq.consumers = [s.bq.consumers EXCEPT ![c] = n]
  BY <1>1 DEF OnlyMoves
<1>3. SameFiles(s, t)
  BY DEF OnlyMoves, SameFiles
<1>4. QED
  BY <1>2, <1>3 DEF OnlyMoves

step_file(cc) == [cc EXCEPT !.file_offset = cc.file_offset + 1]
step_memory(cc) == [cc EXCEPT !.element_offset = cc.element_offset + 1]
step_popped(cc) == [cc EXCEPT !.nelements_popped = cc.nelements_popped + 1]

\* The state take() leaves in its two successful cases.
take_file(s, c) ==
  LET u == set_consumer(s, c, step_file(s.bq.consumers[c]))
  IN  set_consumer(u, c, step_popped(u.bq.consumers[c]))
take_memory(s, c) ==
  LET w == trim_push_queue(set_consumer(s, c, step_memory(s.bq.consumers[c])))
  IN  set_consumer(w, c, step_popped(w.bq.consumers[c]))

LEMMA TakeCases ==
  ASSUME NEW s, NEW c
  PROVE  take(s, c) =
           IF ~ reading_from_push_queue(s, c)
             THEN [state |-> take_file(s, c),
                   result |-> Success(c, s.disk[PopQueue(s, Here(s, c)).file_name]
                                               [s.bq.consumers[c].file_offset + 1])]
           ELSE IF Len(s.bq.element_cache) <= s.bq.consumers[c].element_offset
             THEN [state |-> s, result |-> Failure(c)]
             ELSE [state |-> take_memory(s, c),
                   result |-> Success(c, s.bq.element_cache[s.bq.consumers[c].element_offset + 1])]
BY DEF take, take_file, take_memory, set_consumer, step_file, step_memory, step_popped,
       Success, Failure, Here

LEMMA StepFields ==
  ASSUME NEW cc \in ConsumerStates
  PROVE  /\ step_file(cc) \in ConsumerStates /\ step_popped(step_file(cc)) \in ConsumerStates
         /\ step_memory(cc) \in ConsumerStates /\ step_popped(step_memory(cc)) \in ConsumerStates
<1>1. /\ cc.file_offset + 1 \in Nat /\ cc.element_offset + 1 \in Nat /\ cc.nelements_popped + 1 \in Nat
  BY ConsumerFields
<1>2. step_file(cc) \in ConsumerStates /\ step_memory(cc) \in ConsumerStates
  BY <1>1 DEF step_file, step_memory, ConsumerStates
<1>3. \A x \in ConsumerStates : step_popped(x) \in ConsumerStates
  <2> TAKE x \in ConsumerStates
  <2>1. x.nelements_popped + 1 \in Nat
    BY ConsumerFields
  <2>2. QED
    BY <2>1 DEF step_popped, ConsumerStates
<1>4. QED
  BY <1>2, <1>3

IsStepFile(cc, m) ==
  /\ m.current_pop_queue = cc.current_pop_queue /\ m.element_offset = cc.element_offset
  /\ m.file_offset = cc.file_offset + 1 /\ m.nelements_popped = cc.nelements_popped + 1
IsStepMemory(cc, m) ==
  /\ m.current_pop_queue = cc.current_pop_queue /\ m.element_offset = cc.element_offset + 1
  /\ m.file_offset = cc.file_offset /\ m.nelements_popped = cc.nelements_popped + 1

LEMMA StepValues ==
  ASSUME NEW cc \in ConsumerStates
  PROVE  IsStepFile(cc, step_popped(step_file(cc))) /\ IsStepMemory(cc, step_popped(step_memory(cc)))
<1>1. IsStepFile(cc, step_popped(step_file(cc)))
  BY DEF IsStepFile, step_popped, step_file, ConsumerStates
<1>2. IsStepMemory(cc, step_popped(step_memory(cc)))
  BY DEF IsStepMemory, step_popped, step_memory, ConsumerStates
<1>3. QED
  BY <1>1, <1>2

\* A consumer that has moved only inside its file, or inside memory.
LEMMA MovesInPlace ==
  ASSUME NEW s, NEW at \in [Nat -> Nat], Good(s, at), NEW c \in Live(s), NEW m \in ConsumerStates,
         m.current_pop_queue = s.bq.consumers[c].current_pop_queue,
         m.nelements_popped = s.bq.consumers[c].nelements_popped + 1,
         NEW t, OnlyMoves(s, t, c, m), Stands(t, at, c)
  PROVE  Good(t, at) /\ Popped(s, t, c) /\ FilesKept(s, t)
<1>1. Typed(s) /\ Stored(s, at) /\ Placed(s, at) /\ Named(s) /\ Used(s) /\ Counted(s)
  BY DEF Good
<1>2. /\ Typed(t) /\ Stored(t, at) /\ Placed(t, at) /\ Named(t) /\ Counted(t)
      /\ Live(t) = Live(s) /\ t.bq.consumers[c] = m
      /\ \A d \in Live(s) : d # c => t.bq.consumers[d] = s.bq.consumers[d]
  BY <1>1, MovesStep
<1>3. \A d \in Live(s) : t.bq.consumers[d].current_pop_queue = s.bq.consumers[d].current_pop_queue
  BY <1>2
<1>4. SameFiles(s, t) /\ t.bq.nelements_pushed = s.bq.nelements_pushed
  BY DEF OnlyMoves
<1>5. Used(t)
  BY <1>1, <1>2, <1>3, <1>4 DEF Used, ReaderAt, SameFiles
<1>6. Popped(s, t, c) /\ FilesKept(s, t)
  BY <1>1, <1>2, <1>4, SameFilesKept DEF Popped
<1>7. QED
  BY <1>2, <1>5, <1>6 DEF Good

LEMMA TakeFromFile ==
  ASSUME NEW s, NEW at \in [Nat -> Nat], Good(s, at), NEW c \in Live(s),
         ~ reading_from_push_queue(s, c), ~ at_end_of_pop_queue(s, c),
         NEW t, t = take_file(s, c)
  PROVE  /\ Good(t, at) /\ Popped(s, t, c) /\ FilesKept(s, t)
         /\ s.bq.consumers[c].nelements_popped < s.bq.nelements_pushed
         /\ s.disk[PopQueue(s, Here(s, c)).file_name][s.bq.consumers[c].file_offset + 1] =
              s.bq.consumers[c].nelements_popped + 1
<1>1. Typed(s) /\ Stored(s, at) /\ Placed(s, at) /\ Named(s) /\ Used(s) /\ Counted(s)
  BY DEF Good
<1>2. Stands(s, at, c) /\ Shape(s)
  BY <1>1 DEF Placed, Typed
<1>3. PICK q : q = Here(s, c) /\ q \in s.bq.released + 1 .. Back(s)
  BY <1>1, <1>2, StandsInQueue DEF Here
<1>4. PICK a \in Nat, b \in Nat : /\ a = at[q] /\ b = at[q + 1] /\ PopQueue(s, q).file_length = b - a
                                  /\ q # NULL
  BY <1>1, <1>3, NextQueue
<1>5. PICK cc \in ConsumerStates, fo \in Nat, np \in Nat :
        cc = s.bq.consumers[c] /\ fo = cc.file_offset /\ np = cc.nelements_popped
  BY <1>1, ConsumerTyped
<1>6. cc.element_offset = 0 /\ a + fo <= b /\ np = a + fo /\ cc.current_pop_queue = q
  BY <1>2, <1>3, <1>4, <1>5 DEF Stands, Here
<1>7. ~ (fo >= b - a)
  BY <1>3, <1>4, <1>5, <1>6 DEF at_end_of_pop_queue
<1>8. a + (fo + 1) <= b /\ np + 1 = a + (fo + 1) /\ fo + 1 \in 1 .. b - a /\ a <= b /\ np < b
  <2>1. a + fo <= b /\ np = a + fo
    BY <1>6
  <2>2. QED
    BY <1>7, <2>1
<1>9. PICK m \in ConsumerStates : m = step_popped(step_file(cc)) /\ IsStepFile(cc, m)
  BY StepFields, StepValues
<1>10. OnlyMoves(s, t, c, m)
  <2>1. PICK u : u = set_consumer(s, c, step_file(cc))
    OBVIOUS
  <2>2. OnlyMoves(s, u, c, step_file(cc))
    BY <1>2, <2>1, SetConsumerFields
  <2>3. PICK cs \in [Live(s) -> ConsumerStates] : cs = s.bq.consumers
    BY <1>1 DEF Typed
  <2>4. u.bq.consumers = [cs EXCEPT ![c] = step_file(cc)] /\ Shape(u)
    BY <2>2, <2>3 DEF OnlyMoves
  <2>5. u.bq.consumers[c] = step_file(cc) /\ Live(u) = Live(s)
    BY <2>3, <2>4 DEF Live
  <2>6. t = set_consumer(u, c, m)
    BY <1>5, <1>9, <2>1, <2>5 DEF take_file
  <2>7. OnlyMoves(u, t, c, m)
    BY <2>4, <2>5, <2>6, SetConsumerFields
  <2>8. QED
    BY <2>2, <2>7, MovesTwice
<1>11. SameFiles(s, t) /\ t.bq.consumers[c] = m
  <2>1. PICK cs \in [Live(s) -> ConsumerStates] : cs = s.bq.consumers
    BY <1>1 DEF Typed
  <2>2. QED
    BY <1>10, <2>1 DEF OnlyMoves
<1>12. Back(t) = Back(s) /\ t.bq.released = s.bq.released
  BY <1>11, FilesStay DEF SameFiles
<1>13. m.current_pop_queue = q /\ m.element_offset = 0 /\ m.file_offset = fo + 1 /\ m.nelements_popped = np + 1
  BY <1>5, <1>6, <1>9 DEF IsStepFile
<1>14. Stands(t, at, c)
  BY <1>3, <1>4, <1>8, <1>11, <1>12, <1>13 DEF Stands
<1>15. Good(t, at) /\ Popped(s, t, c) /\ FilesKept(s, t)
  BY <1>5, <1>6, <1>10, <1>13, <1>14, MovesInPlace
<1>16. s.disk[PopQueue(s, q).file_name] = Interval(a, b)
  BY <1>1, <1>3, <1>4 DEF Stored, InPopQueues, Holds
<1>17. Interval(a, b)[fo + 1] = np + 1
  <2>1. Interval(a, b)[fo + 1] = a + (fo + 1)
    BY <1>8, IntervalIsSeq
  <2>2. QED
    BY <1>8, <2>1
<1>18. np < s.bq.nelements_pushed
  <2>1. PICK r \in Nat, z \in Nat, p \in Nat : r = s.bq.released /\ z = Back(s) /\ p = s.bq.nelements_pushed
    BY <1>1, QueueTyped, ZenonT(60) DEF Typed
  <2>2. q + 1 \in r + 1 .. z + 1
    BY <1>3, <2>1
  <2>3. b <= p
    BY <1>1, <1>4, <2>1, <2>2, AtIsPushed
  <2>4. np < p
    BY <1>8, <2>3
  <2>5. QED
    BY <2>1, <2>4
<1>19. QED
  BY <1>3, <1>5, <1>15, <1>16, <1>17, <1>18

\* The minimum depends on the offsets alone.
LEMMA SameMinimum ==
  ASSUME NEW s, NEW t, Live(t) = Live(s),
         \A d \in Live(s) : t.bq.consumers[d].element_offset = s.bq.consumers[d].element_offset
  PROVE  min_element_offset(t) = min_element_offset(s)
<1>1. {t.bq.consumers[d].element_offset : d \in Live(t)} = {s.bq.consumers[d].element_offset : d \in Live(s)}
  OBVIOUS
<1>2. QED
  BY <1>1 DEF min_element_offset

\* Counting the element as popped commutes with trimming.
LEMMA PopAndTrim ==
  ASSUME NEW u, Typed(u), NEW c \in Live(u), NEW least, NEW w, Trimmed(u, w, least),
         NEW v, OnlyMoves(u, v, c, step_popped(u.bq.consumers[c])),
         NEW t, OnlyMoves(w, t, c, step_popped(w.bq.consumers[c]))
  PROVE  Trimmed(v, t, least)
<1>1. PICK cs \in [Live(u) -> ConsumerStates] : cs = u.bq.consumers
  BY DEF Typed
<1>2. /\ w.bq.consumers = [d \in Live(u) |-> [cs[d] EXCEPT !.element_offset = cs[d].element_offset - least]]
      /\ v.bq.consumers = [cs EXCEPT ![c] = step_popped(cs[c])]
      /\ t.bq.consumers = [w.bq.consumers EXCEPT ![c] = step_popped(w.bq.consumers[c])]
  BY <1>1 DEF Trimmed, OnlyMoves
<1>3. Live(w) = Live(u) /\ Live(v) = Live(u) /\ Live(t) = Live(u)
  BY <1>1, <1>2 DEF Live
<1>4. ASSUME NEW d \in Live(u)
      PROVE  t.bq.consumers[d] = [v.bq.consumers[d] EXCEPT !.element_offset = v.bq.consumers[d].element_offset - least]
  <2>1. PICK cd \in ConsumerStates : cd = cs[d]
    BY <1>1
  <2>2. CASE d # c
    BY <1>1, <1>2, <2>2
  <2>3. CASE d = c
    <3>1. /\ v.bq.consumers[d] = step_popped(cd)
          /\ t.bq.consumers[d] = step_popped([cd EXCEPT !.element_offset = cd.element_offset - least])
      BY <1>1, <1>2, <2>1, <2>3
    <3>2. step_popped([cd EXCEPT !.element_offset = cd.element_offset - least])
            = [step_popped(cd) EXCEPT !.element_offset = step_popped(cd).element_offset - least]
      BY DEF step_popped, ConsumerStates
    <3>3. QED
      BY <3>1, <3>2
  <2>4. QED
    BY <2>2, <2>3
<1>5. t.bq.consumers = [d \in Live(u) |-> t.bq.consumers[d]]
  BY <1>2
<1>6. t.bq.consumers = [d \in Live(v) |->
        [v.bq.consumers[d] EXCEPT !.element_offset = v.bq.consumers[d].element_offset - least]]
  BY <1>3, <1>4, <1>5
<1>7. Shape(t) /\ SameFiles(v, t) /\ t.bq.nelements_pushed = v.bq.nelements_pushed
  BY DEF Trimmed, OnlyMoves, SameFiles
<1>8. t.bq.nelements = v.bq.nelements - least /\ t.bq.element_cache = DropFirst(v.bq.element_cache, least)
  BY DEF Trimmed, OnlyMoves
<1>9. QED
  BY <1>6, <1>7, <1>8 DEF Trimmed

\* A trimmed queue is as good as it was.
LEMMA TrimmedIsGood ==
  ASSUME NEW s, NEW at \in [Nat -> Nat], Good(s, at), Live(s) # {}, AllReadPushQueue(s),
         NEW t, Trimmed(s, t, min_element_offset(s))
  PROVE  (\E at2 \in [Nat -> Nat] : Good(t, at2)) /\ SamePops(s, t) /\ FilesKept(s, t)
<1>1. Typed(s) /\ Stored(s, at) /\ Placed(s, at) /\ Named(s) /\ Used(s) /\ Counted(s)
  BY DEF Good
<1>2. s.bq.write_handle = FALSE
  BY <1>1, NoFilesUsed
<1>3. CountsMemory(s)
  BY <1>1, <1>2 DEF Counted, CountsMemory
<1>4. Typed(t) /\ Named(t) /\ Used(t) /\ SameFiles(s, t) /\ SamePops(s, t)
  BY <1>1, <1>3, TrimmedStep
<1>5. PICK at2 \in [Nat -> Nat] : Stored(t, at2) /\ Placed(t, at2)
  BY <1>1, <1>3, TrimmedStep
<1>6. PICK m \in Nat : /\ Len(s.bq.element_cache) = Len(t.bq.element_cache) + m
                       /\ s.bq.nelements = t.bq.nelements + m
  BY <1>1, <1>3, TrimmedStep
<1>7. PICK l \in Nat, n \in Nat, l2 \in Nat, n2 \in Nat, k \in Nat :
        /\ l = Len(s.bq.element_cache) /\ n = s.bq.nelements /\ k = m_cache_limit
        /\ l2 = Len(t.bq.element_cache) /\ n2 = t.bq.nelements
  BY <1>1, <1>4, QueueTyped, LimitIsPositive DEF Typed
<1>8. l < 2 * k /\ l <= n /\ n <= l + k /\ l = l2 + m /\ n = n2 + m
  BY <1>1, <1>2, <1>6, <1>7 DEF Counted
<1>9. l2 < 2 * k /\ l2 <= n2 /\ n2 <= l2 + k
  BY <1>8
<1>10. Counted(t)
  BY <1>7, <1>9 DEF Counted
<1>11. FilesKept(s, t)
  BY <1>1, <1>4, SameFilesKept
<1>12. QED
  BY <1>4, <1>5, <1>10, <1>11 DEF Good

\* The position after e elements of a memory queue of l elements.
BelowTheEnd(l, p, o, e, np) ==
  e + 1 <= l /\ np + 1 = o + (e + 1) /\ np < p /\ e + 1 \in 1 .. p - o

LEMMA NextIsInside ==
  ASSUME NEW l \in Nat, NEW p \in Nat, NEW o \in Nat, NEW e \in Nat, NEW np \in Nat,
         ~ (l <= e), l = p - o, o <= p, np = o + e
  PROVE  BelowTheEnd(l, p, o, e, np)
BY DEF BelowTheEnd

LEMMA TakeFromMemory ==
  ASSUME NEW s, NEW at \in [Nat -> Nat], Good(s, at), NEW c \in Live(s),
         reading_from_push_queue(s, c),
         ~ (Len(s.bq.element_cache) <= s.bq.consumers[c].element_offset),
         NEW t, t = take_memory(s, c)
  PROVE  /\ (\E at2 \in [Nat -> Nat] : Good(t, at2)) /\ Popped(s, t, c) /\ FilesKept(s, t)
         /\ s.bq.consumers[c].nelements_popped < s.bq.nelements_pushed
         /\ s.bq.element_cache[s.bq.consumers[c].element_offset + 1] =
              s.bq.consumers[c].nelements_popped + 1
<1>1. Typed(s) /\ Stored(s, at) /\ Placed(s, at) /\ Named(s) /\ Used(s) /\ Counted(s)
  BY DEF Good
<1>2. Stands(s, at, c) /\ Shape(s)
  BY <1>1 DEF Placed, Typed
<1>3. PICK l \in Nat, p \in Nat, o \in Nat :
        /\ l = Len(s.bq.element_cache) /\ p = s.bq.nelements_pushed /\ o = Out(s)
        /\ l = p - o /\ o <= p
  BY <1>1, MemoryLength, QueueTyped DEF Stored
<1>4. PICK cc \in ConsumerStates, e \in Nat, np \in Nat :
        /\ cc = s.bq.consumers[c] /\ e = cc.element_offset /\ np = cc.nelements_popped
        /\ e <= l /\ np = o + e /\ cc.current_pop_queue = NULL
  <2>1. PICK e \in Nat : /\ e = s.bq.consumers[c].element_offset /\ e <= Len(s.bq.element_cache)
                         /\ s.bq.consumers[c].nelements_popped = Out(s) + e
    BY <1>1, <1>2, StandsInMemory
  <2>2. QED
    BY <1>1, <1>3, <2>1, ConsumerTyped DEF reading_from_push_queue
<1>5. e + 1 <= l /\ np + 1 = o + (e + 1) /\ np < p /\ e + 1 \in 1 .. p - o
  <2>1. ~ (l <= e)
    BY <1>3, <1>4
  <2>2. BelowTheEnd(l, p, o, e, np)
    BY <1>3, <1>4, <2>1, NextIsInside, Zenon
  <2>3. QED
    BY <2>2, Zenon DEF BelowTheEnd
<1>6. s.bq.element_cache[e + 1] = np + 1
  <2>1. s.bq.element_cache = Interval(o, p)
    BY <1>1, <1>3 DEF Stored, InMemory
  <2>2. Interval(o, p)[e + 1] = o + (e + 1)
    BY <1>3, <1>5, IntervalIsSeq
  <2>3. QED
    BY <1>5, <2>1, <2>2
<1>7. PICK m \in ConsumerStates, m1 \in ConsumerStates :
        m1 = step_memory(cc) /\ m = step_popped(m1) /\ IsStepMemory(cc, m)
  BY StepFields, StepValues
<1>8. /\ m.current_pop_queue = NULL /\ m.element_offset = e + 1 /\ m.nelements_popped = np + 1
      /\ m1.current_pop_queue = NULL /\ m1.element_offset = e + 1
  <2>1. m.current_pop_queue = NULL /\ m.element_offset = e + 1 /\ m.nelements_popped = np + 1
    BY <1>4, <1>7 DEF IsStepMemory
  <2>2. m1.current_pop_queue = NULL /\ m1.element_offset = e + 1
    BY <1>4, <1>7 DEF step_memory, ConsumerStates
  <2>3. QED
    BY <2>1, <2>2
<1>9. PICK u, v, w : /\ u = set_consumer(s, c, m1) /\ v = set_consumer(s, c, m)
                     /\ w = trim_push_queue(u)
  OBVIOUS
<1>10. OnlyMoves(s, u, c, m1) /\ OnlyMoves(s, v, c, m)
  BY <1>2, <1>9, SetConsumerFields
<1>11. PICK cs \in [Live(s) -> ConsumerStates] : cs = s.bq.consumers
  BY <1>1 DEF Typed
<1>12. u.bq.consumers = [cs EXCEPT ![c] = m1] /\ v.bq.consumers = [cs EXCEPT ![c] = m]
  BY <1>10, <1>11 DEF OnlyMoves
<1>13. /\ u.bq.consumers \in [Live(s) -> ConsumerStates] /\ v.bq.consumers \in [Live(s) -> ConsumerStates]
       /\ u.bq.consumers[c] = m1 /\ v.bq.consumers[c] = m
       /\ \A d \in Live(s) : d # c => u.bq.consumers[d] = cs[d] /\ v.bq.consumers[d] = cs[d]
  BY <1>11, <1>12
<1>14. Live(u) = Live(s) /\ Live(v) = Live(s)
  BY <1>13 DEF Live
<1>15. /\ SameFiles(s, v) /\ v.bq.element_cache = s.bq.element_cache
       /\ v.bq.nelements_pushed = s.bq.nelements_pushed
  BY <1>10 DEF OnlyMoves
<1>16. Stands(v, at, c)
  <2>1. Out(v) = o
    BY <1>3, <1>15 DEF Out
  <2>2. QED
    BY <1>3, <1>5, <1>8, <1>13, <1>15, <2>1 DEF Stands
<1>17. Good(v, at) /\ Popped(s, v, c) /\ FilesKept(s, v)
  BY <1>4, <1>8, <1>10, <1>16, MovesInPlace
<1>18. Typed(u)
  <2>1. /\ Shape(u) /\ SameFiles(s, u) /\ u.bq.element_cache = s.bq.element_cache
        /\ u.bq.nelements = s.bq.nelements /\ u.bq.nelements_pushed = s.bq.nelements_pushed
    BY <1>10 DEF OnlyMoves
  <2>2. u.bq.consumers \in [Live(u) -> ConsumerStates] /\ Live(u) \in {Consumers, {}}
    BY <1>1, <1>13, <1>14 DEF Typed
  <2>3. QED
    BY <1>1, <2>1, <2>2 DEF Typed, SameFiles
<1>19. t = set_consumer(w, c, step_popped(w.bq.consumers[c]))
  BY <1>4, <1>7, <1>9 DEF take_memory
<1>20. OnlyMoves(u, v, c, m)
  <2>1. v.bq.consumers = [u.bq.consumers EXCEPT ![c] = m]
    BY <1>11, <1>12
  <2>2. QED
    BY <1>10, <2>1 DEF OnlyMoves, SameFiles
<1>21. CASE ~ AllReadPushQueue(u)
  <2>1. w = u
    BY <1>9, <1>21 DEF trim_push_queue, AllReadPushQueue
  <2>2. t = set_consumer(u, c, m)
    BY <1>7, <1>13, <1>19, <2>1
  <2>3. OnlyMoves(u, t, c, m)
    BY <1>14, <1>18, <2>2, SetConsumerFields DEF Typed
  <2>4. OnlyMoves(s, t, c, m)
    BY <1>10, <2>3, MovesTwice
  <2>5. Stands(t, at, c)
    <3>1. t.bq.consumers[c] = m /\ t.bq.element_cache = s.bq.element_cache
          /\ t.bq.nelements_pushed = s.bq.nelements_pushed
      BY <1>11, <2>4 DEF OnlyMoves
    <3>2. Out(t) = o
      BY <1>3, <3>1 DEF Out
    <3>3. QED
      BY <1>3, <1>5, <1>8, <3>1, <3>2 DEF Stands
  <2>6. Good(t, at) /\ Popped(s, t, c) /\ FilesKept(s, t)
    BY <1>4, <1>8, <2>4, <2>5, MovesInPlace
  <2>7. QED
    BY <1>3, <1>4, <1>5, <1>6, <2>6
<1>22. CASE AllReadPushQueue(u)
  <2>1. PICK least : least = min_element_offset(u)
    OBVIOUS
  <2>2. Trimmed(u, w, least)
    BY <1>9, <1>18, <1>22, <2>1, TrimFields
  <2>3. Live(w) = Live(s) /\ Shape(w)
    BY <1>14, <2>2 DEF Trimmed, Live
  <2>4. OnlyMoves(w, t, c, step_popped(w.bq.consumers[c]))
    BY <1>19, <2>3, SetConsumerFields
  <2>5. m = step_popped(u.bq.consumers[c])
    BY <1>7, <1>13
  <2>6. Trimmed(v, t, least)
    BY <1>14, <1>18, <1>20, <2>2, <2>4, <2>5, PopAndTrim
  <2>7. least = min_element_offset(v)
    <3>1. \A d \in Live(u) : v.bq.consumers[d].element_offset = u.bq.consumers[d].element_offset
      BY <1>8, <1>13, <1>14
    <3>2. QED
      BY <1>14, <2>1, <3>1, SameMinimum
  <2>8. AllReadPushQueue(v)
    BY <1>8, <1>13, <1>14, <1>22 DEF AllReadPushQueue, reading_from_push_queue
  <2>9. Trimmed(v, t, min_element_offset(v)) /\ Live(v) # {}
    BY <1>14, <2>6, <2>7
  <2>10. (\E at2 \in [Nat -> Nat] : Good(t, at2)) /\ SamePops(v, t) /\ FilesKept(v, t)
    BY <1>17, <2>8, <2>9, TrimmedIsGood
  <2>13. FilesKept(s, t)
    BY <1>1, <1>17, <2>10, KeptIsTransitive DEF Good
  <2>11. Popped(s, t, c)
    BY <1>17, <2>10, ZenonT(60) DEF Popped, SamePops
  <2>12. QED
    BY <1>3, <1>4, <1>5, <1>6, <2>10, <2>11, <2>13
<1>23. QED
  BY <1>21, <1>22

\* What pop() does: it returns the next element and counts it, or fails when
\* empty() holds.
PopsNext(s, p, c) ==
  /\ Popped(s, p.state, c) /\ s.bq.consumers[c].nelements_popped < s.bq.nelements_pushed
  /\ p.result = Success(c, s.bq.consumers[c].nelements_popped + 1)
PopFails(s, p, c) ==
  /\ SamePops(s, p.state) /\ s.bq.consumers[c].nelements_popped = s.bq.nelements_pushed
  /\ p.result = Failure(c)

LEMMA TakeStep ==
  ASSUME NEW s, NEW at \in [Nat -> Nat], Good(s, at), NEW c \in Live(s), ~ at_end_of_pop_queue(s, c),
         NEW p, p = take(s, c)
  PROVE  /\ (\E at2 \in [Nat -> Nat] : Good(p.state, at2)) /\ FilesKept(s, p.state)
         /\ PopsNext(s, p, c) \/ PopFails(s, p, c)
<1>1. CASE ~ reading_from_push_queue(s, c)
  <2>1. /\ p.state = take_file(s, c)
        /\ p.result = Success(c, s.disk[PopQueue(s, Here(s, c)).file_name]
                                        [s.bq.consumers[c].file_offset + 1])
    BY <1>1, TakeCases, SMTT(60)
  <2>2. /\ Good(p.state, at) /\ Popped(s, p.state, c) /\ FilesKept(s, p.state)
        /\ s.bq.consumers[c].nelements_popped < s.bq.nelements_pushed
        /\ s.disk[PopQueue(s, Here(s, c)).file_name][s.bq.consumers[c].file_offset + 1] =
             s.bq.consumers[c].nelements_popped + 1
    BY <1>1, <2>1, TakeFromFile
  <2>3. QED
    BY <2>1, <2>2 DEF PopsNext
<1>2. CASE reading_from_push_queue(s, c) /\ Len(s.bq.element_cache) <= s.bq.consumers[c].element_offset
  <2>1. p.state = s /\ p.result = Failure(c)
    BY <1>2, TakeCases
  <2>2. Typed(s) /\ Stored(s, at) /\ Stands(s, at, c)
    BY DEF Good, Placed
  <2>3. PICK e \in Nat : /\ e = s.bq.consumers[c].element_offset /\ e <= Len(s.bq.element_cache)
                         /\ s.bq.consumers[c].nelements_popped = Out(s) + e
    BY <1>2, <2>2, StandsInMemory
  <2>4. PICK l \in Nat : l = Len(s.bq.element_cache) /\ s.bq.nelements_pushed = Out(s) + l
    BY <2>2, MemoryLength, QueueTyped DEF Stored
  <2>5. e <= l /\ l <= e
    BY <1>2, <2>3, <2>4
  <2>6. e = l
    BY <2>5
  <2>7. s.bq.consumers[c].nelements_popped = s.bq.nelements_pushed
    BY <2>3, <2>4, <2>6
  <2>8. FilesKept(s, p.state)
    BY <2>1, SameFilesKept DEF SameFiles, Good
  <2>9. QED
    BY <2>1, <2>7, <2>8 DEF PopFails, SamePops
<1>3. CASE reading_from_push_queue(s, c) /\ ~ (Len(s.bq.element_cache) <= s.bq.consumers[c].element_offset)
  <2>1. /\ p.state = take_memory(s, c)
        /\ p.result = Success(c, s.bq.element_cache[s.bq.consumers[c].element_offset + 1])
    BY <1>3, TakeCases
  <2>2. /\ (\E at2 \in [Nat -> Nat] : Good(p.state, at2)) /\ Popped(s, p.state, c)
        /\ FilesKept(s, p.state)
        /\ s.bq.consumers[c].nelements_popped < s.bq.nelements_pushed
        /\ s.bq.element_cache[s.bq.consumers[c].element_offset + 1] =
             s.bq.consumers[c].nelements_popped + 1
    BY <1>3, <2>1, TakeFromMemory
  <2>3. QED
    BY <2>1, <2>2 DEF PopsNext
<1>4. QED
  BY <1>1, <1>2, <1>3

LEMMA PopStep ==
  ASSUME NEW s, NEW at \in [Nat -> Nat], Good(s, at), NEW c \in Live(s), NEW p, p = pop(s, c)
  PROVE  /\ (\E at2 \in [Nat -> Nat] : Good(p.state, at2)) /\ FilesKept(s, p.state)
         /\ PopsNext(s, p, c) \/ PopFails(s, p, c)
<1>1. PICK u : u = settle(s, c)
  OBVIOUS
<1>2. PICK at2 \in [Nat -> Nat] : Good(u, at2)
  BY <1>1, SettleStep
<1>3. SamePops(s, u) /\ ~ at_end_of_pop_queue(u, c) /\ FilesKept(s, u)
  BY <1>1, SettleStep
<1>4. p = take(u, c) /\ c \in Live(u)
  BY <1>1, <1>3 DEF pop, SamePops
<1>5. /\ (\E at3 \in [Nat -> Nat] : Good(p.state, at3)) /\ FilesKept(u, p.state)
      /\ PopsNext(u, p, c) \/ PopFails(u, p, c)
  BY <1>2, <1>3, <1>4, TakeStep
<1>9. FilesKept(s, p.state)
  BY <1>2, <1>3, <1>5, KeptIsTransitive DEF Good
<1>6. PopsNext(u, p, c) => PopsNext(s, p, c)
  BY <1>3 DEF PopsNext, Popped, SamePops
<1>7. PopFails(u, p, c) => PopFails(s, p, c)
  BY <1>3 DEF PopFails, SamePops
<1>8. QED
  BY <1>5, <1>6, <1>7, <1>9

-----------------------------------------------------------------------------
(* reset()                                                                 *)

\* What is left: no file, no consumer, the memory queue and the counts.
Cleared(s, t) ==
  /\ Shape(t) /\ t.disk = DeletePaths(s.disk, DOMAIN s.disk)
  /\ t.bq.element_cache = s.bq.element_cache /\ t.bq.nelements = s.bq.nelements
  /\ t.bq.nelements_pushed = s.bq.nelements_pushed /\ t.bq.temp_ids = s.bq.temp_ids
  /\ t.bq.consumers = [c \in {} |-> NewConsumer] /\ t.bq.pop_queues = <<>>
  /\ t.bq.released = s.bq.released + Len(s.bq.pop_queues)
  /\ t.bq.write_handle = FALSE /\ t.bq.file_name = NoFile /\ t.bq.allocated_filenames = <<>>

LEMMA ResetFields ==
  ASSUME NEW s, Typed(s), Named(s), NEW t, t = reset(s)
  PROVE  Cleared(s, t)
<1>1. Shape(s) /\ s.bq.write_handle \in BOOLEAN
  BY DEF Typed
<1>2. PICK b, names :
        /\ b = [s.bq EXCEPT !.consumers = [c \in {} |-> NewConsumer],
                            !.pop_queues = <<>>,
                            !.released = s.bq.released + Len(s.bq.pop_queues),
                            !.write_handle = FALSE,
                            !.file_name = NoFile,
                            !.allocated_filenames = <<>>]
        /\ names = PopNames(s) \cup PoolNames(s) \cup ({s.bq.file_name} \ {NoFile})
  OBVIOUS
<1>3. t = [bq |-> b, disk |-> DeletePaths(s.disk, names)]
  BY <1>2 DEF reset, clear, PopNames, PoolNames
<1>4. DOMAIN s.disk \subseteq names
  <2>1. DOMAIN s.disk = PoolNames(s) \cup PopNames(s) \cup PushNames(s)
        /\ DOMAIN s.disk \subseteq 1 .. s.bq.temp_ids
    BY DEF Named
  <2>2. 0 \notin 1 .. s.bq.temp_ids
    <3>1. PICK k \in Nat : k = s.bq.temp_ids
      BY DEF Typed
    <3>2. 0 \notin 1 .. k
      OBVIOUS
    <3>3. QED
      BY <3>1, <3>2
  <2>3. PushNames(s) \subseteq {s.bq.file_name} \ {NoFile}
    BY <2>1, <2>2 DEF PushNames, NoFile
  <2>4. QED
    BY <1>2, <2>1, <2>3
<1>5. DeletePaths(s.disk, names) = DeletePaths(s.disk, DOMAIN s.disk)
  <2>1. DOMAIN s.disk \ names = DOMAIN s.disk \ DOMAIN s.disk
    BY <1>4
  <2>2. QED
    BY <2>1 DEF DeletePaths
<1>6. t.bq = b /\ t.disk = DeletePaths(s.disk, DOMAIN s.disk) /\ DOMAIN t = {"bq", "disk"} /\ IsFcn(t)
  BY <1>3, <1>5 DEF IsFcn
<1>7. DOMAIN b = Fields /\ IsFcn(b)
  BY <1>1, <1>2 DEF Shape, IsFcn
<1>8. /\ b.element_cache = s.bq.element_cache /\ b.nelements = s.bq.nelements
      /\ b.nelements_pushed = s.bq.nelements_pushed /\ b.temp_ids = s.bq.temp_ids
  BY <1>1, <1>2 DEF Shape, IsFcn, Fields
<1>9. b.consumers = [c \in {} |-> NewConsumer] /\ b.pop_queues = <<>> /\ b.allocated_filenames = <<>>
  BY <1>1, <1>2 DEF Shape, IsFcn, Fields
<1>10. b.released = s.bq.released + Len(s.bq.pop_queues) /\ b.write_handle = FALSE /\ b.file_name = NoFile
  BY <1>1, <1>2 DEF Shape, IsFcn, Fields
<1>11. QED
  BY <1>6, <1>7, <1>8, <1>9, <1>10 DEF Cleared, Shape

LEMMA ResetStep ==
  ASSUME NEW s, NEW at \in [Nat -> Nat], Good(s, at), NEW t, t = reset(s)
  PROVE  /\ \E at2 \in [Nat -> Nat] : Good(t, at2)
         /\ Live(t) = {} /\ t.bq.nelements_pushed = s.bq.nelements_pushed
         /\ FilesKept(s, t)
<1>1. Typed(s) /\ Stored(s, at) /\ Placed(s, at) /\ Named(s) /\ Used(s) /\ Counted(s)
  BY DEF Good
<1>2. Cleared(s, t)
  BY <1>1, ResetFields
<1>3. PICK r \in Nat, n \in Nat, b \in Nat, o \in Nat :
        r = s.bq.released /\ n = Len(s.bq.pop_queues) /\ b = Back(s) /\ b = r + n /\ o = Out(s)
  BY <1>1, QueueTyped, MemoryLength DEF Stored
<1>4. Live(t) = {} /\ Out(t) = o /\ t.bq.nelements_pushed = s.bq.nelements_pushed
  BY <1>2, <1>3 DEF Cleared, Live, Out
<1>5. Len(<<>>) = 0 /\ DOMAIN <<>> = {} /\ <<>> \in Seq(Nat) /\ <<>> \in Seq(PopQueues)
  <2>1. Len(<<>>) = 0 /\ <<>> \in Seq(Nat) /\ <<>> \in Seq(PopQueues)
    BY EmptySeq
  <2>2. DOMAIN <<>> = {}
    BY <2>1
  <2>3. QED
    BY <2>1, <2>2
<1>6. Back(t) = b /\ t.bq.released = b
  <2>1. t.bq.released = b /\ t.bq.pop_queues = <<>>
    BY <1>2, <1>3 DEF Cleared
  <2>2. Back(t) = b + 0
    BY <1>5, <2>1 DEF Back
  <2>3. b + 0 = b
    OBVIOUS
  <2>4. QED
    BY <2>1, <2>2, <2>3
<1>7. Typed(t)
  <2>1. t.bq.consumers \in [Live(t) -> ConsumerStates] /\ Live(t) \in {Consumers, {}}
    BY <1>2, <1>4 DEF Cleared
  <2>2. DOMAIN t.disk = {} /\ t.disk \in [DOMAIN t.disk -> Seq(Nat)]
    BY <1>2 DEF Cleared, DeletePaths
  <2>3. t.bq.pop_queues \in Seq(PopQueues) /\ t.bq.allocated_filenames \in Seq(Nat)
    BY <1>2, <1>5 DEF Cleared
  <2>4. t.bq.released \in Nat /\ t.bq.file_name \in Nat /\ t.bq.write_handle \in BOOLEAN
    <3>1. t.bq.file_name = 0 /\ t.bq.write_handle = FALSE
      BY <1>2 DEF Cleared, NoFile
    <3>2. t.bq.released \in Nat /\ t.bq.file_name \in Nat
      BY <1>6, <3>1
    <3>3. t.bq.write_handle \in BOOLEAN
      BY <3>1
    <3>4. QED
      BY <3>2, <3>3
  <2>5. QED
    BY <1>1, <1>2, <2>1, <2>2, <2>3, <2>4 DEF Typed, Cleared
<1>8. Named(t)
  <2>1. /\ t.bq.pop_queues = <<>> /\ t.bq.allocated_filenames = <<>>
        /\ t.bq.write_handle = FALSE /\ t.bq.file_name = NoFile
    BY <1>2 DEF Cleared
  <2>2. PoolNames(t) = {} /\ PopNames(t) = {} /\ PushNames(t) = {}
    BY <1>5, <2>1 DEF PoolNames, PopNames, PushNames, Elements
  <2>3. PoolIsDistinct(t) /\ PopsAreDistinct(t)
    BY <1>5, <2>1 DEF PoolIsDistinct, PopsAreDistinct
  <2>4. DOMAIN t.disk = {}
    BY <1>2 DEF Cleared, DeletePaths
  <2>5. QED
    BY <2>1, <2>2, <2>3, <2>4 DEF Named
<1>9. PICK at2 \in [Nat -> Nat] : at2 = [at EXCEPT ![b + 1] = o]
  OBVIOUS
<1>10. at2[b + 1] = o /\ b + 1 \in Nat
  <2>1. b + 1 \in Nat
    OBVIOUS
  <2>2. QED
    BY <1>9, <2>1
<1>11. InPopQueues(t, at2)
  <2>1. b + 1 .. b = {} /\ b + 1 \in r + 1 .. b + 1
    <3>1. b = r + n
      BY <1>3
    <3>2. b + 1 .. b = {}
      OBVIOUS
    <3>3. b + 1 \in r + 1 .. b + 1
      BY <3>1
    <3>4. QED
      BY <3>2, <3>3
  <2>2. PICK y \in Nat : y = at[b + 1] /\ y <= o
    BY <1>1, <1>3, <2>1, AtIsPushed
  <2>3. PICK x \in Nat : x = b * m_cache_limit
    BY LimitIsPositive
  <2>4. x <= y
    BY <1>1, <1>3, <2>2, <2>3 DEF Stored, InPopQueues
  <2>5. x <= o
    BY <2>2, <2>4
  <2>6. QED
    BY <1>6, <1>10, <2>1, <2>3, <2>5 DEF InPopQueues
<1>12. InMemory(t) /\ InPushFile(t, at2)
  <2>1. InMemory(t)
    BY <1>1, <1>2, <1>3, <1>4 DEF Cleared, InMemory, Stored
  <2>2. InPushFile(t, at2)
    BY <1>2, <1>4, <1>6, <1>10 DEF Cleared, InPushFile
  <2>3. QED
    BY <2>1, <2>2
<1>13. Placed(t, at2) /\ Counted(t) /\ Used(t)
  BY <1>1, <1>2, <1>4 DEF Placed, Counted, Used, Cleared
<1>14. FilesKept(s, t)
  <2>1. b + 1 .. b = {} /\ r <= b /\ b <= b
    <3>1. b = r + n
      BY <1>3
    <3>2. r <= b
      BY <3>1
    <3>3. b + 1 .. b = {} /\ b <= b
      OBVIOUS
    <3>4. QED
      BY <3>2, <3>3
  <2>2. QED
    BY <1>3, <1>6, <2>1 DEF FilesKept
<1>15. QED
  BY <1>4, <1>7, <1>8, <1>11, <1>12, <1>13, <1>14 DEF Good, Stored

-----------------------------------------------------------------------------
(* The specification                                                       *)

\* In a good state every element a consumer still has to read is where it will
\* look for it.
Inv == (\E at \in [Nat -> Nat] : Good(State, at)) /\ bq.nelements_pushed <= MaxPushed

LEMMA InitIsGood ==
  ASSUME Init
  PROVE  Inv
<1>1. PICK s : s = State
  OBVIOUS
<1>2. s.bq = NewQueue /\ s.disk = [f \in {} |-> <<>>] /\ DOMAIN s = {"bq", "disk"} /\ IsFcn(s)
  BY <1>1 DEF State, Init, IsFcn
<1>3. DOMAIN NewQueue = Fields /\ IsFcn(NewQueue)
  BY DEF NewQueue, Fields, IsFcn
<1>4. /\ s.bq.element_cache = <<>> /\ s.bq.nelements = 0 /\ s.bq.write_handle = FALSE
      /\ s.bq.file_name = NoFile /\ s.bq.pop_queues = <<>> /\ s.bq.released = 0
      /\ s.bq.consumers = [c \in Consumers |-> NewConsumer] /\ s.bq.nelements_pushed = 0
      /\ s.bq.allocated_filenames = <<>> /\ s.bq.temp_ids = 0
  BY <1>2 DEF NewQueue
<1>5. Len(<<>>) = 0 /\ DOMAIN <<>> = {} /\ <<>> \in Seq(Nat) /\ <<>> \in Seq(PopQueues)
  <2>1. Len(<<>>) = 0 /\ <<>> \in Seq(Nat) /\ <<>> \in Seq(PopQueues)
    BY EmptySeq
  <2>2. DOMAIN <<>> = {}
    BY <2>1
  <2>3. QED
    BY <2>1, <2>2
<1>6. NewConsumer \in ConsumerStates
  BY DEF NewConsumer, ConsumerStates, NULL
<1>7. Live(s) = Consumers /\ s.bq.consumers \in [Live(s) -> ConsumerStates]
  BY <1>4, <1>6 DEF Live
<1>8. Shape(s)
  BY <1>2, <1>3 DEF Shape
<1>9. Typed(s)
  <2>1. s.bq.element_cache \in Seq(Nat) /\ s.bq.pop_queues \in Seq(PopQueues)
        /\ s.bq.allocated_filenames \in Seq(Nat)
    BY <1>4, <1>5
  <2>2. /\ s.bq.nelements \in Nat /\ s.bq.file_name \in Nat /\ s.bq.released \in Nat
        /\ s.bq.nelements_pushed \in Nat /\ s.bq.temp_ids \in Nat
    BY <1>4 DEF NoFile
  <2>3. s.bq.write_handle \in BOOLEAN
    BY <1>4
  <2>4. s.disk \in [DOMAIN s.disk -> Seq(Nat)]
    BY <1>2
  <2>5. Live(s) \in {Consumers, {}}
    BY <1>7
  <2>6. QED
    BY <1>7, <1>8, <2>1, <2>2, <2>3, <2>4, <2>5 DEF Typed
<1>10. Back(s) = 0 /\ Out(s) = 0
  <2>1. Back(s) = 0 + 0 /\ Out(s) = 0 - 0
    BY <1>4, <1>5 DEF Back, Out
  <2>2. 0 + 0 = 0 /\ 0 - 0 = 0
    OBVIOUS
  <2>3. QED
    BY <2>1, <2>2
<1>11. PICK at \in [Nat -> Nat] : at = [n \in Nat |-> 0]
  OBVIOUS
<1>12. InMemory(s)
  <2>1. Interval(0, 0) = <<>>
    BY EmptyInterval
  <2>2. QED
    BY <1>4, <1>10, <2>1 DEF InMemory
<1>13. InPopQueues(s, at)
  <2>1. 0 + 1 .. 0 = {} /\ at[0 + 1] = 0
    BY <1>11
  <2>2. 0 * m_cache_limit <= 0
    BY LimitIsPositive
  <2>3. QED
    BY <1>4, <1>10, <2>1, <2>2 DEF InPopQueues
<1>14. InPushFile(s, at)
  BY <1>4, <1>10, <1>11 DEF InPushFile
<1>15. Placed(s, at)
  <2> SUFFICES ASSUME NEW c \in Consumers PROVE Stands(s, at, c)
    BY <1>7 DEF Placed
  <2>1. s.bq.consumers[c] = NewConsumer
    BY <1>4
  <2>2. 0 <= 0 /\ 0 = 0 + 0
    OBVIOUS
  <2>3. QED
    BY <1>4, <1>5, <1>10, <2>1, <2>2 DEF Stands, NewConsumer
<1>16. Named(s)
  <2>1. PoolNames(s) = {} /\ PopNames(s) = {} /\ PushNames(s) = {}
    BY <1>4, <1>5 DEF PoolNames, PopNames, PushNames, Elements
  <2>2. PoolIsDistinct(s) /\ PopsAreDistinct(s)
    BY <1>4, <1>5 DEF PoolIsDistinct, PopsAreDistinct
  <2>3. DOMAIN s.disk = {}
    BY <1>2
  <2>4. QED
    BY <1>4, <2>1, <2>2, <2>3 DEF Named
<1>17. Counted(s)
  BY <1>4, <1>5, LimitIsPositive DEF Counted
<1>18. Used(s)
  BY <1>4 DEF Used
<1>19. Good(s, at)
  BY <1>9, <1>12, <1>13, <1>14, <1>15, <1>16, <1>17, <1>18 DEF Good, Stored
<1>20. bq.nelements_pushed <= MaxPushed
  BY <1>1, <1>4, BroadcastQueueAssumption DEF State
<1>21. QED
  BY <1>1, <1>19, <1>20 DEF Inv

\* A state is made of the object and its files.
LEMMA IsState ==
  ASSUME NEW t, Shape(t)
  PROVE  t = [bq |-> t.bq, disk |-> t.disk]
BY DEF Shape, IsFcn

LEMMA PushIsGood ==
  ASSUME Inv, Push
  PROVE  Inv' /\ Pushed(State, State') /\ Live(State) # {} /\ FilesKept(State, State')
<1>1. PICK at \in [Nat -> Nat] : Good(State, at)
  BY DEF Inv
<1>2. PICK t : t = push(State, bq.nelements_pushed + 1) /\ bq' = t.bq /\ disk' = t.disk
  BY DEF Push
<1>3. State.bq = bq /\ Live(State) # {} /\ bq.nelements_pushed < MaxPushed
  BY DEF State, Push, InUse
<1>4. t = push(State, State.bq.nelements_pushed + 1)
  BY <1>2, <1>3
<1>5. (\E at2 \in [Nat -> Nat] : Good(t, at2)) /\ Pushed(State, t) /\ FilesKept(State, t)
  BY <1>1, <1>3, <1>4, PushStep
<1>6. State' = t
  BY <1>2, <1>5, IsState DEF State, Good, Typed
<1>7. bq'.nelements_pushed <= MaxPushed
  <2>1. PICK n \in Nat : n = bq.nelements_pushed
    BY <1>1, <1>3 DEF Good, Typed
  <2>2. bq'.nelements_pushed = n + 1
    BY <1>2, <1>3, <1>5, <2>1 DEF Pushed
  <2>3. n + 1 <= MaxPushed
    BY <1>3, <2>1, BroadcastQueueAssumption
  <2>4. QED
    BY <2>2, <2>3
<1>8. QED
  BY <1>3, <1>5, <1>6, <1>7 DEF Inv

LEMMA PopIsGood ==
  ASSUME Inv, NEW c \in Consumers, Pop(c)
  PROVE  /\ Inv' /\ c \in Live(State) /\ FilesKept(State, State')
         /\ \E p : p.state = State' /\ p.result = ret' /\ (PopsNext(State, p, c) \/ PopFails(State, p, c))
<1>1. PICK at \in [Nat -> Nat] : Good(State, at)
  BY DEF Inv
<1>2. PICK p : p = pop(State, c) /\ bq' = p.state.bq /\ disk' = p.state.disk /\ ret' = p.result
  BY DEF Pop
<1>3. State.bq = bq /\ c \in Live(State)
  BY DEF State, Pop
<1>4. /\ (\E at2 \in [Nat -> Nat] : Good(p.state, at2)) /\ FilesKept(State, p.state)
      /\ PopsNext(State, p, c) \/ PopFails(State, p, c)
  BY <1>1, <1>2, <1>3, PopStep
<1>5. State' = p.state
  BY <1>2, <1>4, IsState DEF State, Good, Typed
<1>6. bq'.nelements_pushed = bq.nelements_pushed
  BY <1>2, <1>3, <1>4 DEF PopsNext, PopFails, Popped, SamePops
<1>7. QED
  BY <1>2, <1>3, <1>4, <1>5, <1>6 DEF Inv

LEMMA ResetIsGood ==
  ASSUME Inv, Reset
  PROVE  Inv' /\ Live(State') = {} /\ bq'.nelements_pushed = bq.nelements_pushed
         /\ FilesKept(State, State')
<1>1. PICK at \in [Nat -> Nat] : Good(State, at)
  BY DEF Inv
<1>2. PICK t : t = reset(State) /\ bq' = t.bq /\ disk' = t.disk
  BY DEF Reset
<1>3. State.bq = bq
  BY DEF State
<1>4. /\ \E at2 \in [Nat -> Nat] : Good(t, at2)
      /\ Live(t) = {} /\ t.bq.nelements_pushed = bq.nelements_pushed /\ FilesKept(State, t)
  BY <1>1, <1>2, <1>3, ResetStep
<1>5. State' = t
  BY <1>2, <1>4, IsState DEF State, Good, Typed
<1>6. QED
  BY <1>2, <1>4, <1>5 DEF Inv

\* The inductive invariant holds in every state of the specification: the
\* elements in the files and in memory follow each other without a gap, every
\* consumer stands behind what it has popped, every file has one use, and the
\* first pop queue has a reader.
THEOREM Invariance == Spec => []Inv
<1>1. Init => Inv
  BY InitIsGood
<1>2. Inv /\ [Next]_vars => Inv'
  <2> SUFFICES ASSUME Inv, [Next]_vars PROVE Inv'
    OBVIOUS
  <2>1. CASE Push
    BY <2>1, PushIsGood
  <2>2. ASSUME NEW c \in Consumers, Pop(c) PROVE Inv'
    BY <2>2, PopIsGood
  <2>3. CASE Reset
    BY <2>3, ResetIsGood
  <2>4. CASE UNCHANGED vars
    <3>1. State' = State /\ bq' = bq
      BY <2>4 DEF vars, State
    <3>2. QED
      BY <3>1 DEF Inv
  <2>5. QED
    BY <2>1, <2>2, <2>3, <2>4 DEF Next
<1>3. QED
  BY <1>1, <1>2, PTL DEF Spec

\* TypeCorrect: the fields of the queue object keep their types, and the
\* offsets of the consumers stay inside the memory queue and the files, in
\* every schedule of push(), pop() and reset().
THEOREM TypeCorrect == Spec => []TypeOK
<1>1. ASSUME Inv PROVE TypeOK
  <2>0. PICK s : s = State
    OBVIOUS
  <2>1. PICK at \in [Nat -> Nat] : s = State /\ Good(s, at)
    BY <1>1, <2>0 DEF Inv
  <2>2. s.bq = bq /\ s.disk = disk
    BY <2>1 DEF State
  <2>3. Typed(s) /\ Stored(s, at) /\ Placed(s, at) /\ Named(s)
    BY <2>1 DEF Good
  <2>4. DOMAIN bq.consumers \in {Consumers, {}}
    BY <2>2, <2>3 DEF Typed, Live
  <2>5. bq.nelements_pushed \in 0 .. MaxPushed
    <3>1. bq.nelements_pushed \in Nat /\ bq.nelements_pushed <= MaxPushed
      BY <1>1, <2>2, <2>3 DEF Typed, Inv
    <3>2. QED
      BY <3>1, BroadcastQueueAssumption
  <2>6. bq.nelements \in Nat
    BY <2>2, <2>3 DEF Typed
  <2>7. bq.write_handle \in BOOLEAN
    BY <2>2, <2>3 DEF Typed
  <2>8. /\ Elements(bq.allocated_filenames) \subseteq FileNames /\ DOMAIN disk \subseteq FileNames
        /\ bq.write_handle => bq.file_name \in FileNames
    BY <2>2, <2>3 DEF Named, FileNames, PoolNames, PushNames
  <2>9. bq.write_handle <=> bq.file_name # NoFile
    <3>1. PICK k \in Nat : k = bq.temp_ids
      BY <2>2, <2>3 DEF Typed
    <3>2. 0 \notin 1 .. k
      OBVIOUS
    <3>3. bq.write_handle => bq.file_name # NoFile
      BY <2>8, <3>1, <3>2 DEF FileNames, NoFile
    <3>4. ~ bq.write_handle => bq.file_name = NoFile
      BY <2>2, <2>3 DEF Named
    <3>5. QED
      BY <3>3, <3>4
  <2>10. ASSUME NEW c \in DOMAIN bq.consumers, bq.consumers[c].current_pop_queue = NULL
         PROVE  bq.consumers[c].element_offset \in 0 .. Len(bq.element_cache)
    <3>1. c \in Live(s) /\ reading_from_push_queue(s, c)
      BY <2>2, <2>10 DEF Live, reading_from_push_queue
    <3>2. PICK e \in Nat : e = bq.consumers[c].element_offset /\ e <= Len(bq.element_cache)
      BY <2>2, <2>3, <3>1, StandsInMemory DEF Placed
    <3>3. PICK l \in Nat : l = Len(bq.element_cache)
      BY <2>2, <2>3, QueueTyped
    <3>4. e \in 0 .. l
      BY <3>2, <3>3
    <3>5. QED
      BY <3>2, <3>3, <3>4
  <2>11. ASSUME NEW c \in DOMAIN bq.consumers, bq.consumers[c].current_pop_queue # NULL
         PROVE  /\ bq.consumers[c].current_pop_queue \in bq.released + 1 .. Back(State)
                /\ bq.consumers[c].file_offset \in
                     0 .. PopQueue(State, bq.consumers[c].current_pop_queue).file_length
    <3>1. c \in Live(s) /\ ~ reading_from_push_queue(s, c)
      BY <2>2, <2>11 DEF Live, reading_from_push_queue
    <3>2. Stands(s, at, c)
      BY <2>3, <3>1 DEF Placed
    <3>3. PICK q : q = bq.consumers[c].current_pop_queue /\ q \in s.bq.released + 1 .. Back(s)
      BY <2>2, <2>3, <3>1, <3>2, StandsInQueue
    <3>4. PICK a \in Nat, b \in Nat : a = at[q] /\ b = at[q + 1] /\ PopQueue(s, q).file_length = b - a
      BY <2>3, <3>3, NextQueue, SMTT(60)
    <3>5. PICK fo \in Nat : fo = bq.consumers[c].file_offset
      BY <2>2, <2>3, <3>1, ConsumerTyped
    <3>6. a + fo <= b
      BY <2>2, <2>11, <3>2, <3>3, <3>4, <3>5 DEF Stands
    <3>7. fo \in 0 .. b - a
      BY <3>6
    <3>8. QED
      BY <2>1, <2>2, <3>3, <3>4, <3>5, <3>7
  <2>12. QED
    BY <2>4, <2>5, <2>6, <2>7, <2>8, <2>9, <2>10, <2>11 DEF TypeOK
<1>2. QED
  BY <1>1, Invariance, PTL

\* OpenFileCorrect: while a push file is open some consumer is still in a pop
\* queue, which is what trim_push_queue() and pop() rely on.
THEOREM OpenFileCorrect == Spec => []OpenFileHasReaderBehind
<1>1. ASSUME Inv PROVE OpenFileHasReaderBehind
  <2>0. PICK s : s = State
    OBVIOUS
  <2>1. PICK at \in [Nat -> Nat] : s = State /\ Good(s, at)
    BY <1>1, <2>0 DEF Inv
  <2>2. s.bq = bq
    BY <2>1 DEF State
  <2>3. SUFFICES ASSUME bq.write_handle
                 PROVE  \E c \in Live(s) : ~ reading_from_push_queue(s, c)
    BY <2>1, <2>2 DEF OpenFileHasReaderBehind, Live
  <2>4. PICK c \in Live(s) : s.bq.consumers[c].current_pop_queue = s.bq.released + 1
    BY <2>1, <2>2, <2>3 DEF Good, Used, ReaderAt
  <2>5. s.bq.released + 1 # NULL
    <3>1. PICK r \in Nat : r = s.bq.released
      BY <2>1 DEF Good, Typed
    <3>2. r + 1 # 0
      OBVIOUS
    <3>3. QED
      BY <3>1, <3>2 DEF NULL
  <2>6. QED
    BY <2>4, <2>5 DEF reading_from_push_queue
<1>2. QED
  BY <1>1, Invariance, PTL

\* LimitsCorrect: between two calls fewer than 2 * m_cache_limit elements are in
\* memory, and at most one pop queue has been made for every m_cache_limit
\* elements pushed: "no more than n / k files will be created even under
\* adversial schedulings".
THEOREM LimitsCorrect == Spec => []WithinLimits
<1>1. ASSUME Inv PROVE WithinLimits
  <2>0. PICK s : s = State
    OBVIOUS
  <2>1. PICK at \in [Nat -> Nat] : s = State /\ Good(s, at)
    BY <1>1, <2>0 DEF Inv
  <2>2. s.bq = bq /\ Typed(s) /\ Stored(s, at) /\ Counted(s)
    BY <2>1 DEF State, Good
  <2>3. Len(bq.element_cache) < 2 * m_cache_limit
    BY <2>2 DEF Counted
  <2>4. PICK r \in Nat, n \in Nat, b \in Nat, k \in Nat, p \in Nat :
          /\ r = bq.released /\ n = Len(bq.pop_queues) /\ b = Back(s) /\ b = r + n
          /\ k = m_cache_limit /\ p = bq.nelements_pushed
    BY <2>2, QueueTyped, LimitIsPositive DEF Typed
  <2>5. ASSUME NEW i \in DOMAIN bq.pop_queues
        PROVE  bq.pop_queues[i].file_length >= m_cache_limit
    <3>1. i \in 1 .. n
      <4>1. PICK x \in Seq(PopQueues) : x = bq.pop_queues
        BY <2>2 DEF Typed
      <4>2. DOMAIN x = 1 .. Len(x)
        OBVIOUS
      <4>3. QED
        BY <2>4, <2>5, <4>1, <4>2
    <3>2. PICK q : q \in r + 1 .. r + n /\ q - r = i /\ 0 # r + 1 /\ q + 1 # r + 1
      <4>1. PICK q \in Nat : q = r + i
        BY <3>1
      <4>2. q \in r + 1 .. r + n /\ q - r = i /\ 0 # r + 1 /\ q + 1 # r + 1
        BY <3>1, <4>1
      <4>3. QED
        BY <4>2
    <3>3. bq.pop_queues[i] = PopQueue(s, q)
      BY <2>2, <2>4, <3>2 DEF PopQueue
    <3>4. PICK x \in Nat, y \in Nat : x = at[q] /\ y = at[q + 1] /\ PopQueue(s, q).file_length = y - x
                                      /\ x + k <= y
      <4>1. q \in s.bq.released + 1 .. Back(s)
        BY <2>2, <2>4, <3>2
      <4>2. /\ at[q] \in Nat /\ at[q + 1] \in Nat /\ PopQueue(s, q).file_length = at[q + 1] - at[q]
            /\ at[q] + m_cache_limit <= at[q + 1]
        BY <2>2, <4>1, NextQueue
      <4>3. QED
        BY <2>4, <4>2
    <3>5. y - x >= k
      BY <3>4
    <3>6. QED
      BY <2>4, <3>3, <3>4, <3>5
  <2>6. b + 1 \in r + 1 .. b + 1
    <3>1. b = r + n
      BY <2>4
    <3>2. QED
      BY <3>1
  <2>7. PICK y \in Nat : y = at[b + 1] /\ y <= p
    BY <2>2, <2>4, <2>6, AtIsPushed
  <2>8. PICK x \in Nat : x = b * m_cache_limit
    BY LimitIsPositive
  <2>9. x <= y
    BY <2>2, <2>4, <2>7, <2>8 DEF Stored, InPopQueues
  <2>10. x <= p
    BY <2>7, <2>9
  <2>11. QED
    BY <2>3, <2>4, <2>5, <2>8, <2>10 DEF WithinLimits
<1>2. QED
  BY <1>1, Invariance, PTL

-----------------------------------------------------------------------------
(* Files                                                                   *)

IsOneToOne(z) == \A i, j \in DOMAIN z : z[i] = z[j] => i = j

\* A sequence without repetition has as many elements as it is long.
LEMMA CountElements ==
  ASSUME NEW z \in Seq(Nat), IsOneToOne(z)
  PROVE  Cardinality(Elements(z)) = Len(z)
<1>1. PICK n \in Nat : n = Len(z) /\ DOMAIN z = 1 .. n
  OBVIOUS
<1>2. Elements(z) = {z[i] : i \in 1 .. n}
  BY <1>1 DEF Elements
<1>3. PICK f : f = [i \in 1 .. n |-> z[i]]
  OBVIOUS
<1>4. f \in [1 .. n -> Elements(z)]
  BY <1>2, <1>3
<1>5. \A i, j \in 1 .. n : f[i] = f[j] => i = j
  BY <1>1, <1>3 DEF IsOneToOne
<1>6. \A x \in Elements(z) : \E i \in 1 .. n : f[i] = x
  BY <1>2, <1>3
<1>7. f \in Bijection(1 .. n, Elements(z))
  <2>1. DOMAIN f = 1 .. n
    BY <1>3
  <2>2. f \in Injection(1 .. n, Elements(z))
    BY <1>4, <1>5, <2>1 DEF Injection, IsInjective
  <2>3. f \in Surjection(1 .. n, Elements(z))
    BY <1>4, <1>6 DEF Surjection
  <2>4. QED
    BY <2>2, <2>3 DEF Bijection
<1>8. ExistsBijection(1 .. n, Elements(z))
  BY <1>7 DEF ExistsBijection
<1>9. Cardinality(Elements(z)) = n
  BY <1>8, FS_CountingElements
<1>10. QED
  BY <1>1, <1>9

LEMMA ConcatOneToOne ==
  ASSUME NEW x \in Seq(Nat), NEW y \in Seq(Nat), IsOneToOne(x), IsOneToOne(y),
         Elements(x) \cap Elements(y) = {}
  PROVE  x \o y \in Seq(Nat) /\ IsOneToOne(x \o y) /\ Elements(x \o y) = Elements(x) \cup Elements(y)
<1>1. PICK k \in Nat, n \in Nat : k = Len(x) /\ n = Len(y) /\ DOMAIN x = 1 .. k /\ DOMAIN y = 1 .. n
  OBVIOUS
<1>2. PICK z \in Seq(Nat) : z = x \o y
  BY ConcatProperties
<1>3. Len(z) = k + n /\ \A i \in 1 .. k + n : z[i] = IF i <= k THEN x[i] ELSE y[i - k]
  <2>1. /\ Len(z) = Len(x) + Len(y)
        /\ \A i \in 1 .. Len(x) + Len(y) : z[i] = IF i <= Len(x) THEN x[i] ELSE y[i - Len(x)]
    BY <1>2, ConcatProperties
  <2>2. QED
    BY <1>1, <2>1
<1>4. DOMAIN z = 1 .. k + n
  BY <1>3
<1>5. Elements(x) = {x[i] : i \in 1 .. k} /\ Elements(y) = {y[i] : i \in 1 .. n}
  BY <1>1 DEF Elements
<1>6. Elements(z) = {z[i] : i \in 1 .. k + n}
  BY <1>4 DEF Elements
<1>7. ASSUME NEW i \in 1 .. k PROVE i \in 1 .. k + n /\ z[i] = x[i] /\ z[i] \in Elements(x)
  <2>1. i \in 1 .. k + n /\ i <= k
    OBVIOUS
  <2>2. QED
    BY <1>3, <1>5, <2>1
<1>8. ASSUME NEW i \in 1 .. n PROVE k + i \in 1 .. k + n /\ z[k + i] = y[i]
  <2>1. k + i \in 1 .. k + n /\ ~ (k + i <= k) /\ (k + i) - k = i
    OBVIOUS
  <2>2. QED
    BY <1>3, <2>1
<1>9. ASSUME NEW i \in 1 .. k + n, ~ (i <= k)
      PROVE  i - k \in 1 .. n /\ z[i] = y[i - k] /\ z[i] \in Elements(y)
  <2>1. i - k \in 1 .. n
    BY <1>9
  <2>2. z[i] = y[i - k]
    BY <1>3, <1>9
  <2>3. QED
    BY <1>5, <2>1, <2>2
<1>10. \A i \in 1 .. k + n : i <= k => i \in 1 .. k
  OBVIOUS
<1>11. Elements(z) = Elements(x) \cup Elements(y)
  <2>1. ASSUME NEW e \in Elements(z) PROVE e \in Elements(x) \cup Elements(y)
    <3>1. PICK i \in 1 .. k + n : e = z[i]
      BY <1>6
    <3>2. CASE i <= k
      BY <1>7, <1>10, <3>1, <3>2
    <3>3. CASE ~ (i <= k)
      BY <1>9, <3>1, <3>3
    <3>4. QED
      BY <3>2, <3>3
  <2>2. ASSUME NEW e \in Elements(x) PROVE e \in Elements(z)
    BY <1>5, <1>6, <1>7
  <2>3. ASSUME NEW e \in Elements(y) PROVE e \in Elements(z)
    <3>1. PICK i \in 1 .. n : e = y[i]
      BY <1>5
    <3>2. QED
      BY <1>6, <1>8, <3>1
  <2>4. QED
    BY <2>1, <2>2, <2>3
<1>12. \A i, j \in 1 .. k : x[i] = x[j] => i = j
  BY <1>1 DEF IsOneToOne
<1>13. \A i, j \in 1 .. n : y[i] = y[j] => i = j
  BY <1>1 DEF IsOneToOne
<1>14. ASSUME NEW i \in 1 .. k + n, NEW j \in 1 .. k + n, z[i] = z[j] PROVE i = j
  <2>1. CASE i <= k /\ j <= k
    <3>1. i \in 1 .. k /\ j \in 1 .. k
      BY <1>10, <2>1
    <3>2. x[i] = x[j]
      BY <1>7, <1>14, <3>1
    <3>3. QED
      BY <1>12, <3>1, <3>2
  <2>2. CASE ~ (i <= k) /\ ~ (j <= k)
    <3>1. i - k \in 1 .. n /\ j - k \in 1 .. n /\ y[i - k] = y[j - k]
      BY <1>9, <1>14, <2>2
    <3>2. i - k = j - k
      BY <1>13, <3>1
    <3>3. QED
      BY <3>2
  <2>3. CASE i <= k /\ ~ (j <= k)
    BY <1>7, <1>9, <1>10, <1>14, <2>3
  <2>4. CASE ~ (i <= k) /\ j <= k
    BY <1>7, <1>9, <1>10, <1>14, <2>4
  <2>5. QED
    BY <2>1, <2>2, <2>3, <2>4
<1>15. IsOneToOne(z)
  BY <1>4, <1>14 DEF IsOneToOne
<1>16. QED
  BY <1>2, <1>11, <1>15

\* FilesCorrect: a file that exists is the push file, the file of exactly one
\* pop queue or a recycled name, and never two of these; reset() leaves none;
\* pop() has released every file when its last reader left it.
THEOREM FilesCorrect == Spec => []EveryFileHasOneUse
<1>1. ASSUME Inv PROVE EveryFileHasOneUse
  <2>0. PICK s : s = State
    OBVIOUS
  <2>1. PICK at \in [Nat -> Nat] : s = State /\ Good(s, at)
    BY <1>1, <2>0 DEF Inv
  <2>2. s.bq = bq /\ s.disk = disk /\ Typed(s) /\ Named(s) /\ Used(s)
    BY <2>1 DEF State, Good
  <2>3. PICK pool \in Seq(Nat) : pool = bq.allocated_filenames
    BY <2>2 DEF Typed
  <2>4. PICK x \in Seq(PopQueues) : x = bq.pop_queues
    BY <2>2 DEF Typed
  <2>5. PICK pops : pops = [i \in DOMAIN x |-> x[i].file_name]
    OBVIOUS
  <2>6. PICK n \in Nat : n = Len(x) /\ DOMAIN x = 1 .. n
    OBVIOUS
  <2>7. pops \in Seq(Nat) /\ DOMAIN pops = 1 .. n
    <3>1. \A i \in 1 .. n : x[i].file_name \in Nat
      <4> TAKE i \in 1 .. n
      <4>1. x[i] \in PopQueues
        BY <2>6
      <4>2. QED
        BY <4>1, PopQueueFields
    <3>2. pops \in [1 .. n -> Nat]
      BY <2>5, <2>6, <3>1
    <3>3. QED
      BY <3>2
  <2>8. Elements(pops) = PopNames(s) /\ IsOneToOne(pops)
    <3>1. \A i \in 1 .. n : pops[i] = x[i].file_name
      BY <2>5, <2>6
    <3>2. \A i, j \in 1 .. n : x[i].file_name = x[j].file_name => i = j
      BY <2>2, <2>4, <2>6, ZenonT(60) DEF Named, PopsAreDistinct
    <3>3. PopNames(s) = {x[i].file_name : i \in 1 .. n}
      BY <2>2, <2>4, <2>6 DEF PopNames
    <3>4. Elements(pops) = {pops[i] : i \in 1 .. n}
      BY <2>7 DEF Elements
    <3>5. Elements(pops) = PopNames(s)
      BY <3>1, <3>3, <3>4, ZenonT(60)
    <3>6. IsOneToOne(pops)
      BY <2>7, <3>1, <3>2 DEF IsOneToOne
    <3>7. QED
      BY <3>5, <3>6
  <2>9. Elements(pool) = PoolNames(s) /\ IsOneToOne(pool)
    BY <2>2, <2>3 DEF PoolNames, Named, PoolIsDistinct, IsOneToOne
  <2>10. PICK push_ : push_ = IF bq.write_handle THEN <<bq.file_name>> ELSE <<>>
    OBVIOUS
  <2>11. push_ \in Seq(Nat) /\ Elements(push_) = PushNames(s) /\ IsOneToOne(push_)
    <3>1. CASE bq.write_handle
      <4>1. PICK f \in Nat : f = bq.file_name
        BY <2>2 DEF Typed
      <4>2. push_ = <<f>> /\ PushNames(s) = {f}
        BY <2>2, <2>10, <3>1, <4>1 DEF PushNames
      <4>3. <<f>> \in Seq(Nat) /\ DOMAIN <<f>> = {1} /\ <<f>>[1] = f
        OBVIOUS
      <4>4. Elements(<<f>>) = {f} /\ IsOneToOne(<<f>>)
        BY <4>3 DEF Elements, IsOneToOne
      <4>5. QED
        BY <4>2, <4>3, <4>4
    <3>2. CASE ~ bq.write_handle
      <4>1. push_ = <<>> /\ PushNames(s) = {}
        BY <2>2, <2>10, <3>2 DEF PushNames
      <4>2. <<>> \in Seq(Nat) /\ DOMAIN <<>> = {}
        OBVIOUS
      <4>3. Elements(<<>>) = {} /\ IsOneToOne(<<>>)
        BY <4>2 DEF Elements, IsOneToOne
      <4>4. QED
        BY <4>1, <4>2, <4>3
    <3>3. QED
      BY <3>1, <3>2
  <2>12. /\ PoolNames(s) \cap PopNames(s) = {}
         /\ (PoolNames(s) \cup PopNames(s)) \cap PushNames(s) = {}
         /\ DOMAIN disk = (PoolNames(s) \cup PopNames(s)) \cup PushNames(s)
    BY <2>2 DEF Named
  <2>13. PICK two \in Seq(Nat) : /\ two = pool \o pops /\ IsOneToOne(two)
                                 /\ Elements(two) = PoolNames(s) \cup PopNames(s)
    <3>1. Elements(pool) \cap Elements(pops) = {} /\ pops \in Seq(Nat)
          /\ IsOneToOne(pool) /\ IsOneToOne(pops)
      BY <2>7, <2>8, <2>9, <2>12
    <3>2. /\ pool \o pops \in Seq(Nat) /\ IsOneToOne(pool \o pops)
          /\ Elements(pool \o pops) = Elements(pool) \cup Elements(pops)
      BY <3>1, ConcatOneToOne
    <3>3. QED
      BY <2>8, <2>9, <3>2
  <2>14. PICK all \in Seq(Nat) : /\ all = two \o push_ /\ IsOneToOne(all)
                                 /\ Elements(all) = (PoolNames(s) \cup PopNames(s)) \cup PushNames(s)
    <3>1. Elements(two) \cap Elements(push_) = {} /\ push_ \in Seq(Nat)
          /\ IsOneToOne(two) /\ IsOneToOne(push_)
      BY <2>11, <2>12, <2>13
    <3>2. /\ two \o push_ \in Seq(Nat) /\ IsOneToOne(two \o push_)
          /\ Elements(two \o push_) = Elements(two) \cup Elements(push_)
      BY <3>1, ConcatOneToOne
    <3>3. QED
      BY <2>11, <2>13, <3>2
  <2>15. DOMAIN disk = Elements(all) /\ Cardinality(Elements(all)) = Len(all)
    BY <2>12, <2>14, CountElements
  <2>16. bq.pop_queues # <<>> =>
           \E c \in DOMAIN bq.consumers : bq.consumers[c].current_pop_queue = bq.released + 1
    BY <2>2 DEF Used, ReaderAt, Live
  <2>17. all = bq.allocated_filenames \o [i \in DOMAIN bq.pop_queues |-> bq.pop_queues[i].file_name]
                 \o (IF bq.write_handle THEN <<bq.file_name>> ELSE <<>>)
    BY <2>3, <2>4, <2>5, <2>10, <2>13, <2>14
  <2>18. QED
    BY <2>15, <2>16, <2>17 DEF EveryFileHasOneUse
<1>2. QED
  BY <1>1, Invariance, PTL

-----------------------------------------------------------------------------
(* What a consumer has still to read                                       *)

\* The memory queue, with the push file in front of it if there is one.
LEMMA PushFileAndMemory ==
  ASSUME NEW s, NEW at \in [Nat -> Nat], Typed(s), Stored(s, at), s = State
  PROVE  PushFile \o bq.element_cache = Interval(at[Back(s) + 1], s.bq.nelements_pushed)
<1>1. PICK b \in Nat, o \in Nat, p \in Nat, r \in Nat :
        b = Back(s) /\ o = Out(s) /\ p = s.bq.nelements_pushed /\ o <= p /\ r = s.bq.released /\ r <= b
  <2>1. PICK b \in Nat, r \in Nat, n \in Nat : b = Back(s) /\ r = s.bq.released /\ b = r + n
    BY QueueTyped
  <2>2. r <= b
    BY <2>1
  <2>3. QED
    BY <2>1, <2>2, MemoryLength DEF Stored
<1>2. b + 1 \in r + 1 .. b + 1
  BY <1>1
<1>3. PICK a \in Nat : a = at[b + 1] /\ a <= o
  BY <1>1, <1>2, AtIsPushed
<1>4. s.bq = bq /\ s.disk = disk
  BY DEF State
<1>5. bq.element_cache = Interval(o, p)
  BY <1>1, <1>4 DEF Stored, InMemory
<1>6. PushFile = Interval(a, o)
  <2>1. CASE bq.write_handle
    BY <1>1, <1>3, <1>4, <2>1 DEF PushFile, Stored, InPushFile
  <2>2. CASE ~ bq.write_handle
    <3>1. a = o
      BY <1>1, <1>3, <1>4, <2>2 DEF Stored, InPushFile
    <3>2. QED
      BY <2>2, <3>1, EmptyInterval DEF PushFile
  <2>3. QED
    BY <2>1, <2>2
<1>7. Interval(a, o) \o Interval(o, p) = Interval(a, p)
  <2>1. a <= o /\ o <= p
    BY <1>1, <1>3
  <2>2. QED
    BY <2>1, ConcatIntervals
<1>8. QED
  BY <1>1, <1>3, <1>5, <1>6, <1>7

\* From pop queue q on, the files and memory hold all elements after the first
\* at[q].
LEMMA FilesFromStored ==
  ASSUME NEW s, NEW at \in [Nat -> Nat], Typed(s), Stored(s, at), s = State,
         NEW q \in s.bq.released + 1 .. Back(s)
  PROVE  FilesFrom(q) = Interval(at[q], s.bq.nelements_pushed)
<1>1. PICK r \in Nat, n \in Nat, p \in Nat :
        r = bq.released /\ n = Len(bq.pop_queues) /\ Back(s) = r + n /\ p = s.bq.nelements_pushed
  BY QueueTyped, ZenonT(60) DEF State, Typed
<1>2. s.bq = bq /\ s.disk = disk
  BY DEF State
<1>3. PICK z : z = PushFile \o bq.element_cache /\ z = Interval(at[(r + n) + 1], p)
  BY <1>1, PushFileAndMemory
<1> DEFINE data(i) == disk[bq.pop_queues[i].file_name]
<1> DEFINE Step(f) == [i \in 1 .. n + 1 |-> IF i = n + 1 THEN z ELSE data(i) \o f[i + 1]]
<1> DEFINE from == CHOOSE f : f = Step(f)
<1> DEFINE rest(i) == Interval(at[r + i], p)
<1>4. FilesFrom(q) = from[q - r]
  BY <1>1, <1>3 DEF FilesFrom
<1>5. ASSUME NEW i \in 1 .. n PROVE data(i) \o rest(i + 1) = rest(i)
  <2>1. PICK x : x = r + i /\ x \in r + 1 .. r + n /\ x - r = i /\ x + 1 = r + (i + 1)
                 /\ x + 1 \in r + 1 .. (r + n) + 1 /\ x \in Nat /\ x + 1 \in Nat
    <3>1. /\ r + i \in r + 1 .. r + n /\ (r + i) - r = i /\ (r + i) + 1 = r + (i + 1)
          /\ (r + i) + 1 \in r + 1 .. (r + n) + 1 /\ r + i \in Nat /\ (r + i) + 1 \in Nat
      OBVIOUS
    <3>2. QED
      BY <3>1
  <2>2. PopQueue(s, x) = bq.pop_queues[i]
    BY <1>1, <1>2, <2>1 DEF PopQueue
  <2>3. x \in s.bq.released + 1 .. Back(s) /\ x + 1 \in s.bq.released + 1 .. Back(s) + 1
    BY <1>1, <1>2, <2>1
  <2>4. data(i) = Interval(at[x], at[x + 1])
    BY <1>2, <2>2, <2>3 DEF Stored, InPopQueues, Holds
  <2>5. PICK a \in Nat, b \in Nat, k \in Nat :
          a = at[x] /\ b = at[x + 1] /\ a + k <= b /\ b <= p
    <3>1. at[x] \in Nat /\ at[x + 1] \in Nat /\ at[x] + m_cache_limit <= at[x + 1]
      BY <2>3, NextQueue
    <3>2. at[x + 1] <= s.bq.nelements_pushed
      BY <2>3, AtIsPushed
    <3>3. QED
      BY <1>1, <3>1, <3>2, LimitIsPositive
  <2>6. a <= b
    BY <2>5
  <2>7. Interval(a, b) \o Interval(b, p) = Interval(a, p)
    BY <2>5, <2>6, ConcatIntervals, ZenonT(60)
  <2>8. QED
    BY <2>1, <2>4, <2>5, <2>7
<1> HIDE DEF data
<1>6. rest(n + 1) = z
  <2>1. r + (n + 1) = (r + n) + 1
    OBVIOUS
  <2>2. QED
    BY <1>3, <2>1
<1> HIDE DEF rest
<1>7. \E f : f = Step(f)
  <2>1. PICK g : g = [i \in 1 .. n + 1 |-> rest(i)]
    OBVIOUS
  <2>2. ASSUME NEW i \in 1 .. n + 1, i # n + 1 PROVE data(i) \o g[i + 1] = g[i]
    <3>1. i \in 1 .. n /\ i + 1 \in 1 .. n + 1
      BY <2>2
    <3>2. QED
      BY <1>5, <2>1, <3>1
  <2>3. n + 1 \in 1 .. n + 1
    OBVIOUS
  <2>4. g[n + 1] = z
    BY <1>6, <2>1, <2>3
  <2>5. \A i \in 1 .. n + 1 : g[i] = IF i = n + 1 THEN z ELSE data(i) \o g[i + 1]
    BY <2>2, <2>4
  <2>6. g = Step(g)
    BY <2>1, <2>5
  <2>7. QED
    BY <2>6
<1>8. from = Step(from)
  BY <1>7
<1> HIDE DEF from
<1>9. \A i \in 1 .. n + 1 : from[i] = IF i = n + 1 THEN z ELSE data(i) \o from[i + 1]
  BY <1>8
<1> HIDE DEF Step
<1>10. \A i \in 1 .. n + 1 : from[i] = rest(i)
  <2> DEFINE bad == {j \in Nat : j <= n /\ from[(n + 1) - j] # rest((n + 1) - j)}
  <2>1. bad = {}
    <3> SUFFICES ASSUME bad # {} PROVE FALSE
      OBVIOUS
    <3>1. bad \in SUBSET Nat
      OBVIOUS
    <3>2. PICK m \in bad : \A j \in bad : m <= j
      BY <3>1, Least
    <3>3. PICK i \in 1 .. n + 1 : i = (n + 1) - m /\ m = (n + 1) - i /\ from[i] # rest(i)
      BY <3>2
    <3>4. n + 1 \in 1 .. n + 1
      OBVIOUS
    <3>5. i # n + 1
      BY <1>6, <1>9, <3>3, <3>4
    <3>6. i \in 1 .. n /\ i + 1 \in 1 .. n + 1
      BY <3>5
    <3>7. from[i + 1] = rest(i + 1)
      <4>1. PICK j \in Nat : j = (n + 1) - (i + 1) /\ j <= n /\ (n + 1) - j = i + 1 /\ ~ (m <= j)
        <5>1. m = (n + 1) - i
          BY <3>3
        <5>2. QED
          BY <3>6, <5>1
      <4>2. j \notin bad
        BY <3>2, <4>1
      <4>3. QED
        BY <4>1, <4>2
    <3>8. from[i] = rest(i)
      BY <1>5, <1>9, <3>5, <3>6, <3>7
    <3>9. QED
      BY <3>3, <3>8
  <2>2. ASSUME NEW i \in 1 .. n + 1 PROVE from[i] = rest(i)
    <3>1. PICK j \in Nat : j = (n + 1) - i /\ j <= n /\ (n + 1) - j = i
      OBVIOUS
    <3>2. j \notin bad
      BY <2>1
    <3>3. QED
      BY <3>1, <3>2
  <2>3. QED
    BY <2>2
<1>11. q - r \in 1 .. n + 1 /\ r + (q - r) = q
  <2>1. q \in r + 1 .. r + n
    BY <1>1, <1>2
  <2>2. QED
    BY <2>1
<1>12. QED
  BY <1>1, <1>4, <1>10, <1>11 DEF rest

\* NothingLost: in every schedule of push(), pop() and reset(), what is left for
\* a consumer in its file, the later files, the push file and memory is exactly
\* the elements it has not popped, in the order they were pushed.
THEOREM NothingLost == Spec => []NothingLostOrRepeated
<1>1. ASSUME Inv PROVE NothingLostOrRepeated
  <2>0. PICK s : s = State
    OBVIOUS
  <2>1. PICK at \in [Nat -> Nat] : s = State /\ Good(s, at)
    BY <1>1, <2>0 DEF Inv
  <2>2. s.bq = bq /\ s.disk = disk /\ Typed(s) /\ Stored(s, at) /\ Placed(s, at)
    BY <2>1 DEF State, Good
  <2>3. SUFFICES ASSUME NEW c \in DOMAIN bq.consumers
                 PROVE  Unread(c) = Interval(bq.consumers[c].nelements_popped, bq.nelements_pushed)
    BY DEF NothingLostOrRepeated, Interval
  <2>4. c \in Live(s) /\ Stands(s, at, c)
    BY <2>2, <2>3 DEF Live, Placed
  <2>5. CASE bq.consumers[c].current_pop_queue = NULL
    <3>1. reading_from_push_queue(s, c)
      BY <2>2, <2>5 DEF reading_from_push_queue
    <3>2. PICK e \in Nat : /\ e = bq.consumers[c].element_offset /\ e <= Len(bq.element_cache)
                           /\ bq.consumers[c].nelements_popped = Out(s) + e
      BY <2>2, <2>4, <3>1, StandsInMemory
    <3>3. PICK o \in Nat, p \in Nat : o = Out(s) /\ p = bq.nelements_pushed /\ o <= p
                                      /\ Len(bq.element_cache) = p - o
      BY <2>2, MemoryLength DEF Stored
    <3>4. e <= p - o
      BY <3>2, <3>3
    <3>5. o <= o + e /\ o + e <= p /\ o + e \in Nat /\ (o + e) - o = e
      BY <3>4
    <3>6. DropFirst(Interval(o, p), e) = Interval(o + e, p)
      <4>1. DropFirst(Interval(o, p), (o + e) - o) = Interval(o + e, p)
        BY <3>5, SubInterval
      <4>2. QED
        BY <3>5, <4>1
    <3>7. bq.element_cache = Interval(o, p)
      BY <2>2, <3>3 DEF Stored, InMemory
    <3>8. Unread(c) = DropFirst(bq.element_cache, e)
      BY <2>5, <3>2 DEF Unread
    <3>9. QED
      BY <3>2, <3>3, <3>6, <3>7, <3>8
  <2>6. CASE bq.consumers[c].current_pop_queue # NULL
    <3>1. ~ reading_from_push_queue(s, c)
      BY <2>2, <2>6 DEF reading_from_push_queue
    <3>2. PICK q : q = bq.consumers[c].current_pop_queue /\ q \in s.bq.released + 1 .. Back(s)
      BY <2>2, <2>4, <3>1, StandsInQueue
    <3>3. FilesFrom(q) = Interval(at[q], bq.nelements_pushed)
      BY <2>1, <2>2, <3>2, FilesFromStored
    <3>4. PICK fo \in Nat, p \in Nat : fo = bq.consumers[c].file_offset /\ p = bq.nelements_pushed
      BY <2>2, <2>4, ConsumerTyped DEF Typed
    <3>5. at[q] \in Nat /\ at[q + 1] \in Nat /\ at[q + 1] <= bq.nelements_pushed
      <4>1. PICK r \in Nat, b \in Nat : r = s.bq.released /\ b = Back(s)
        BY <2>2, QueueTyped
      <4>2. q + 1 \in r + 1 .. b + 1
        BY <3>2, <4>1
      <4>3. at[q + 1] <= bq.nelements_pushed
        BY <2>2, <4>1, <4>2, AtIsPushed
      <4>4. QED
        BY <2>2, <3>2, <4>3, NextQueue
    <3>6. PICK a \in Nat, b \in Nat : a = at[q] /\ b = at[q + 1] /\ b <= p
      BY <3>4, <3>5
    <3>7. a + fo <= b /\ bq.consumers[c].nelements_popped = a + fo
      BY <2>2, <2>4, <2>6, <3>2, <3>4, <3>6 DEF Stands
    <3>8. a <= a + fo /\ a + fo <= p /\ a + fo \in Nat /\ (a + fo) - a = fo
      <4>1. a + fo <= b /\ b <= p
        BY <3>6, <3>7
      <4>2. QED
        BY <4>1
    <3>9. DropFirst(Interval(a, p), fo) = Interval(a + fo, p)
      <4>1. DropFirst(Interval(a, p), (a + fo) - a) = Interval(a + fo, p)
        BY <3>8, SubInterval
      <4>2. QED
        BY <3>8, <4>1
    <3>10. Unread(c) = DropFirst(FilesFrom(q), fo)
      BY <2>6, <3>2, <3>4 DEF Unread
    <3>11. QED
      BY <3>3, <3>4, <3>6, <3>7, <3>9, <3>10
  <2>7. QED
    BY <2>5, <2>6
<1>2. QED
  BY <1>1, Invariance, PTL

-----------------------------------------------------------------------------
(* Refinement                                                              *)

\* Refinement: in every schedule of push() and pop() each consumer gets the
\* elements 1, 2, 3, ... in order, and a pop fails iff empty() held: every step
\* of the queue is one of Broadcast.
THEOREM Refinement == Spec => ImplementsBroadcast
<1>1. Init => Abstract!Init
  <2> SUFFICES ASSUME Init PROVE Abstract!Init
    OBVIOUS
  <2>1. /\ bq.nelements_pushed = 0 /\ bq.consumers = [c \in Consumers |-> NewConsumer]
        /\ ret = NoResult
    BY DEF Init, NewQueue
  <2>2. [c \in DOMAIN bq.consumers |-> bq.consumers[c].nelements_popped] = [c \in Consumers |-> 0]
    BY <2>1 DEF NewConsumer
  <2>3. QED
    BY <2>1, <2>2 DEF Abstract!Init, Abstract!NoResult, NoResult, NULL
<1>2. Inv /\ [Next]_vars => [Abstract!Next]_(Abstract!vars)
  <2> SUFFICES ASSUME Inv, [Next]_vars PROVE [Abstract!Next]_(Abstract!vars)
    OBVIOUS
  <2>1. /\ State.bq = bq /\ (State').bq = bq'
        /\ Live(State) = DOMAIN bq.consumers /\ Live(State') = DOMAIN bq'.consumers
    BY DEF State, Live
  <2>2. CASE Push
    <3>1. Pushed(State, State')
      BY <2>2, PushIsGood
    <3>2. [c \in DOMAIN bq'.consumers |-> bq'.consumers[c].nelements_popped]
            = [c \in DOMAIN bq.consumers |-> bq.consumers[c].nelements_popped]
      BY <2>1, <3>1 DEF Pushed
    <3>3. bq'.nelements_pushed = bq.nelements_pushed + 1 /\ ret' = NoResult
      BY <2>1, <2>2, <3>1 DEF Pushed, Push
    <3>4. Abstract!Push
      BY <3>2, <3>3 DEF Abstract!Push, Abstract!NoResult, NoResult, NULL
    <3>5. QED
      BY <3>4 DEF Abstract!Next
  <2>3. ASSUME NEW c \in Consumers, Pop(c) PROVE Abstract!Next
    <3>1. c \in Live(State)
      BY <2>3, PopIsGood
    <3>2. PICK p : p.state = State' /\ p.result = ret' /\ (PopsNext(State, p, c) \/ PopFails(State, p, c))
      BY <2>3, PopIsGood
    <3>3. PICK f, g : /\ f = [d \in DOMAIN bq.consumers |-> bq.consumers[d].nelements_popped]
                      /\ g = [d \in DOMAIN bq'.consumers |-> bq'.consumers[d].nelements_popped]
      OBVIOUS
    <3>4. c \in DOMAIN f /\ f[c] = bq.consumers[c].nelements_popped
      BY <2>1, <3>1, <3>3
    <3>5. CASE PopsNext(State, p, c)
      <4>1. /\ Popped(State, State', c) /\ f[c] < bq.nelements_pushed /\ ret' = Success(c, f[c] + 1)
        BY <2>1, <3>2, <3>4, <3>5 DEF PopsNext
      <4>2. /\ DOMAIN bq'.consumers = DOMAIN bq.consumers /\ bq'.nelements_pushed = bq.nelements_pushed
            /\ bq'.consumers[c].nelements_popped = bq.consumers[c].nelements_popped + 1
            /\ \A d \in DOMAIN bq.consumers : d # c =>
                 bq'.consumers[d].nelements_popped = bq.consumers[d].nelements_popped
        BY <2>1, <4>1 DEF Popped
      <4>3. g = [f EXCEPT ![c] = f[c] + 1]
        BY <3>3, <3>4, <4>2
      <4>4. Abstract!Pop(c)
        BY <3>3, <4>1, <4>2, <4>3 DEF Abstract!Pop, Success
      <4>5. QED
        BY <3>3, <3>4, <4>4 DEF Abstract!Next
    <3>6. CASE PopFails(State, p, c)
      <4>1. /\ SamePops(State, State') /\ f[c] = bq.nelements_pushed /\ ret' = Failure(c)
        BY <2>1, <3>2, <3>4, <3>6 DEF PopFails
      <4>2. /\ DOMAIN bq'.consumers = DOMAIN bq.consumers /\ bq'.nelements_pushed = bq.nelements_pushed
            /\ \A d \in DOMAIN bq.consumers :
                 bq'.consumers[d].nelements_popped = bq.consumers[d].nelements_popped
        BY <2>1, <4>1 DEF SamePops
      <4>3. g = f
        BY <3>3, <4>2
      <4>4. Abstract!PopEmpty(c)
        BY <3>3, <4>1, <4>2, <4>3 DEF Abstract!PopEmpty, Failure
      <4>5. QED
        BY <3>3, <3>4, <4>4 DEF Abstract!Next
    <3>7. QED
      BY <3>2, <3>5, <3>6
  <2>4. CASE Reset
    <3>1. Live(State') = {} /\ bq'.nelements_pushed = bq.nelements_pushed /\ ret' = NoResult
      BY <2>4, ResetIsGood DEF Reset
    <3>2. [c \in DOMAIN bq'.consumers |-> bq'.consumers[c].nelements_popped] = [c \in {} |-> 0]
      BY <2>1, <3>1
    <3>3. Abstract!Reset
      BY <3>1, <3>2 DEF Abstract!Reset, Abstract!NoResult, NoResult, NULL
    <3>4. QED
      BY <3>3 DEF Abstract!Next
  <2>5. CASE UNCHANGED vars
    BY <2>5 DEF vars, Abstract!vars
  <2>6. QED
    BY <2>2, <2>3, <2>4, <2>5 DEF Next
<1>3. QED
  BY <1>1, <1>2, Invariance, PTL DEF Spec, ImplementsBroadcast, Abstract!Spec

-----------------------------------------------------------------------------
(* Files that are read                                                     *)

\* FinalCorrect: "files are either open for reading or writing, but not both
\* simultaneously": no call of push(), pop() or reset() writes to, truncates or
\* deletes the file of a pop queue that stays in use.
THEOREM FinalCorrect == Spec => ReadFilesAreFinal
<1> DEFINE Final ==
      \A q \in (bq.released + 1 .. Back(State)) \cap
               (bq.released' + 1 .. bq.released' + Len(bq.pop_queues')) :
        LET f == PopQueue(State, q).file_name
        IN  /\ bq'.pop_queues[q - bq'.released].file_name = f
            /\ f \in DOMAIN disk'
            /\ disk'[f] = disk[f]
<1>1. ASSUME FilesKept(State, State') PROVE Final
  <2>1. /\ State.bq = bq /\ State.disk = disk /\ (State').bq = bq' /\ (State').disk = disk'
    BY DEF State
  <2>2. Back(State') = bq'.released + Len(bq'.pop_queues)
    BY <2>1 DEF Back
  <2>3. SUFFICES ASSUME NEW q \in bq.released + 1 .. Back(State), q \in bq'.released + 1 .. Back(State')
                 PROVE  LET f == PopQueue(State, q).file_name
                        IN  /\ bq'.pop_queues[q - bq'.released].file_name = f
                            /\ f \in DOMAIN disk'
                            /\ disk'[f] = disk[f]
    BY <2>2
  <2>4. FileKept(State, State', q)
    BY <1>1, <2>1, <2>3 DEF FilesKept
  <2>5. PopQueue(State', q) = bq'.pop_queues[q - bq'.released]
    BY <2>1 DEF PopQueue
  <2>6. QED
    BY <2>1, <2>4, <2>5 DEF FileKept
<1>2. Inv /\ [Next]_vars => [Final]_vars
  <2> SUFFICES ASSUME Inv, Next PROVE Final
    OBVIOUS
  <2>1. CASE Push
    BY <1>1, <2>1, PushIsGood
  <2>2. ASSUME NEW c \in Consumers, Pop(c) PROVE Final
    BY <1>1, <2>2, PopIsGood
  <2>3. CASE Reset
    BY <1>1, <2>3, ResetIsGood
  <2>4. QED
    BY <2>1, <2>2, <2>3 DEF Next
<1>3. QED
  BY <1>2, Invariance, PTL DEF Spec, ReadFilesAreFinal
=============================================================================
