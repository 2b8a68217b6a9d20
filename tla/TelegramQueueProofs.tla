------------------------ MODULE TelegramQueueProofs ------------------------
(***************************************************************************)
(* Proofs about TelegramQueue, for any callers, consumers, priorities and  *)
(* limits, and on either kind of runtime.                                  *)
(***************************************************************************)
EXTENDS TelegramQueue, FiniteSetTheorems, SequenceTheorems, WellFoundedInduction, TLAPS

(* The priorities are ranked by distinct naturals. *)
LEMMA RankType ==
    /\ \A p \in DOMAIN Rank : Rank[p] \in Nat
    /\ \A p, q \in DOMAIN Rank : Rank[p] = Rank[q] => p = q
BY DEF Rank

(* The size of the heap is a natural number. *)
LEMMA HeapSize ==
    ASSUME TypeOK
    PROVE  Cardinality(outgoing) \in Nat /\ Len(incoming) \in Nat
BY FS_CardinalityType, LenProperties DEF TypeOK

(* An enqueue leaves well-typed statistics and changes three of them. *)
LEMMA GrownStats ==
    ASSUME NEW s \in QueueStats, NEW n \in Nat
    PROVE  /\ Grown(s, n) \in QueueStats
           /\ Grown(s, n).total_enqueued = s.total_enqueued + 1
           /\ Grown(s, n).total_dequeued = s.total_dequeued
           /\ Grown(s, n).current_size = n
           /\ Grown(s, n).peak_size = IF n > s.peak_size THEN n ELSE s.peak_size
BY DEF Grown, QueueStats

(* A dequeue leaves well-typed statistics and changes two of them. *)
LEMMA ShrunkStats ==
    ASSUME NEW s \in QueueStats, NEW n \in Nat
    PROVE  /\ Shrunk(s, n) \in QueueStats
           /\ Shrunk(s, n).total_enqueued = s.total_enqueued
           /\ Shrunk(s, n).total_dequeued = s.total_dequeued + 1
           /\ Shrunk(s, n).current_size = n
           /\ Shrunk(s, n).peak_size = s.peak_size
BY DEF Shrunk, QueueStats

(* Waking the waiters, at once or later, keeps the task states well typed. *)
LEMMA NotifyType ==
    ASSUME TypeOK, NEW t \in Callers, UnlockAndNotify(t)
    PROVE  /\ caller' \in [Callers -> {"idle", "notify"}]
           /\ wait' \in [Consumers -> {"running", "unlocked", "waiting", "none"}]
<1>1. CASE Preemptible
  BY <1>1 DEF TypeOK, UnlockAndNotify
<1>2. CASE ~Preemptible
  BY <1>2 DEF TypeOK, UnlockAndNotify, Woken
<1> QED BY <1>1, <1>2

(* Every step of transport/queue.rs keeps every field in its type. *)
THEOREM TypeStep == TypeOK /\ [Next]_vars => TypeOK'
<1> SUFFICES ASSUME TypeOK, [Next]_vars PROVE TypeOK'
  OBVIOUS
<1> USE QueueAssumption
<1>0. Cardinality(outgoing) \in Nat /\ Len(incoming) \in Nat
  BY HeapSize
<1>1. ASSUME NEW t \in Callers, NEW p \in UsedPriorities, EnqueueOutgoing(t, p)
      PROVE  TypeOK'
  <2> DEFINE e == [priority |-> p, sequence |-> sequence_counter]
  <2>1. e \in Entry
    BY DEF TypeOK, Entry
  <2>2. outgoing' \in SUBSET Entry
    BY <1>1, <2>1 DEF TypeOK, EnqueueOutgoing
  <2>3. IsFiniteSet(outgoing') /\ Cardinality(outgoing') \in Nat
    BY <1>1, FS_AddElement, FS_CardinalityType, Zenon DEF TypeOK, EnqueueOutgoing
  <2>4. stats' \in QueueStats
    BY <1>0, <1>1, <2>3, GrownStats DEF TypeOK, EnqueueOutgoing
  <2> QED BY <1>1, <2>2, <2>3, <2>4, NotifyType DEF TypeOK, EnqueueOutgoing, NextSequence, history
<1>2. ASSUME NEW t \in Callers, EnqueueIncoming(t)
      PROVE  TypeOK'
  <2>1. incoming' \in Seq(Nat) /\ Len(incoming') \in Nat
    BY <1>2, AppendProperties, LenProperties DEF TypeOK, EnqueueIncoming, QueueStats
  <2>2. stats' \in QueueStats
    BY <1>0, <1>2, <2>1, GrownStats DEF TypeOK, EnqueueIncoming
  <2> QED BY <1>2, <2>1, <2>2, NotifyType DEF TypeOK, EnqueueIncoming, history
<1>3. ASSUME NEW t \in Callers, RejectFull(t)
      PROVE  TypeOK'
  <2>1. stats' = [stats EXCEPT !.dropped_count = stats.dropped_count + 1]
    BY <1>3 DEF RejectFull
  <2>2. stats' \in QueueStats
    <3>1. stats \in QueueStats
      BY DEF TypeOK
    <3>2. stats.dropped_count + 1 \in Nat
      BY <3>1 DEF QueueStats
    <3> QED BY <2>1, <3>1, <3>2 DEF QueueStats
  <2> QED BY <1>3, <2>2 DEF TypeOK, RejectFull, tasks, history
<1>4. ASSUME NEW t \in Callers, Close(t)
      PROVE  TypeOK'
  BY <1>4, NotifyType DEF TypeOK, Close, history
<1>5. ASSUME NEW t \in Callers, NotifyWaiters(t)
      PROVE  TypeOK'
  BY <1>5 DEF TypeOK, NotifyWaiters, Woken, qvars, history
<1>6. ASSUME NEW t \in Callers, Clear(t)
      PROVE  TypeOK'
  <2>1. stats' \in QueueStats
    BY <1>6, Zenon DEF TypeOK, Clear, QueueStats
  <2>2. IsFiniteSet(outgoing') /\ outgoing' \in SUBSET Entry
    BY <1>6, FS_EmptySet DEF Clear
  <2>3. incoming' \in Seq(Nat)
    BY <1>6, EmptySeq DEF Clear
  <2> QED BY <1>0, <1>6, <2>1, <2>2, <2>3 DEF TypeOK, Clear, tasks
<1>7. ASSUME NEW c \in Consumers, DequeueOutgoing(c)
      PROVE  TypeOK'
  <2>1. PICK e \in outgoing :
          /\ outgoing' = outgoing \ {e}
          /\ stats' = Shrunk(stats, Cardinality(outgoing') + Len(incoming))
          /\ popped' = popped \cup
                {[priority |-> e.priority, sequence |-> e.sequence,
                  nth |-> stats.total_dequeued, horizon |-> sequence_counter]}
    BY <1>7 DEF DequeueOutgoing
  <2>2. e \in Entry
    BY DEF TypeOK
  <2>3. IsFiniteSet(outgoing') /\ Cardinality(outgoing') \in Nat
    BY <2>1, FS_RemoveElement, FS_CardinalityType DEF TypeOK
  <2>4. popped' \in SUBSET [priority : DOMAIN Rank, sequence : Nat,
                            nth : Nat, horizon : Nat]
    BY <2>1, <2>2 DEF TypeOK, Entry, QueueStats
  <2>5. stats' \in QueueStats
    BY <1>0, <2>1, <2>3, ShrunkStats DEF TypeOK
  <2> QED BY <1>7, <2>1, <2>3, <2>4, <2>5 DEF TypeOK, DequeueOutgoing, tasks
<1>8. ASSUME NEW c \in Consumers, DequeueIncoming(c)
      PROVE  TypeOK'
  <2>1. Head(incoming) \in Nat /\ incoming' \in Seq(Nat) /\ Len(incoming') \in Nat
    BY <1>8, HeadTailProperties, LenProperties DEF TypeOK, DequeueIncoming
  <2>2. stats' \in QueueStats
    BY <1>0, <1>8, <2>1, ShrunkStats DEF TypeOK, DequeueIncoming
  <2> QED BY <1>8, <2>1, <2>2 DEF TypeOK, DequeueIncoming, tasks
<1>9. ASSUME NEW c \in Consumers, DequeueNone(c) \/ DequeueUnlock(c) \/ DequeueWait(c)
      PROVE  TypeOK'
  BY <1>9, Zenon DEF TypeOK, DequeueNone, DequeueUnlock, DequeueWait, qvars, history
<1>10. CASE UNCHANGED vars
  BY <1>10 DEF TypeOK, vars
<1> QED BY <1>1, <1>2, <1>3, <1>4, <1>5, <1>6, <1>7, <1>8, <1>9, <1>10 DEF Next, Consume

(* Init is well typed. *)
LEMMA TypeInit == Init => TypeOK
<1> SUFFICES ASSUME Init PROVE TypeOK
  OBVIOUS
<1>1. stats \in QueueStats
  BY DEF Init, QueueStats
<1>2. caller \in [Callers -> {"idle", "notify"}]
  BY DEF Init
<1>3. wait \in [Consumers -> {"running", "unlocked", "waiting", "none"}]
  BY DEF Init
<1>4. IsFiniteSet(outgoing) /\ incoming \in Seq(Nat)
  BY FS_EmptySet, EmptySeq DEF Init
<1> QED BY <1>1, <1>2, <1>3, <1>4, Zenon DEF Init, TypeOK

(* The queue's state always has the types of transport/queue.rs. *)
THEOREM TypeCorrect == Spec => []TypeOK
BY TypeInit, TypeStep, PTL DEF Spec

-----------------------------------------------------------------------------
(* Entries of the heap and of the history have ranked priorities and natural
   sequence numbers. *)
LEMMA EntryTypes ==
    ASSUME TypeOK
    PROVE  /\ \A e \in outgoing : /\ e.sequence \in Nat
                                 /\ e.priority \in DOMAIN Rank
                                 /\ Rank[e.priority] \in Nat
           /\ \A a \in popped : /\ a.sequence \in Nat /\ a.horizon \in Nat
                               /\ a.nth \in Nat
                               /\ a.priority \in DOMAIN Rank
                               /\ Rank[a.priority] \in Nat
           /\ sequence_counter \in Nat
           /\ stats.total_dequeued \in Nat
BY RankType DEF TypeOK, Entry, QueueStats

(* The facts about order, which have to be shown together. *)
Ordered == HeapOrder /\ HandedOutOnce /\ FifoWithinPriority /\ NoPriorityInversion

(* An enqueue adds the largest sequence number so far. *)
LEMMA OrderedEnqueue ==
    ASSUME TypeOK, Ordered, NEW t \in Callers, NEW p \in UsedPriorities,
           EnqueueOutgoing(t, p)
    PROVE  Ordered'
<1> DEFINE e == [priority |-> p, sequence |-> sequence_counter]
<1>1. /\ outgoing' = outgoing \cup {e}
      /\ popped' = popped
      /\ sequence_counter' = sequence_counter + 1
      /\ stats'.total_dequeued = stats.total_dequeued
  BY GrownStats DEF EnqueueOutgoing, NextSequence, history, Grown
<1>2. e.priority = p /\ e.sequence = sequence_counter
  OBVIOUS
<1> HIDE DEF e
<1>3. HeapOrder'
  BY <1>1, <1>2, EntryTypes DEF Ordered, HeapOrder
<1>4. HandedOutOnce'
  BY <1>1, <1>2, EntryTypes DEF Ordered, HeapOrder, HandedOutOnce
<1>5. FifoWithinPriority' /\ NoPriorityInversion'
  BY <1>1 DEF Ordered, FifoWithinPriority, NoPriorityInversion
<1> QED BY <1>3, <1>4, <1>5 DEF Ordered

(* A dequeue takes out an entry that comes before every other one. *)
LEMMA OrderedDequeue ==
    ASSUME TypeOK, Ordered, NEW c \in Consumers, DequeueOutgoing(c)
    PROVE  Ordered'
<1>1. PICK e \in outgoing :
         /\ \A o \in outgoing \ {e} : Before(e, o)
         /\ outgoing' = outgoing \ {e}
         /\ stats' = Shrunk(stats, Cardinality(outgoing') + Len(incoming))
         /\ popped' = popped \cup
               {[priority |-> e.priority, sequence |-> e.sequence,
                 nth |-> stats.total_dequeued, horizon |-> sequence_counter]}
  BY DEF DequeueOutgoing
<1> DEFINE a == [priority |-> e.priority, sequence |-> e.sequence,
                 nth |-> stats.total_dequeued, horizon |-> sequence_counter]
<1>2. /\ a.priority = e.priority /\ a.sequence = e.sequence
      /\ a.nth = stats.total_dequeued /\ a.horizon = sequence_counter
  OBVIOUS
<1>3. popped' = popped \cup {a}
  BY <1>1
<1> HIDE DEF a
<1>4. /\ stats'.total_dequeued = stats.total_dequeued + 1
      /\ sequence_counter' = sequence_counter
  BY <1>1 DEF DequeueOutgoing, Shrunk
<1>5. HeapOrder'
  <2>1. \A o \in outgoing' : /\ a.priority = o.priority => a.sequence < o.sequence
                            /\ ~(Rank[o.priority] < Rank[a.priority])
    BY <1>1, <1>2, EntryTypes DEF Before
  <2> QED BY <1>1, <1>2, <1>3, <1>4, <2>1, EntryTypes DEF Ordered, HeapOrder
<1>6. HandedOutOnce'
  BY <1>1, <1>2, <1>3, EntryTypes DEF Ordered, HeapOrder, HandedOutOnce
<1>7. FifoWithinPriority'
  BY <1>1, <1>2, <1>3, EntryTypes DEF Ordered, HeapOrder, FifoWithinPriority
<1>8. NoPriorityInversion'
  BY <1>1, <1>2, <1>3, EntryTypes DEF Ordered, HeapOrder, NoPriorityInversion
<1> QED BY <1>5, <1>6, <1>7, <1>8 DEF Ordered

(* Every step keeps the order. *)
LEMMA OrderedStep == TypeOK /\ Ordered /\ [Next]_vars => Ordered'
<1> SUFFICES ASSUME TypeOK, Ordered, [Next]_vars PROVE Ordered'
  OBVIOUS
<1> DEFINE Kept == /\ outgoing' \in SUBSET outgoing
                   /\ popped' = popped
                   /\ sequence_counter' = sequence_counter
                   /\ stats'.total_dequeued \in Nat
                   /\ stats'.total_dequeued >= stats.total_dequeued
<1>1. ASSUME Kept PROVE Ordered'
  BY <1>1, EntryTypes DEF Ordered, HeapOrder, HandedOutOnce, FifoWithinPriority,
                          NoPriorityInversion
<1>2. ASSUME NEW t \in Callers,
             EnqueueIncoming(t) \/ RejectFull(t) \/ Close(t) \/ NotifyWaiters(t) \/ Clear(t)
      PROVE  Kept
  BY <1>2, EntryTypes DEF TypeOK, EnqueueIncoming, RejectFull, Close, NotifyWaiters, Clear,
                          Grown, QueueStats, qvars, history
<1>3. ASSUME NEW c \in Consumers,
             DequeueIncoming(c) \/ DequeueNone(c) \/ DequeueUnlock(c) \/ DequeueWait(c)
      PROVE  Kept
  BY <1>3, EntryTypes DEF DequeueIncoming, DequeueNone, DequeueUnlock, DequeueWait,
                          Shrunk, qvars, history
<1>4. CASE UNCHANGED vars
  <2>1. Kept
    BY <1>4, EntryTypes DEF vars
  <2> QED BY <1>1, <2>1
<1> HIDE DEF Kept
<1> QED BY <1>1, <1>2, <1>3, <1>4, OrderedEnqueue, OrderedDequeue DEF Next, Consume

(* The initial queue is ordered. *)
LEMMA OrderedInit == Init => Ordered
BY DEF Init, Ordered, HeapOrder, HandedOutOnce, FifoWithinPriority, NoPriorityInversion

(* dequeue_outgoing keeps the order of acceptance within a priority. *)
THEOREM FifoWithinPriorityHolds == Spec => []FifoWithinPriority
<1>1. Init => TypeOK /\ Ordered
  BY TypeInit, OrderedInit
<1>2. TypeOK /\ Ordered /\ [Next]_vars => (TypeOK /\ Ordered)'
  BY TypeStep, OrderedStep
<1>3. Ordered => FifoWithinPriority
  BY DEF Ordered
<1> QED BY <1>1, <1>2, <1>3, PTL DEF Spec

(* No less urgent telegram overtakes one that was already accepted. *)
THEOREM NoPriorityInversionHolds == Spec => []NoPriorityInversion
<1>1. Init => TypeOK /\ Ordered
  BY TypeInit, OrderedInit
<1>2. TypeOK /\ Ordered /\ [Next]_vars => (TypeOK /\ Ordered)'
  BY TypeStep, OrderedStep
<1>3. Ordered => NoPriorityInversion
  BY DEF Ordered
<1> QED BY <1>1, <1>2, <1>3, PTL DEF Spec

(* No outgoing telegram is handed out twice. *)
THEOREM HandedOutOnceHolds == Spec => []HandedOutOnce
<1>1. Init => TypeOK /\ Ordered
  BY TypeInit, OrderedInit
<1>2. TypeOK /\ Ordered /\ [Next]_vars => (TypeOK /\ Ordered)'
  BY TypeStep, OrderedStep
<1>3. Ordered => HandedOutOnce
  BY DEF Ordered
<1> QED BY <1>1, <1>2, <1>3, PTL DEF Spec

-----------------------------------------------------------------------------
(* The numbers that the bookkeeping is about are naturals. *)
LEMMA SizesAreNatural ==
    ASSUME TypeOK
    PROVE  /\ Cardinality(outgoing) \in Nat /\ Len(incoming) \in Nat
           /\ MaxSize \in Nat /\ cleared \in Nat
           /\ stats \in QueueStats
           /\ stats.total_enqueued \in Nat /\ stats.total_dequeued \in Nat
           /\ stats.current_size \in Nat /\ stats.peak_size \in Nat
BY HeapSize, QueueAssumption DEF TypeOK, QueueStats

(* Nothing is lost or counted twice, and both directions stay bounded. *)
Counted == Conservation /\ Bounded

(* Two directions hold at most twice what one holds. *)
LEMMA SumBound ==
    ASSUME NEW a \in Nat, NEW b \in Nat, NEW m \in Nat, a <= m, b <= m
    PROVE  a + b <= 2 * m
OBVIOUS

(* Moving one telegram from one column of the books to another. *)
LEMMA Transfer ==
    ASSUME TypeOK, Conservation
    PROVE  /\ stats.total_enqueued + 1
                = stats.total_dequeued + cleared + (stats.current_size + 1)
           /\ stats.total_enqueued
                = (stats.total_dequeued + 1) + cleared + (stats.current_size - 1)
<1>1. stats.total_enqueued = stats.total_dequeued + cleared + stats.current_size
  BY DEF Conservation
<1>2. /\ stats.total_enqueued \in Nat /\ stats.total_dequeued \in Nat
      /\ stats.current_size \in Nat /\ cleared \in Nat
  BY SizesAreNatural
<1>3. stats.total_enqueued + 1
        = stats.total_dequeued + cleared + (stats.current_size + 1)
  BY <1>1, <1>2
<1>4. stats.total_enqueued
        = (stats.total_dequeued + 1) + cleared + (stats.current_size - 1)
  BY <1>1, <1>2
<1> QED BY <1>3, <1>4

(* What clear() moves from the queue's column to the cleared one. *)
LEMMA ClearedBooks ==
    ASSUME NEW e \in Nat, NEW d \in Nat, NEW c \in Nat, NEW s \in Nat,
           NEW o \in Nat, NEW i \in Nat, e = d + c + s, s = o + i
    PROVE  e = d + (c + o + i) + 0
OBVIOUS

(* The books after one more telegram was accepted, in either direction. *)
LEMMA CountedGrown ==
    ASSUME TypeOK, Counted, NEW n \in Nat,
           stats' = Grown(stats, n),
           n = stats.current_size + 1,
           Cardinality(outgoing') \in Nat, Len(incoming') \in Nat,
           Cardinality(outgoing') + Len(incoming') = n,
           Cardinality(outgoing') <= MaxSize, Len(incoming') <= MaxSize,
           cleared' = cleared
    PROVE  Counted'
<1>1. /\ stats'.total_enqueued = stats.total_enqueued + 1
      /\ stats'.total_dequeued = stats.total_dequeued
      /\ stats'.current_size = n
      /\ stats'.peak_size = IF n > stats.peak_size THEN n ELSE stats.peak_size
  BY SizesAreNatural, GrownStats, Zenon
<1>2. stats'.current_size = Cardinality(outgoing') + Len(incoming')
  BY <1>1
<1>3. stats'.total_enqueued = stats'.total_dequeued + cleared' + stats'.current_size
  BY <1>1, Transfer DEF Counted
<1>4. n <= 2 * MaxSize
  BY SumBound, SizesAreNatural
<1>5. stats'.current_size <= stats'.peak_size /\ stats'.peak_size <= 2 * MaxSize
  <2>1. CASE n > stats.peak_size
    BY <1>1, <1>4, <2>1
  <2>2. CASE ~(n > stats.peak_size)
    BY <1>1, <2>2, SizesAreNatural DEF Counted, Bounded
  <2> QED BY <2>1, <2>2
<1> QED BY <1>2, <1>3, <1>5 DEF Counted, Conservation, Bounded

(* The books after one telegram was taken, in either direction. *)
LEMMA CountedShrunk ==
    ASSUME TypeOK, Counted, NEW n \in Nat,
           stats' = Shrunk(stats, n),
           n = stats.current_size - 1,
           Cardinality(outgoing') \in Nat, Len(incoming') \in Nat,
           Cardinality(outgoing') + Len(incoming') = n,
           Cardinality(outgoing') <= MaxSize, Len(incoming') <= MaxSize,
           cleared' = cleared
    PROVE  Counted'
<1>1. /\ stats'.total_enqueued = stats.total_enqueued
      /\ stats'.total_dequeued = stats.total_dequeued + 1
      /\ stats'.current_size = n
      /\ stats'.peak_size = stats.peak_size
  BY SizesAreNatural, ShrunkStats, Zenon
<1>2. stats'.current_size = Cardinality(outgoing') + Len(incoming')
  BY <1>1
<1>3. stats'.total_enqueued = stats'.total_dequeued + cleared' + stats'.current_size
  BY <1>1, Transfer DEF Counted
<1>4. stats'.current_size <= stats'.peak_size
  <2>1. stats.current_size <= stats.peak_size
    BY DEF Counted, Bounded
  <2> QED BY <1>1, <2>1, SizesAreNatural
<1>5. stats'.peak_size <= 2 * MaxSize
  BY <1>1 DEF Counted, Bounded
<1> QED BY <1>2, <1>3, <1>4, <1>5 DEF Counted, Conservation, Bounded

(* An enqueue below the limit adds exactly one telegram. *)
LEMMA CountedEnqueueOutgoing ==
    ASSUME TypeOK, Ordered, Counted, NEW t \in Callers, NEW p \in UsedPriorities,
           EnqueueOutgoing(t, p)
    PROVE  Counted'
<1> DEFINE e == [priority |-> p, sequence |-> sequence_counter]
<1> DEFINE n == Cardinality(outgoing') + Len(incoming')
<1>1. e \notin outgoing
  BY EntryTypes DEF Ordered, HeapOrder
<1>2. Cardinality(outgoing') = Cardinality(outgoing) + 1
  BY <1>1, FS_AddElement, Zenon DEF TypeOK, EnqueueOutgoing
<1>3. incoming' = incoming /\ cleared' = cleared /\ Cardinality(outgoing) < MaxSize
  BY DEF EnqueueOutgoing, HasRoom, history
<1>4. n \in Nat
  BY <1>2, <1>3, SizesAreNatural
<1>4a. n = stats.current_size + 1
  <2>1. stats.current_size = Cardinality(outgoing) + Len(incoming)
    BY DEF Counted, Conservation
  <2> QED BY <1>2, <1>3, <2>1, SizesAreNatural
<1>5. stats' = Grown(stats, n)
  BY <1>3 DEF EnqueueOutgoing
<1>6. Cardinality(outgoing') <= MaxSize /\ Len(incoming') <= MaxSize
  BY <1>2, <1>3, SizesAreNatural DEF Counted, Bounded
<1> QED BY <1>2, <1>3, <1>4, <1>4a, <1>5, <1>6, SizesAreNatural, CountedGrown

(* The same for the FIFO. *)
LEMMA CountedEnqueueIncoming ==
    ASSUME TypeOK, Counted, NEW t \in Callers, EnqueueIncoming(t)
    PROVE  Counted'
<1> DEFINE n == Cardinality(outgoing') + Len(incoming')
<1>1. Len(incoming') = Len(incoming) + 1
  BY SizesAreNatural, AppendProperties DEF TypeOK, EnqueueIncoming
<1>2. outgoing' = outgoing /\ cleared' = cleared /\ Len(incoming) < MaxSize
  BY DEF EnqueueIncoming, HasRoom, history
<1>3. n \in Nat
  BY <1>1, <1>2, SizesAreNatural
<1>3a. n = stats.current_size + 1
  <2>1. stats.current_size = Cardinality(outgoing) + Len(incoming)
    BY DEF Counted, Conservation
  <2> QED BY <1>1, <1>2, <2>1, SizesAreNatural
<1>4. stats' = Grown(stats, n)
  BY <1>2 DEF EnqueueIncoming
<1>5. Cardinality(outgoing') <= MaxSize /\ Len(incoming') <= MaxSize
  BY <1>1, <1>2, SizesAreNatural DEF Counted, Bounded
<1> QED BY <1>1, <1>2, <1>3, <1>3a, <1>4, <1>5, SizesAreNatural, CountedGrown

(* A dequeue takes away exactly one telegram, whichever the direction. *)
LEMMA CountedDequeue ==
    ASSUME TypeOK, Counted, NEW c \in Consumers,
           DequeueOutgoing(c) \/ DequeueIncoming(c)
    PROVE  Counted'
<1> DEFINE n == Cardinality(outgoing') + Len(incoming')
<1>1. CASE DequeueOutgoing(c)
  <2>1. /\ Cardinality(outgoing') = Cardinality(outgoing) - 1
        /\ Cardinality(outgoing') \in Nat
    BY <1>1, FS_RemoveElement, FS_CardinalityType DEF TypeOK, DequeueOutgoing
  <2>2. incoming' = incoming /\ cleared' = cleared
    BY <1>1 DEF DequeueOutgoing
  <2>3. n \in Nat
    BY <2>1, <2>2, SizesAreNatural
  <2>3a. n = stats.current_size - 1
    <3>1. stats.current_size = Cardinality(outgoing) + Len(incoming)
      BY DEF Counted, Conservation
    <3> QED BY <2>1, <2>2, <3>1, SizesAreNatural
  <2>4. stats' = Shrunk(stats, n)
    BY <1>1, <2>2 DEF DequeueOutgoing
  <2>5. Cardinality(outgoing') <= MaxSize /\ Len(incoming') <= MaxSize
    BY <2>1, <2>2, SizesAreNatural DEF Counted, Bounded
  <2> QED BY <2>1, <2>2, <2>3, <2>3a, <2>4, <2>5, SizesAreNatural, CountedShrunk
<1>2. CASE DequeueIncoming(c)
  <2>1. Len(incoming') = Len(incoming) - 1 /\ Len(incoming') \in Nat
    BY <1>2, HeadTailProperties, LenProperties DEF TypeOK, DequeueIncoming
  <2>2. outgoing' = outgoing /\ cleared' = cleared
    BY <1>2 DEF DequeueIncoming
  <2>3. n \in Nat
    BY <2>1, <2>2, SizesAreNatural
  <2>3a. n = stats.current_size - 1
    <3>1. stats.current_size = Cardinality(outgoing) + Len(incoming)
      BY DEF Counted, Conservation
    <3> QED BY <2>1, <2>2, <3>1, SizesAreNatural
  <2>4. stats' = Shrunk(stats, n)
    BY <1>2, <2>2 DEF DequeueIncoming
  <2>5. Cardinality(outgoing') <= MaxSize /\ Len(incoming') <= MaxSize
    BY <2>1, <2>2, SizesAreNatural DEF Counted, Bounded
  <2> QED BY <2>1, <2>2, <2>3, <2>3a, <2>4, <2>5, SizesAreNatural, CountedShrunk
<1> QED BY <1>1, <1>2

(* Every step keeps the books. *)
LEMMA CountedStep == TypeOK /\ Ordered /\ Counted /\ [Next]_vars => Counted'
<1> SUFFICES ASSUME TypeOK, Ordered, Counted, [Next]_vars PROVE Counted'
  OBVIOUS
<1>1. ASSUME NEW t \in Callers, RejectFull(t) PROVE Counted'
  <2>1. /\ stats'.total_enqueued = stats.total_enqueued
        /\ stats'.total_dequeued = stats.total_dequeued
        /\ stats'.current_size = stats.current_size
        /\ stats'.peak_size = stats.peak_size
    BY SizesAreNatural, <1>1 DEF RejectFull, QueueStats
  <2>2. outgoing' = outgoing /\ incoming' = incoming /\ cleared' = cleared
    BY <1>1 DEF RejectFull, history
  <2> QED BY <2>1, <2>2 DEF Counted, Conservation, Bounded
<1>2. ASSUME NEW t \in Callers, Clear(t) PROVE Counted'
  <2>1. /\ stats'.total_enqueued = stats.total_enqueued
        /\ stats'.total_dequeued = stats.total_dequeued
        /\ stats'.current_size = 0
        /\ stats'.peak_size = stats.peak_size
    BY SizesAreNatural, <1>2 DEF Clear, QueueStats
  <2>2. Cardinality(outgoing') = 0 /\ Len(incoming') = 0
    BY <1>2, FS_EmptySet, EmptySeq DEF Clear
  <2>3. cleared' = cleared + Cardinality(outgoing) + Len(incoming)
    BY <1>2 DEF Clear
  <2>4. /\ stats.total_enqueued = stats.total_dequeued + cleared + stats.current_size
        /\ stats.current_size = Cardinality(outgoing) + Len(incoming)
        /\ stats.current_size <= stats.peak_size /\ stats.peak_size <= 2 * MaxSize
    BY DEF Counted, Conservation, Bounded
  <2>5. stats'.current_size = Cardinality(outgoing') + Len(incoming')
    BY <2>1, <2>2
  <2>6. stats.total_enqueued
          = stats.total_dequeued + (cleared + Cardinality(outgoing) + Len(incoming)) + 0
    BY <2>4, SizesAreNatural, ClearedBooks
  <2>7. stats'.total_enqueued = stats'.total_dequeued + cleared' + stats'.current_size
    BY <2>1, <2>3, <2>6
  <2>8. Cardinality(outgoing') <= MaxSize /\ Len(incoming') <= MaxSize
    BY <2>2, QueueAssumption
  <2>9. stats'.current_size <= stats'.peak_size /\ stats'.peak_size <= 2 * MaxSize
    BY <2>1, <2>4, SizesAreNatural
  <2> QED BY <2>5, <2>7, <2>8, <2>9 DEF Counted, Conservation, Bounded
<1>3. ASSUME UNCHANGED <<outgoing, incoming, stats, cleared>> PROVE Counted'
  BY <1>3 DEF Counted, Conservation, Bounded
<1>4. ASSUME NEW t \in Callers, Close(t) \/ NotifyWaiters(t) PROVE Counted'
  BY <1>3, <1>4 DEF Close, NotifyWaiters, qvars, history
<1>5. ASSUME NEW c \in Consumers, DequeueNone(c) \/ DequeueUnlock(c) \/ DequeueWait(c)
      PROVE  Counted'
  BY <1>3, <1>5 DEF DequeueNone, DequeueUnlock, DequeueWait, qvars, history
<1>6. CASE UNCHANGED vars
  BY <1>3, <1>6 DEF vars
<1> QED BY <1>1, <1>2, <1>4, <1>5, <1>6, CountedEnqueueOutgoing, CountedEnqueueIncoming,
           CountedDequeue DEF Next, Consume

(* The initial queue is empty and its books are balanced. *)
LEMMA CountedInit == Init => Counted
BY FS_EmptySet, EmptySeq, QueueAssumption DEF Init, Counted, Conservation, Bounded

(* No telegram is lost, invented or counted twice. *)
THEOREM ConservationHolds == Spec => []Conservation
<1>1. Init => TypeOK /\ Ordered /\ Counted
  BY TypeInit, OrderedInit, CountedInit
<1>2. TypeOK /\ Ordered /\ Counted /\ [Next]_vars => (TypeOK /\ Ordered /\ Counted)'
  BY TypeStep, OrderedStep, CountedStep
<1>3. Counted => Conservation
  BY DEF Counted
<1> QED BY <1>1, <1>2, <1>3, PTL DEF Spec

(* Neither direction exceeds max_size. *)
THEOREM BoundedHolds == Spec => []Bounded
<1>1. Init => TypeOK /\ Ordered /\ Counted
  BY TypeInit, OrderedInit, CountedInit
<1>2. TypeOK /\ Ordered /\ Counted /\ [Next]_vars => (TypeOK /\ Ordered /\ Counted)'
  BY TypeStep, OrderedStep, CountedStep
<1>3. Counted => Bounded
  BY DEF Counted
<1> QED BY <1>1, <1>2, <1>3, PTL DEF Spec

-----------------------------------------------------------------------------
(* A consumer that returned None sees no telegram ever again. *)
LEMMA NoneStep == TypeOK /\ NoneIsFinal /\ [Next]_vars => NoneIsFinal'
<1> SUFFICES ASSUME TypeOK, NoneIsFinal, [Next]_vars PROVE NoneIsFinal'
  OBVIOUS
<1>1. ASSUME NEW t \in Callers, UnlockAndNotify(t) \/ NotifyWaiters(t),
             NEW c \in Consumers, wait'[c] = "none"
      PROVE  wait[c] = "none"
  BY <1>1 DEF UnlockAndNotify, NotifyWaiters, Woken
<1>2. ASSUME NEW t \in Callers, NEW p \in UsedPriorities,
             EnqueueOutgoing(t, p) \/ EnqueueIncoming(t)
      PROVE  NoneIsFinal'
  BY <1>1, <1>2 DEF NoneIsFinal, EnqueueOutgoing, EnqueueIncoming, Accepting
<1>3. ASSUME NEW t \in Callers, EnqueueIncoming(t) PROVE NoneIsFinal'
  BY <1>1, <1>3 DEF NoneIsFinal, EnqueueIncoming, Accepting
<1>4. ASSUME NEW t \in Callers, RejectFull(t) \/ Close(t) \/ NotifyWaiters(t) \/ Clear(t)
      PROVE  NoneIsFinal'
  BY <1>1, <1>4 DEF NoneIsFinal, Drained, RejectFull, Close, NotifyWaiters, Clear,
                    tasks, qvars
<1>5. ASSUME NEW c \in Consumers, DequeueOutgoing(c) \/ DequeueIncoming(c)
      PROVE  NoneIsFinal'
  BY <1>5 DEF NoneIsFinal, Drained, DequeueOutgoing, DequeueIncoming, tasks
<1>6. ASSUME NEW c \in Consumers, DequeueNone(c) \/ DequeueUnlock(c) \/ DequeueWait(c)
      PROVE  NoneIsFinal'
  BY <1>6 DEF TypeOK, NoneIsFinal, Drained, DequeueNone, DequeueUnlock, DequeueWait, qvars
<1>7. CASE UNCHANGED vars
  BY <1>7 DEF NoneIsFinal, Drained, vars
<1> QED BY <1>2, <1>3, <1>4, <1>5, <1>6, <1>7 DEF Next, Consume

(* None is final: a consumer may stop when it sees it. *)
THEOREM NoneIsFinalHolds == Spec => []NoneIsFinal
<1>1. Init => NoneIsFinal
  BY DEF Init, NoneIsFinal
<1> QED BY <1>1, TypeInit, TypeStep, NoneStep, PTL DEF Spec

-----------------------------------------------------------------------------
(* Arrival numbers grow along the FIFO. *)
LEMMA IncomingOrderStep ==
    TypeOK /\ IncomingOrder /\ [Next]_vars => IncomingOrder' /\ (lastIn' # lastIn => lastIn' > lastIn)
<1> SUFFICES ASSUME TypeOK, IncomingOrder, [Next]_vars
             PROVE  IncomingOrder' /\ (lastIn' # lastIn => lastIn' > lastIn)
  OBVIOUS
<1> DEFINE Goal == IncomingOrder' /\ (lastIn' # lastIn => lastIn' > lastIn)
<1>0. /\ Len(incoming) \in Nat
      /\ \A i \in 1..Len(incoming) : incoming[i] \in Nat
      /\ lastIn \in Nat
      /\ stats \in QueueStats
      /\ stats.total_enqueued \in Nat
  BY HeapSize, ElementOfSeq DEF TypeOK, QueueStats
<1>1. ASSUME incoming' = incoming \/ incoming' = <<>>,
             lastIn' = lastIn,
             stats'.total_enqueued \in Nat,
             stats'.total_enqueued >= stats.total_enqueued
      PROVE  Goal
  BY <1>0, <1>1, EmptySeq DEF IncomingOrder
<1>2. ASSUME NEW t \in Callers, NEW p \in UsedPriorities, EnqueueOutgoing(t, p)
      PROVE  Goal
  BY <1>0, <1>1, <1>2 DEF EnqueueOutgoing, Grown, history
<1>3. ASSUME NEW t \in Callers, EnqueueIncoming(t) PROVE Goal
  <2>1. /\ Len(incoming') = Len(incoming) + 1
        /\ \A i \in 1..Len(incoming) : incoming'[i] = incoming[i]
        /\ incoming'[Len(incoming) + 1] = stats.total_enqueued + 1
    BY <1>0, <1>3, AppendProperties DEF TypeOK, EnqueueIncoming
  <2>2. lastIn' = lastIn /\ stats'.total_enqueued = stats.total_enqueued + 1
    BY <1>3 DEF EnqueueIncoming, Grown, history
  <2>3. \A i \in 1..Len(incoming') : i \in 1..Len(incoming) \/ i = Len(incoming) + 1
    BY <1>0, <2>1
  <2>4. \A i \in 1..Len(incoming') : lastIn' < incoming'[i]
                                   /\ incoming'[i] <= stats'.total_enqueued
    BY <1>0, <2>1, <2>2, <2>3 DEF IncomingOrder
  <2>5. \A i, j \in 1..Len(incoming') : i < j => incoming'[i] < incoming'[j]
    <3> SUFFICES ASSUME NEW i \in 1..Len(incoming'), NEW j \in 1..Len(incoming'), i < j
                 PROVE  incoming'[i] < incoming'[j]
      OBVIOUS
    <3>1. i \in 1..Len(incoming)
      BY <1>0, <2>1
    <3> QED BY <1>0, <2>1, <2>3, <3>1 DEF IncomingOrder
  <2> QED BY <1>0, <2>2, <2>4, <2>5 DEF IncomingOrder
<1>4. ASSUME NEW t \in Callers, RejectFull(t) \/ Close(t) \/ NotifyWaiters(t) \/ Clear(t)
      PROVE  Goal
  <2>1. stats'.total_enqueued = stats.total_enqueued
    BY <1>0, <1>4 DEF RejectFull, Close, NotifyWaiters, Clear, QueueStats, qvars
  <2> QED BY <1>0, <1>1, <1>4, <2>1 DEF RejectFull, Close, NotifyWaiters, Clear, qvars, history
<1>5. ASSUME NEW c \in Consumers, DequeueIncoming(c) PROVE Goal
  <2>1. /\ Len(incoming) > 0
        /\ Len(incoming') = Len(incoming) - 1
        /\ \A i \in 1..Len(incoming') : incoming'[i] = incoming[i + 1]
    BY <1>0, <1>5, EmptySeq, HeadTailProperties DEF TypeOK, DequeueIncoming
  <2>2. lastIn' = incoming[1] /\ stats'.total_enqueued = stats.total_enqueued
    BY <1>5 DEF DequeueIncoming, Shrunk
  <2>3. \A i \in 1..Len(incoming') : i + 1 \in 1..Len(incoming)
    BY <1>0, <2>1
  <2>4. 1 \in 1..Len(incoming)
    BY <1>0, <2>1
  <2>5. ASSUME NEW i \in 1..Len(incoming')
        PROVE  lastIn' < incoming'[i] /\ incoming'[i] <= stats'.total_enqueued
    <3>1. i + 1 \in 1..Len(incoming) /\ 1 < i + 1 /\ incoming'[i] = incoming[i + 1]
      BY <1>0, <2>1, <2>3
    <3> QED BY <2>2, <2>4, <3>1 DEF IncomingOrder
  <2>6. ASSUME NEW i \in 1..Len(incoming'), NEW j \in 1..Len(incoming'), i < j
        PROVE  incoming'[i] < incoming'[j]
    <3>1. /\ i + 1 \in 1..Len(incoming) /\ j + 1 \in 1..Len(incoming)
          /\ i + 1 < j + 1
          /\ incoming'[i] = incoming[i + 1] /\ incoming'[j] = incoming[j + 1]
      BY <1>0, <2>1, <2>3, <2>6
    <3> QED BY <3>1 DEF IncomingOrder
  <2>7. lastIn' > lastIn /\ lastIn' <= stats'.total_enqueued
    BY <1>0, <2>2, <2>4 DEF IncomingOrder
  <2> QED BY <2>5, <2>6, <2>7 DEF IncomingOrder
<1>6. ASSUME NEW c \in Consumers,
             DequeueOutgoing(c) \/ DequeueNone(c) \/ DequeueUnlock(c) \/ DequeueWait(c)
      PROVE  Goal
  BY <1>0, <1>1, <1>6 DEF DequeueOutgoing, DequeueNone, DequeueUnlock, DequeueWait,
                          Shrunk, qvars, history
<1>7. CASE UNCHANGED vars
  BY <1>0, <1>1, <1>7 DEF vars
<1>8. CASE \E t \in Callers : \/ \E p \in UsedPriorities : EnqueueOutgoing(t, p)
                             \/ EnqueueIncoming(t)
                             \/ RejectFull(t) \/ Close(t) \/ NotifyWaiters(t) \/ Clear(t)
  BY <1>2, <1>3, <1>4, <1>8
<1>9. CASE \E c \in Consumers : Consume(c)
  BY <1>5, <1>6, <1>9 DEF Consume
<1> QED BY <1>7, <1>8, <1>9 DEF Next

(* dequeue_incoming hands out telegrams in the order they arrived. *)
THEOREM IncomingFifoHolds == Spec => IncomingFifo
<1>1. Init => IncomingOrder
  BY EmptySeq DEF Init, IncomingOrder
<1>2. TypeOK /\ IncomingOrder /\ [Next]_vars
        => IncomingOrder' /\ [lastIn' # lastIn => lastIn' > lastIn]_vars
  BY IncomingOrderStep
<1> QED BY <1>1, <1>2, TypeInit, TypeStep, PTL DEF Spec, IncomingFifo

-----------------------------------------------------------------------------
(* Lanes: what it means that s lists the numbers of S in increasing order. *)
Lists(s, S) ==
    s \in Seq(Nat) /\ Increasing(s) /\ S = {s[i] : i \in DOMAIN s}

(* Every set of naturals has a least element. *)
LEMMA LeastNatural ==
  ASSUME NEW D \in SUBSET Nat, D # {}
  PROVE  \E k \in D : \A i \in D : k <= i
  <1>1. PICK R : R = OpToRel(<, Nat)
    BY Zenon
  <1>2. IsWellFoundedOn(R, Nat)
    BY <1>1, NatLessThanWellFounded, Zenon
  <1>3. PICK k \in D : \A i \in D : ~(<<i, k>> \in R)
    BY <1>2, WFMin, Zenon
  <1>4. \A i \in D : ~(i < k)
    BY <1>1, <1>3, Zenon DEF OpToRel
  <1> QED BY <1>4

LEMMA ListsFacts ==
  ASSUME NEW S, NEW s, Lists(s, S)
  PROVE  /\ s \in Seq(Nat) /\ Len(s) \in Nat
         /\ \A i : i \in DOMAIN s <=> i \in Int /\ 1 <= i /\ i <= Len(s)
         /\ \A i \in DOMAIN s : s[i] \in Nat /\ s[i] \in S
         /\ \A x \in S : \E i \in DOMAIN s : s[i] = x
         /\ \A i, j \in DOMAIN s : i < j => s[i] < s[j]
  <1>1. s \in Seq(Nat) /\ Increasing(s) /\ S = {s[i] : i \in DOMAIN s}
    BY DEF Lists
  <1>2. /\ Len(s) \in Nat /\ \A i \in DOMAIN s : s[i] \in Nat
        /\ \A i : i \in DOMAIN s <=> i \in Int /\ 1 <= i /\ i <= Len(s)
    BY <1>1
  <1> QED BY <1>1, <1>2, Zenon DEF Increasing

(* Two sequences that list the same numbers in order agree. *)
LEMMA ListsUnique ==
  ASSUME NEW S, NEW s, NEW r, Lists(s, S), Lists(r, S)
  PROVE  s = r
  <1>1. /\ s \in Seq(Nat) /\ Len(s) \in Nat
        /\ \A i : i \in DOMAIN s <=> i \in Int /\ 1 <= i /\ i <= Len(s)
        /\ \A i \in DOMAIN s : s[i] \in Nat /\ s[i] \in S
        /\ \A x \in S : \E i \in DOMAIN s : s[i] = x
        /\ \A i, j \in DOMAIN s : i < j => s[i] < s[j]
    BY ListsFacts, Zenon
  <1>2. /\ r \in Seq(Nat) /\ Len(r) \in Nat
        /\ \A i : i \in DOMAIN r <=> i \in Int /\ 1 <= i /\ i <= Len(r)
        /\ \A i \in DOMAIN r : r[i] \in Nat /\ r[i] \in S
        /\ \A x \in S : \E i \in DOMAIN r : r[i] = x
        /\ \A i, j \in DOMAIN r : i < j => r[i] < r[j]
    BY ListsFacts, Zenon
  <1>3. ASSUME NEW i \in DOMAIN s, i \in DOMAIN r, s[i] # r[i] PROVE FALSE
    <2> DEFINE D == {k \in Nat : k \in DOMAIN s /\ k \in DOMAIN r /\ s[k] # r[k]}
    <2>1. i \in D /\ D \in SUBSET Nat
      <3>1. i \in Nat
        BY <1>1, <1>3
      <3> QED BY <1>3, <3>1
    <2>2. PICK k \in D : \A j \in D : k <= j
      BY <2>1, LeastNatural, Zenon
    <2>3. /\ k \in DOMAIN s /\ k \in DOMAIN r /\ s[k] # r[k] /\ k \in Nat
          /\ s[k] \in Nat /\ r[k] \in Nat
      BY <1>1, <1>2, <2>2, Zenon
    <2>4. ASSUME NEW j \in DOMAIN s, j \in DOMAIN r, j < k PROVE s[j] = r[j]
      <3>1. j \in Nat /\ ~(k <= j)
        BY <1>1, <2>3, <2>4
      <3> QED BY <2>2, <2>4, <3>1, Zenon
    <2>5. CASE s[k] < r[k]
      <3>1. PICK j \in DOMAIN r : r[j] = s[k]
        BY <1>1, <1>2, <2>3, Zenon
      <3>2. j < k /\ j \in DOMAIN s
        <4>1. j \in Int /\ 1 <= j /\ k \in Int /\ k <= Len(s)
          BY <1>1, <1>2, <2>3, Zenon
        <4>2. ~(k < j) /\ j # k
          BY <1>2, <2>3, <2>5, <3>1
        <4> QED BY <1>1, <4>1, <4>2
      <3>3. s[j] = r[j] /\ s[j] < s[k]
        BY <1>1, <2>3, <2>4, <3>2, Zenon
      <3> QED BY <2>3, <3>1, <3>3
    <2>6. CASE r[k] < s[k]
      <3>1. PICK j \in DOMAIN s : s[j] = r[k]
        BY <1>1, <1>2, <2>3, Zenon
      <3>2. j < k /\ j \in DOMAIN r
        <4>1. j \in Int /\ 1 <= j /\ k \in Int /\ k <= Len(r)
          BY <1>1, <1>2, <2>3, Zenon
        <4>2. ~(k < j) /\ j # k
          BY <1>1, <2>3, <2>6, <3>1
        <4> QED BY <1>2, <4>1, <4>2
      <3>3. s[j] = r[j] /\ r[j] < r[k]
        BY <1>2, <2>3, <2>4, <3>2, Zenon
      <3> QED BY <2>3, <3>1, <3>3
    <2> QED BY <2>3, <2>5, <2>6
  <1>4. ASSUME Len(s) < Len(r) PROVE FALSE
    <2>1. Len(s) + 1 \in DOMAIN r /\ r[Len(s) + 1] \in Nat
      BY <1>1, <1>2, <1>4
    <2>2. PICK j \in DOMAIN s : s[j] = r[Len(s) + 1]
      BY <1>1, <1>2, <2>1, Zenon
    <2>3. j \in DOMAIN r /\ j < Len(s) + 1
      BY <1>1, <1>2, <1>4
    <2>4. r[j] = r[Len(s) + 1] /\ r[j] < r[Len(s) + 1]
      BY <1>2, <1>3, <2>1, <2>2, <2>3, Zenon
    <2> QED BY <2>1, <2>4
  <1>5. ASSUME Len(r) < Len(s) PROVE FALSE
    <2>1. Len(r) + 1 \in DOMAIN s /\ s[Len(r) + 1] \in Nat
      BY <1>1, <1>2, <1>5
    <2>2. PICK j \in DOMAIN r : r[j] = s[Len(r) + 1]
      BY <1>1, <1>2, <2>1, Zenon
    <2>3. j \in DOMAIN s /\ j < Len(r) + 1
      BY <1>1, <1>2, <1>5
    <2>4. s[j] = s[Len(r) + 1] /\ s[j] < s[Len(r) + 1]
      BY <1>1, <1>3, <2>1, <2>2, <2>3, Zenon
    <2> QED BY <2>1, <2>4
  <1>6. Len(s) = Len(r)
    BY <1>1, <1>2, <1>4, <1>5
  <1>7. \A i \in 1 .. Len(s) : s[i] = r[i]
    BY <1>1, <1>2, <1>3, <1>6
  <1>8. s \in Seq(Nat) /\ r \in Seq(Nat)
    BY <1>1, <1>2
  <1> QED BY <1>6, <1>7, <1>8, SeqEqual, Zenon

(* What lists a set is as long as the set is large. *)
LEMMA ListsSize ==
  ASSUME NEW S, NEW s, Lists(s, S)
  PROVE  IsFiniteSet(S) /\ Cardinality(S) = Len(s) /\ s \in [1 .. Len(s) -> S]
  <1>1. /\ s \in Seq(Nat) /\ Len(s) \in Nat
        /\ \A i : i \in DOMAIN s <=> i \in Int /\ 1 <= i /\ i <= Len(s)
        /\ \A i \in DOMAIN s : s[i] \in Nat /\ s[i] \in S
        /\ \A x \in S : \E i \in DOMAIN s : s[i] = x
        /\ \A i, j \in DOMAIN s : i < j => s[i] < s[j]
    BY ListsFacts, Zenon
  <1>2. DOMAIN s = 1 .. Len(s) /\ s = [i \in 1 .. Len(s) |-> s[i]]
    BY <1>1
  <1>3. s \in [1 .. Len(s) -> S]
    BY <1>1, <1>2, Zenon
  <1>4. ASSUME NEW i \in DOMAIN s, NEW j \in DOMAIN s, s[i] = s[j] PROVE i = j
    <2>1. i \in Int /\ j \in Int /\ s[i] \in Nat
      BY <1>1, Zenon
    <2>2. ~(i < j) /\ ~(j < i)
      <3>1. ~(s[i] < s[j]) /\ ~(s[j] < s[i])
        BY <1>4, <2>1
      <3> QED BY <1>1, <3>1, Zenon
    <2> QED BY <2>1, <2>2
  <1>5. s \in Bijection(1 .. Len(s), S)
    BY <1>1, <1>2, <1>3, <1>4, Zenon DEF Bijection, Injection, Surjection, IsInjective
  <1>6. ExistsBijection(1 .. Len(s), S)
    BY <1>5, Zenon DEF ExistsBijection
  <1>7. PICK n \in Nat : n = Len(s)
    BY <1>1, Zenon
  <1>8. IsFiniteSet(1 .. n) /\ Cardinality(1 .. n) = n
    <2>1. 1 \in Int /\ n \in Int
      OBVIOUS
    <2>2. IsFiniteSet(1 .. n) /\ Cardinality(1 .. n) = IF 1 > n THEN 0 ELSE n - 1 + 1
      BY <2>1, FS_Interval, Zenon
    <2> QED BY <2>2
  <1> QED BY <1>3, <1>6, <1>7, <1>8, FS_Bijection, Zenon

(* It is the one that Listed chooses. *)
LEMMA ListedIs ==
  ASSUME NEW S, NEW s, Lists(s, S)
  PROVE  Listed(S) = s
  <1>1. Increasing(s) /\ S \subseteq Nat
    <2>1. /\ \A i \in DOMAIN s : s[i] \in Nat /\ s[i] \in S
          /\ \A x \in S : \E i \in DOMAIN s : s[i] = x
      BY ListsFacts
    <2> QED BY <2>1 DEF Lists
  <1>2. IsFiniteSet(S) /\ Cardinality(S) = Len(s) /\ s \in [1 .. Len(s) -> S]
    BY ListsSize
  <1>3. PICK n \in Nat : n = Cardinality(S)
    BY <1>2, ListsFacts, Zenon
  <1>4. s \in [1 .. Cardinality(S) -> S]
    BY <1>2, Zenon
  <1>5. PICK c : c = Listed(S)
    BY Zenon
  <1>6. c \in [1 .. n -> S] /\ Increasing(c)
    BY <1>1, <1>3, <1>4, <1>5, Zenon DEF Listed
  <1>7. c \in Seq(Nat) /\ Len(c) = n
    <2>1. c \in [1 .. n -> Nat]
      BY <1>1, <1>6, Zenon
    <2>2. c \in Seq(Nat) /\ Len(c) = n
      BY <2>1
    <2> QED BY <2>2
  <1>8. PICK T : T = {c[i] : i \in DOMAIN c}
    BY Zenon
  <1>9. Lists(c, T)
    BY <1>6, <1>7, <1>8, Zenon DEF Lists
  <1>10. Cardinality(T) = n
    BY <1>7, <1>9, ListsSize, Zenon
  <1>11. T \in SUBSET S
    <2>1. \A i \in DOMAIN c : c[i] \in S
      BY <1>6, Zenon
    <2> QED BY <1>8, <2>1, Zenon
  <1>12. S = T
    BY <1>2, <1>3, <1>10, <1>11, FS_Subset, Zenon
  <1> QED BY <1>5, <1>9, <1>12, ListsUnique, Zenon

(* The lane of a telegram that is accepted, and of one that leaves. *)
LEMMA ListsAppend ==
  ASSUME NEW S, NEW s, Lists(s, S), NEW n \in Nat, \A m \in S : m < n
  PROVE  Lists(Append(s, n), S \cup {n})
  <1>1. /\ s \in Seq(Nat) /\ Increasing(s) /\ S = {s[i] : i \in DOMAIN s}
        /\ \A i \in DOMAIN s : s[i] < n
    BY DEF Lists
  <1>2. /\ Append(s, n) \in Seq(Nat) /\ DOMAIN Append(s, n) = DOMAIN s \cup {Len(s) + 1}
        /\ Append(s, n)[Len(s) + 1] = n
        /\ \A i \in DOMAIN s : Append(s, n)[i] = s[i] /\ i < Len(s) + 1 /\ i \in Nat
        /\ Len(s) + 1 \in Nat
    BY <1>1
  <1>3. Increasing(Append(s, n))
    BY <1>1, <1>2 DEF Increasing
  <1>4. S \cup {n} = {Append(s, n)[i] : i \in DOMAIN Append(s, n)}
    BY <1>1, <1>2
  <1> QED BY <1>2, <1>3, <1>4, Zenon DEF Lists

LEMMA ListsTail ==
  ASSUME NEW S, NEW s, Lists(s, S), NEW n \in S, \A m \in S : n <= m
  PROVE  s # <<>> /\ Lists(Tail(s), S \ {n})
  <1>1. /\ s \in Seq(Nat) /\ Len(s) \in Nat
        /\ \A i : i \in DOMAIN s <=> i \in Int /\ 1 <= i /\ i <= Len(s)
        /\ \A i \in DOMAIN s : s[i] \in Nat /\ s[i] \in S
        /\ \A x \in S : \E i \in DOMAIN s : s[i] = x
        /\ \A i, j \in DOMAIN s : i < j => s[i] < s[j]
    BY ListsFacts, Zenon
  <1>2. PICK k \in DOMAIN s : s[k] = n
    BY <1>1, Zenon
  <1>3. 1 \in DOMAIN s /\ k \in Int /\ 1 <= k
    BY <1>1
  <1>4. s # <<>> /\ Len(s) >= 1
    BY <1>1, <1>3
  <1>5. s[1] = n
    <2>1. n <= s[1] /\ s[1] \in Nat /\ n \in Nat
      BY <1>1, <1>2, <1>3, Zenon
    <2>2. 1 < k => s[1] < n
      BY <1>1, <1>2, <1>3, Zenon
    <2> QED BY <1>2, <1>3, <2>1, <2>2
  <1>6. Tail(s) \in Seq(Nat) /\ Len(Tail(s)) = Len(s) - 1
    BY <1>1, <1>4
  <1>7. /\ \A i : i \in DOMAIN Tail(s) <=> i \in Int /\ 1 <= i /\ i <= Len(s) - 1
        /\ \A i \in DOMAIN Tail(s) : Tail(s)[i] = s[i + 1]
    BY <1>1, <1>4
  <1>8. \A i \in DOMAIN Tail(s) : i + 1 \in DOMAIN s /\ i \in Int /\ 1 < i + 1
    BY <1>1, <1>7
  <1>9. Increasing(Tail(s))
    BY <1>1, <1>7, <1>8 DEF Increasing
  <1>10. \A i \in DOMAIN Tail(s) : Tail(s)[i] \in S \ {n}
    <2>1. ASSUME NEW i \in DOMAIN Tail(s) PROVE s[i + 1] \in S /\ n < s[i + 1]
      BY <1>1, <1>3, <1>5, <1>8, Zenon
    <2>2. \A i \in DOMAIN Tail(s) : s[i + 1] # n
      BY <1>1, <1>8, <2>1
    <2> QED BY <1>7, <2>1, <2>2
  <1>11. ASSUME NEW x \in S \ {n} PROVE \E i \in DOMAIN Tail(s) : Tail(s)[i] = x
    <2>1. PICK j \in DOMAIN s : s[j] = x
      BY <1>1, Zenon
    <2>2. j # 1
      BY <1>5, <2>1
    <2>3. j \in Int /\ 1 <= j /\ j <= Len(s) /\ Len(s) \in Nat
      BY <1>1, Zenon
    <2>4. j - 1 \in Int /\ 1 <= j - 1 /\ j - 1 <= Len(s) - 1 /\ j - 1 + 1 = j
      BY <2>2, <2>3
    <2>5. j - 1 \in DOMAIN Tail(s) /\ Tail(s)[j - 1] = s[j]
      BY <1>7, <2>4, Zenon
    <2> QED BY <2>1, <2>5, Zenon
  <1>12. S \ {n} = {Tail(s)[i] : i \in DOMAIN Tail(s)}
    BY <1>10, <1>11, Zenon
  <1> QED BY <1>4, <1>6, <1>9, <1>12, Zenon DEF Lists

-----------------------------------------------------------------------------
(* The refinement: what each step does to the lanes. *)
LaneInv ==
    /\ \A e \in outgoing : e.priority \in UsedPriorities
    /\ \A p \in UsedPriorities : \E s : Lists(s, NumbersOf(p))
    /\ sequence_counter <= stats.total_enqueued

LEMMA ListsNone == Lists(<<>>, {})
  <1>1. <<>> \in Seq(Nat) /\ DOMAIN <<>> = {}
    OBVIOUS
  <1>2. Increasing(<<>>)
    BY <1>1, Zenon DEF Increasing
  <1>3. {} = {<<>>[i] : i \in DOMAIN <<>>}
    BY <1>1, Zenon
  <1> QED BY <1>1, <1>2, <1>3, Zenon DEF Lists

LEMMA LaneLists ==
  ASSUME LaneInv, NEW p \in UsedPriorities
  PROVE  Lists(Lane(p), NumbersOf(p))
  <1>1. PICK s : Lists(s, NumbersOf(p))
    BY Zenon DEF LaneInv
  <1>2. Lane(p) = s
    BY <1>1, ListedIs, Zenon DEF Lane
  <1> QED BY <1>1, <1>2, Zenon

(* If something lists the numbers of a lane after a step, the lane is that. *)
LEMMA LaneAfter ==
  ASSUME NEW p \in UsedPriorities, NEW s, Lists(s, NumbersOf(p)')
  PROVE  Lane(p)' = s
  <1>1. PICK S : S = NumbersOf(p)'
    BY Zenon
  <1>2. Listed(S) = s
    BY <1>1, ListedIs, Zenon
  <1>3. Lane(p)' = Listed(S)
    BY <1>1, Zenon DEF Lane
  <1> QED BY <1>2, <1>3, Zenon

(* The steps that leave the heap alone. *)
LEMMA LanesStay ==
  ASSUME outgoing' = outgoing
  PROVE  \A p : NumbersOf(p)' = NumbersOf(p) /\ Lane(p)' = Lane(p)
  <1>1. \A p : NumbersOf(p)' = NumbersOf(p)
    BY Zenon DEF NumbersOf
  <1>2. \A p : Lane(p)' = Lane(p)
    BY <1>1, Zenon DEF Lane
  <1> QED BY <1>1, <1>2

(* A telegram that is accepted goes to the end of its lane. *)
LEMMA LaneGrows ==
  ASSUME TypeOK, HeapOrder, LaneInv, NEW p \in UsedPriorities,
         outgoing' = outgoing \cup {[priority |-> p, sequence |-> sequence_counter]}
  PROVE  /\ \A q \in UsedPriorities : \E s : Lists(s, NumbersOf(q)')
         /\ Lane(p)' = Append(Lane(p), sequence_counter)
         /\ \A q \in UsedPriorities : q # p => Lane(q)' = Lane(q)
  <1>1. PICK n \in Nat : n = sequence_counter
    BY DEF TypeOK
  <1>2. PICK new : new = [priority |-> p, sequence |-> n]
    BY Zenon
  <1>3. new.priority = p /\ new.sequence = n /\ outgoing' = outgoing \cup {new}
    BY <1>1, <1>2
  <1>4. NumbersOf(p)' = NumbersOf(p) \cup {n}
    BY <1>3, Zenon DEF NumbersOf
  <1>5. ASSUME NEW q \in UsedPriorities, q # p PROVE NumbersOf(q)' = NumbersOf(q)
    BY <1>3, <1>5, Zenon DEF NumbersOf
  <1>6. \A m \in NumbersOf(p) : m < n
    BY <1>1, Zenon DEF NumbersOf, HeapOrder
  <1>7. Lists(Append(Lane(p), n), NumbersOf(p)')
    <2>1. Lists(Lane(p), NumbersOf(p))
      BY LaneLists, Zenon
    <2>2. PICK S, s : S = NumbersOf(p) /\ s = Lane(p)
      BY Zenon
    <2>3. Lists(Append(s, n), S \cup {n})
      BY <1>6, <2>1, <2>2, ListsAppend
    <2> QED BY <1>4, <2>2, <2>3, Zenon
  <1>8. Lane(p)' = Append(Lane(p), n)
    BY <1>7, LaneAfter, Zenon
  <1>9. ASSUME NEW q \in UsedPriorities, q # p
        PROVE  Lane(q)' = Lane(q) /\ Lists(Lane(q), NumbersOf(q)')
    <2>1. Lists(Lane(q), NumbersOf(q)')
      BY <1>5, <1>9, LaneLists, Zenon
    <2> QED BY <2>1, LaneAfter, Zenon
  <1> QED BY <1>1, <1>7, <1>8, <1>9, Zenon

(* The telegram that is popped is the first of its lane, and the lanes of the
   more urgent priorities are empty. *)
LEMMA LaneShrinks ==
  ASSUME TypeOK, HeapOrder, LaneInv, NEW e \in outgoing,
         \A o \in outgoing \ {e} : Before(e, o), outgoing' = outgoing \ {e}
  PROVE  /\ e.priority \in UsedPriorities
         /\ \A q \in UsedPriorities : \E s : Lists(s, NumbersOf(q)')
         /\ Lane(e.priority) # <<>>
         /\ Lane(e.priority)' = Tail(Lane(e.priority))
         /\ \A q \in UsedPriorities : q # e.priority => Lane(q)' = Lane(q)
         /\ \A q \in UsedPriorities : Rank[q] < Rank[e.priority] => Lane(q) = <<>>
  <1>1. PICK p, n : p = e.priority /\ n = e.sequence
    BY Zenon
  <1>2. p \in UsedPriorities /\ p \in DOMAIN Rank /\ n \in Nat
    BY <1>1, EntryTypes DEF LaneInv
  <1>3. n \in NumbersOf(p)
    BY <1>1, Zenon DEF NumbersOf
  <1>4. ASSUME NEW m \in NumbersOf(p) PROVE n <= m
    <2>1. PICK o \in outgoing : o.priority = p /\ o.sequence = m
      BY Zenon DEF NumbersOf
    <2>2. m \in Nat /\ (m = n \/ Before(e, o))
      BY <1>1, <2>1, EntryTypes, Zenon
    <2> QED BY <1>1, <1>2, <2>1, <2>2, RankType DEF Before
  <1>5. NumbersOf(p)' = NumbersOf(p) \ {n}
    <2>1. \A f \in outgoing : f.sequence = n => f = e
      BY <1>1, Zenon DEF HeapOrder
    <2> QED BY <1>1, <2>1, Zenon DEF NumbersOf
  <1>6. ASSUME NEW q \in UsedPriorities, q # p PROVE NumbersOf(q)' = NumbersOf(q)
    BY <1>1, <1>6, Zenon DEF NumbersOf
  <1>7. PICK S, s : S = NumbersOf(p) /\ s = Lane(p)
    BY Zenon
  <1>8. Lists(s, S) /\ n \in S /\ (\A m \in S : n <= m)
    BY <1>2, <1>3, <1>4, <1>7, LaneLists, Zenon
  <1>9. s # <<>> /\ Lists(Tail(s), S \ {n})
    BY <1>2, <1>8, ListsTail, Zenon
  <1>10. Lane(p)' = Tail(Lane(p)) /\ Lists(Tail(s), NumbersOf(p)')
    BY <1>2, <1>5, <1>7, <1>9, LaneAfter, Zenon
  <1>11. ASSUME NEW q \in UsedPriorities, q # p
         PROVE  Lane(q)' = Lane(q) /\ Lists(Lane(q), NumbersOf(q)')
    <2>1. Lists(Lane(q), NumbersOf(q)')
      BY <1>6, <1>11, LaneLists, Zenon
    <2> QED BY <2>1, LaneAfter, Zenon
  <1>12. ASSUME NEW q \in UsedPriorities, Rank[q] < Rank[p] PROVE Lane(q) = <<>>
    <2>1. q \in DOMAIN Rank
      BY QueueAssumption
    <2>2. ASSUME NEW o \in outgoing, o.priority = q PROVE FALSE
      <3>1. o # e
        BY <1>1, <1>2, <1>12, <2>1, <2>2, RankType
      <3>2. Before(e, o)
        BY <3>1, Zenon
      <3> QED BY <1>1, <1>2, <1>12, <2>1, <2>2, <3>2, RankType DEF Before
    <2>3. NumbersOf(q) = {}
      BY <2>2, Zenon DEF NumbersOf
    <2> QED BY <2>3, ListsNone, ListedIs, Zenon DEF Lane
  <1> QED BY <1>1, <1>2, <1>7, <1>9, <1>10, <1>11, <1>12, Zenon

LEMMA LanesEmpty ==
  ASSUME outgoing' = {}
  PROVE  \A p \in UsedPriorities : Lists(<<>>, NumbersOf(p)') /\ Lane(p)' = <<>>
  <1> SUFFICES ASSUME NEW p \in UsedPriorities
               PROVE  Lists(<<>>, NumbersOf(p)') /\ Lane(p)' = <<>>
    OBVIOUS
  <1>1. NumbersOf(p)' = {}
    BY Zenon DEF NumbersOf
  <1>2. Lists(<<>>, NumbersOf(p)')
    BY <1>1, ListsNone, Zenon
  <1> QED BY <1>2, LaneAfter, Zenon

(* The lanes hold no more telegrams than the heap. *)
LEMMA TakenSize ==
  ASSUME TypeOK, HeapOrder, LaneInv
  PROVE  /\ IsFiniteSet(Lanes!Taken)
         /\ Cardinality(Lanes!Taken) <= Cardinality(outgoing)
  <1> DEFINE Place(e) == <<e.priority, CHOOSE i \in DOMAIN Lane(e.priority) :
                                          Lane(e.priority)[i] = e.sequence>>
             place == [e \in outgoing |-> Place(e)]
  <1>1. Lanes!Taken = UNION {{p} \X DOMAIN Lane(p) : p \in UsedPriorities}
    BY Zenon DEF Lanes!Taken
  <1>2. ASSUME NEW e \in outgoing
        PROVE  /\ e.priority \in UsedPriorities
               /\ \E i \in DOMAIN Lane(e.priority) : Lane(e.priority)[i] = e.sequence
    <2>1. e.priority \in UsedPriorities /\ e.sequence \in NumbersOf(e.priority)
      BY Zenon DEF LaneInv, NumbersOf
    <2>2. NumbersOf(e.priority) = {Lane(e.priority)[i] : i \in DOMAIN Lane(e.priority)}
      BY <2>1, LaneLists, Zenon DEF Lists
    <2> QED BY <2>1, <2>2, Zenon
  <1>3. ASSUME NEW e \in outgoing PROVE place[e] \in Lanes!Taken
    <2>1. PICK i \in DOMAIN Lane(e.priority) : place[e] = <<e.priority, i>>
      BY <1>2, Zenon
    <2> QED BY <1>1, <1>2, <2>1
  <1>4. ASSUME NEW x \in Lanes!Taken PROVE \E e \in outgoing : place[e] = x
    <2>1. PICK p \in UsedPriorities : x \in {p} \X DOMAIN Lane(p)
      BY <1>1, Zenon
    <2>2. PICK i \in DOMAIN Lane(p) : x = <<p, i>>
      BY <2>1
    <2>3. Lane(p)[i] \in NumbersOf(p)
      BY LaneLists, Zenon DEF Lists
    <2>4. PICK e \in outgoing : e.priority = p /\ e.sequence = Lane(p)[i]
      BY <2>3, Zenon DEF NumbersOf
    <2>5. PICK j \in DOMAIN Lane(p) : place[e] = <<p, j>> /\ Lane(p)[j] = Lane(p)[i]
      BY <2>4, Zenon
    <2>6. PICK s : s = Lane(p)
      BY Zenon
    <2>7. s \in Seq(Nat) /\ Increasing(s) /\ i \in DOMAIN s /\ j \in DOMAIN s /\ s[j] = s[i]
      BY <2>5, <2>6, LaneLists, Zenon DEF Lists
    <2>8. i \in Nat /\ j \in Nat /\ s[i] \in Nat /\ s[j] \in Nat
      BY <2>7
    <2>9. ~(i < j) /\ ~(j < i)
      BY <2>7, <2>8 DEF Increasing
    <2>10. i = j
      BY <2>8, <2>9
    <2> QED BY <2>2, <2>5, <2>10, Zenon
  <1>5. place \in Surjection(outgoing, Lanes!Taken)
    <2>1. place \in [outgoing -> Lanes!Taken]
      BY <1>3, Zenon
    <2> QED BY <1>4, <2>1, Zenon DEF Surjection
  <1>6. IsFiniteSet(outgoing)
    BY Zenon DEF TypeOK
  <1> HIDE DEF place
  <1> QED BY <1>5, <1>6, FS_Surjection

LEMMA LaneInit == Init => LaneInv /\ Lanes!Init
  <1> SUFFICES ASSUME Init PROVE LaneInv /\ Lanes!Init
    OBVIOUS
  <1>1. outgoing = {} /\ incoming = <<>> /\ closed = FALSE
    BY Zenon DEF Init
  <1>2. sequence_counter = 0 /\ stats.total_enqueued = 0
    BY DEF Init
  <1>3. ASSUME NEW p \in UsedPriorities PROVE Lists(<<>>, NumbersOf(p)) /\ Lane(p) = <<>>
    <2>1. NumbersOf(p) = {}
      BY <1>1, Zenon DEF NumbersOf
    <2> QED BY <2>1, ListsNone, ListedIs, Zenon DEF Lane
  <1>4. LaneInv
    <2>1. sequence_counter <= stats.total_enqueued
      BY <1>2
    <2> QED BY <1>1, <1>3, <2>1, Zenon DEF LaneInv
  <1>5. [p \in UsedPriorities |-> Lane(p)] = [p \in UsedPriorities |-> <<>>]
    BY <1>3, Zenon
  <1> QED BY <1>1, <1>4, <1>5, Zenon DEF Lanes!Init

(* The map of the lanes, after a step. *)
LEMMA MapAfter ==
  ASSUME NEW L, L = [p \in UsedPriorities |-> Lane(p)],
         NEW p \in UsedPriorities, NEW s, Lane(p)' = s,
         \A q \in UsedPriorities : q # p => Lane(q)' = Lane(q)
  PROVE  [q \in UsedPriorities |-> Lane(q)]' = [L EXCEPT ![p] = s]
  BY Zenon

LEMMA EnqueueOutgoingLanes ==
  ASSUME TypeOK, HeapOrder, LaneInv, NEW t \in Callers, NEW p \in UsedPriorities,
         EnqueueOutgoing(t, p)
  PROVE  LaneInv' /\ Lanes!AcceptOut
  <1>1. /\ ~closed /\ Cardinality(outgoing) < MaxSize
        /\ stats.total_enqueued < MaxEnqueued
        /\ outgoing' = outgoing \cup {[priority |-> p, sequence |-> sequence_counter]}
        /\ sequence_counter' = sequence_counter + 1
        /\ incoming' = incoming /\ closed' = closed
    BY Zenon DEF EnqueueOutgoing, Accepting, HasRoom, NextSequence
  <1>2. stats'.total_enqueued = stats.total_enqueued + 1
    BY DEF EnqueueOutgoing, Grown
  <1>3. sequence_counter \in Nat /\ stats.total_enqueued \in Nat /\ MaxEnqueued \in Nat
    BY QueueAssumption DEF TypeOK, QueueStats
  <1>4. /\ \A q \in UsedPriorities : \E s : Lists(s, NumbersOf(q)')
        /\ Lane(p)' = Append(Lane(p), sequence_counter)
        /\ \A q \in UsedPriorities : q # p => Lane(q)' = Lane(q)
    BY <1>1, LaneGrows, Zenon
  <1>5. LaneInv'
    <2>1. \A e \in outgoing' : e.priority \in UsedPriorities
      BY <1>1 DEF LaneInv
    <2>2. sequence_counter' <= stats'.total_enqueued
      BY <1>1, <1>2, <1>3 DEF LaneInv
    <2> QED BY <1>4, <2>1, <2>2, Zenon DEF LaneInv
  <1>6. Cardinality(Lanes!Taken) < MaxSize
    <2>1. Cardinality(Lanes!Taken) \in Nat /\ Cardinality(outgoing) \in Nat /\ MaxSize \in Nat
      BY TakenSize, HeapSize, FS_CardinalityType, QueueAssumption
    <2>2. Cardinality(Lanes!Taken) <= Cardinality(outgoing)
      BY TakenSize, Zenon
    <2> QED BY <1>1, <2>1, <2>2
  <1>7. sequence_counter \in 0 .. MaxEnqueued
    BY <1>1, <1>3 DEF LaneInv
  <1>8. PICK L : L = [q \in UsedPriorities |-> Lane(q)]
    BY Zenon
  <1>9. L[p] = Lane(p)
    BY <1>8, Zenon
  <1>10. [q \in UsedPriorities |-> Lane(q)]' = [L EXCEPT ![p] = Append(L[p], sequence_counter)]
    BY <1>4, <1>8, <1>9, MapAfter, Zenon
  <1>11. \E q \in UsedPriorities, n \in 0 .. MaxEnqueued :
            [r \in UsedPriorities |-> Lane(r)]'
              = [[r \in UsedPriorities |-> Lane(r)] EXCEPT ![q] = Append(@, n)]
    BY <1>7, <1>8, <1>10, Zenon
  <1>12. Lanes!Cardinality(Lanes!Taken) = Cardinality(Lanes!Taken)
    BY Zenon DEF Cardinality, Lanes!Cardinality
  <1>13. Lanes!AcceptOut
    BY <1>1, <1>6, <1>11, <1>12, Zenon DEF Lanes!AcceptOut
  <1> QED BY <1>5, <1>13

LEMMA EnqueueIncomingLanes ==
  ASSUME TypeOK, LaneInv, NEW t \in Callers, EnqueueIncoming(t)
  PROVE  LaneInv' /\ Lanes!AcceptIn
  <1>1. /\ ~closed /\ Len(incoming) < MaxSize
        /\ stats.total_enqueued < MaxEnqueued
        /\ incoming' = Append(incoming, stats.total_enqueued + 1)
        /\ outgoing' = outgoing /\ closed' = closed /\ sequence_counter' = sequence_counter
    BY Zenon DEF EnqueueIncoming, Accepting, HasRoom
  <1>2. stats'.total_enqueued = stats.total_enqueued + 1
    BY DEF EnqueueIncoming, Grown
  <1>3. sequence_counter \in Nat /\ stats.total_enqueued \in Nat /\ MaxEnqueued \in Nat
    BY QueueAssumption DEF TypeOK, QueueStats
  <1>4. \A p : NumbersOf(p)' = NumbersOf(p) /\ Lane(p)' = Lane(p)
    BY <1>1, LanesStay, Zenon
  <1>5. LaneInv'
    <2>1. sequence_counter' <= stats'.total_enqueued
      BY <1>1, <1>2, <1>3 DEF LaneInv
    <2> QED BY <1>1, <1>4, <2>1, Zenon DEF LaneInv
  <1>6. stats.total_enqueued + 1 \in 0 .. MaxEnqueued
    BY <1>1, <1>3
  <1>7. [q \in UsedPriorities |-> Lane(q)]' = [q \in UsedPriorities |-> Lane(q)]
    BY <1>4, Zenon
  <1> QED BY <1>1, <1>5, <1>6, <1>7, Zenon DEF Lanes!AcceptIn

LEMMA DequeueOutgoingLanes ==
  ASSUME TypeOK, HeapOrder, LaneInv, NEW c \in Consumers, DequeueOutgoing(c)
  PROVE  LaneInv' /\ Lanes!DeliverOut
  <1>1. PICK e \in outgoing :
           /\ \A o \in outgoing \ {e} : Before(e, o)
           /\ outgoing' = outgoing \ {e}
           /\ stats' = Shrunk(stats, Cardinality(outgoing') + Len(incoming))
    BY Zenon DEF DequeueOutgoing
  <1>2. incoming' = incoming /\ closed' = closed /\ sequence_counter' = sequence_counter
    BY Zenon DEF DequeueOutgoing
  <1>3. stats'.total_enqueued = stats.total_enqueued
    BY <1>1 DEF Shrunk
  <1>4. PICK p : p = e.priority
    BY Zenon
  <1>5. /\ p \in UsedPriorities
        /\ \A q \in UsedPriorities : \E s : Lists(s, NumbersOf(q)')
        /\ Lane(p) # <<>>
        /\ Lane(p)' = Tail(Lane(p))
        /\ \A q \in UsedPriorities : q # p => Lane(q)' = Lane(q)
        /\ \A q \in UsedPriorities : Rank[q] < Rank[p] => Lane(q) = <<>>
    BY <1>1, <1>4, LaneShrinks, Zenon
  <1>6. LaneInv'
    BY <1>1, <1>2, <1>3, <1>5, Zenon DEF LaneInv
  <1>7. PICK L : L = [q \in UsedPriorities |-> Lane(q)]
    BY Zenon
  <1>8. \A q \in UsedPriorities : L[q] = Lane(q)
    BY <1>7, Zenon
  <1>9. [q \in UsedPriorities |-> Lane(q)]' = [L EXCEPT ![p] = Tail(L[p])]
    BY <1>5, <1>7, <1>8, MapAfter, Zenon
  <1>10. \E q \in UsedPriorities :
            /\ L[q] # <<>>
            /\ \A r \in UsedPriorities : Rank[r] < Rank[q] => L[r] = <<>>
            /\ [r \in UsedPriorities |-> Lane(r)]' = [L EXCEPT ![q] = Tail(L[q])]
    BY <1>5, <1>8, <1>9, Zenon
  <1>11. Lanes!DeliverOut
    BY <1>2, <1>7, <1>10, Zenon DEF Lanes!DeliverOut
  <1> QED BY <1>6, <1>11

LEMMA DequeueIncomingLanes ==
  ASSUME LaneInv, NEW c \in Consumers, DequeueIncoming(c)
  PROVE  LaneInv' /\ Lanes!DeliverIn
  <1>1. /\ incoming # <<>> /\ incoming' = Tail(incoming)
        /\ outgoing' = outgoing /\ closed' = closed /\ sequence_counter' = sequence_counter
    BY Zenon DEF DequeueIncoming
  <1>2. stats'.total_enqueued = stats.total_enqueued
    BY DEF DequeueIncoming, Shrunk
  <1>3. \A p : NumbersOf(p)' = NumbersOf(p) /\ Lane(p)' = Lane(p)
    BY <1>1, LanesStay, Zenon
  <1>4. LaneInv'
    BY <1>1, <1>2, <1>3, Zenon DEF LaneInv
  <1>5. [q \in UsedPriorities |-> Lane(q)]' = [q \in UsedPriorities |-> Lane(q)]
    BY <1>3, Zenon
  <1> QED BY <1>1, <1>4, <1>5, Zenon DEF Lanes!DeliverIn

LEMMA ClearLanes ==
  ASSUME TypeOK, LaneInv, NEW t \in Callers, Clear(t)
  PROVE  LaneInv' /\ Lanes!Clear
  <1>1. /\ outgoing' = {} /\ incoming' = <<>> /\ closed' = closed
        /\ sequence_counter' = sequence_counter
    BY Zenon DEF Clear
  <1>2. stats'.total_enqueued = stats.total_enqueued
    BY DEF Clear, TypeOK, QueueStats
  <1>3. \A p \in UsedPriorities : Lists(<<>>, NumbersOf(p)') /\ Lane(p)' = <<>>
    BY <1>1, LanesEmpty, Zenon
  <1>4. LaneInv'
    BY <1>1, <1>2, <1>3, Zenon DEF LaneInv
  <1>5. [q \in UsedPriorities |-> Lane(q)]' = [q \in UsedPriorities |-> <<>>]
    BY <1>3, Zenon
  <1> QED BY <1>1, <1>4, <1>5, Zenon DEF Lanes!Clear

(* The steps that change neither the telegrams nor what was counted. *)
LEMMA OtherLanes ==
  ASSUME LaneInv, outgoing' = outgoing, incoming' = incoming,
         sequence_counter' = sequence_counter,
         stats'.total_enqueued = stats.total_enqueued
  PROVE  /\ LaneInv'
         /\ [q \in UsedPriorities |-> Lane(q)]' = [q \in UsedPriorities |-> Lane(q)]
         /\ closed' = closed => UNCHANGED Lanes!vars
         /\ closed' = TRUE => Lanes!Close
  <1>1. \A p : NumbersOf(p)' = NumbersOf(p) /\ Lane(p)' = Lane(p)
    BY LanesStay, Zenon
  <1>2. LaneInv'
    BY <1>1, Zenon DEF LaneInv
  <1>3. [q \in UsedPriorities |-> Lane(q)]' = [q \in UsedPriorities |-> Lane(q)]
    BY <1>1, Zenon
  <1>4. closed' = closed => UNCHANGED Lanes!vars
    <2> SUFFICES ASSUME closed' = closed PROVE UNCHANGED Lanes!vars
      OBVIOUS
    <2>1. (~closed)' = (~closed)
      OBVIOUS
    <2> QED BY <1>3, <2>1, Zenon DEF Lanes!vars
  <1>5. closed' = TRUE => Lanes!Close
    BY <1>3, Zenon DEF Lanes!Close
  <1> QED BY <1>2, <1>3, <1>4, <1>5, Zenon

LEMMA LaneStep ==
  TypeOK /\ HeapOrder /\ LaneInv /\ [Next]_vars => LaneInv' /\ [Lanes!Next]_(Lanes!vars)
  <1> SUFFICES ASSUME TypeOK, HeapOrder, LaneInv, [Next]_vars
               PROVE  LaneInv' /\ (Lanes!Next \/ UNCHANGED Lanes!vars)
    BY Zenon
  <1> DEFINE Goal == LaneInv' /\ (Lanes!Next \/ UNCHANGED Lanes!vars)
  <1>1. ASSUME NEW t \in Callers, NEW p \in UsedPriorities, EnqueueOutgoing(t, p) PROVE Goal
    BY <1>1, EnqueueOutgoingLanes, Zenon DEF Lanes!Next
  <1>2. ASSUME NEW t \in Callers, EnqueueIncoming(t) PROVE Goal
    BY <1>2, EnqueueIncomingLanes, Zenon DEF Lanes!Next
  <1>3. ASSUME NEW t \in Callers, RejectFull(t) PROVE Goal
    <2>1. stats'.total_enqueued = stats.total_enqueued
      BY <1>3 DEF RejectFull, TypeOK, QueueStats
    <2> QED BY <1>3, <2>1, OtherLanes, Zenon DEF RejectFull
  <1>4. ASSUME NEW t \in Callers, Close(t) PROVE Goal
    BY <1>4, OtherLanes, Zenon DEF Close, Lanes!Next
  <1>5. ASSUME NEW t \in Callers, NotifyWaiters(t) PROVE Goal
    BY <1>5, OtherLanes, Zenon DEF NotifyWaiters, qvars
  <1>6. ASSUME NEW t \in Callers, Clear(t) PROVE Goal
    BY <1>6, ClearLanes, Zenon DEF Lanes!Next
  <1>7. ASSUME NEW c \in Consumers, Consume(c) PROVE Goal
    <2>1. CASE DequeueOutgoing(c)
      BY <2>1, DequeueOutgoingLanes, Zenon DEF Lanes!Next
    <2>2. CASE DequeueIncoming(c)
      BY <2>2, DequeueIncomingLanes, Zenon DEF Lanes!Next
    <2>3. CASE DequeueNone(c) \/ DequeueUnlock(c) \/ DequeueWait(c)
      <3>1. UNCHANGED qvars
        BY <2>3, Zenon DEF DequeueNone, DequeueUnlock, DequeueWait
      <3> QED BY <3>1, OtherLanes, Zenon DEF qvars
    <2> QED BY <1>7, <2>1, <2>2, <2>3, Zenon DEF Consume
  <1>8. CASE UNCHANGED vars
    BY <1>8, OtherLanes, Zenon DEF vars
  <1> QED BY <1>1, <1>2, <1>3, <1>4, <1>5, <1>6, <1>7, <1>8, Zenon DEF Next

(* The heap with its sequence counter implements one FIFO lane per priority,
   for every number of callers, senders, processors and telegrams, and
   whichever way their steps interleave. *)
THEOREM QueueImplementsLanes == Spec => ImplementsLanes
  <1>1. Init => TypeOK /\ Ordered /\ LaneInv /\ Lanes!Init
    BY TypeInit, OrderedInit, LaneInit, Zenon
  <1>2. TypeOK /\ Ordered /\ LaneInv /\ [Next]_vars
           => (TypeOK /\ Ordered /\ LaneInv)' /\ [Lanes!Next]_(Lanes!vars)
    <2>1. Ordered => HeapOrder
      BY Zenon DEF Ordered
    <2> QED BY <2>1, TypeStep, OrderedStep, LaneStep
  <1> QED BY <1>1, <1>2, PTL DEF Spec, ImplementsLanes, Lanes!Spec
=============================================================================
