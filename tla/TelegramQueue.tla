--------------------------- MODULE TelegramQueue ---------------------------
(***************************************************************************)
(* The telegram queue between the application and the transport            *)
(* (transport/queue.rs): one priority heap of outgoing telegrams, one FIFO *)
(* of incoming ones, statistics and a closed flag behind one mutex, and    *)
(* one tokio Notify shared by the waiters of both directions.              *)
(*                                                                         *)
(* A section under the mutex contains no await, so it is one step.  What   *)
(* follows the unlock is another step whenever the runtime may run a       *)
(* different thread in between (Preemptible): the notify_waiters() of an   *)
(* enqueue or a close, and the creation of the Notified future of a        *)
(* dequeue that found nothing.  notify_waiters() leaves no permit behind:  *)
(* it wakes the futures that exist at that moment and no later one.        *)
(*                                                                         *)
(* `popped', `lastIn' and `cleared' are history: nothing reads them.       *)
(***************************************************************************)
EXTENDS Integers, Sequences, FiniteSets

CONSTANTS
    Callers,        \* tasks that call enqueue_*, close and clear
    Senders,        \* tasks that loop on dequeue_outgoing
    Processors,     \* tasks that loop on dequeue_incoming
    UsedPriorities, \* the priorities outgoing telegrams carry
    MaxSize,        \* QueueConfig::max_size, a limit for each direction
    Preemptible,    \* multi-threaded runtime (TRUE) or current_thread (FALSE)
    MaxEnqueued,    \* bound: telegrams accepted in a behaviour
    MaxDropped      \* bound: telegrams refused for backpressure

(* Priority::cmp: the order in which priorities are served; it is not the
   order of their wire values. *)
Rank == [System |-> 0, Urgent |-> 1, Normal |-> 2, Low |-> 3]

ASSUME QueueAssumption ==
    /\ UsedPriorities \subseteq DOMAIN Rank
    /\ MaxSize \in Nat
    /\ MaxEnqueued \in Nat /\ MaxDropped \in Nat
    /\ Preemptible \in BOOLEAN
    /\ Senders \cap Processors = {}

Consumers == Senders \cup Processors

VARIABLES
    outgoing,   \* the heap: a set of [priority, sequence]
    incoming,   \* the FIFO: a sequence of arrival numbers
    closed,
    stats,
    sequence_counter,
    caller,     \* caller[t]: "idle", or "notify" between unlock and notify
    wait,       \* wait[c]: where the dequeue loop of consumer c stands
    popped,     \* every outgoing telegram handed out, with when
    lastIn,     \* the arrival number handed out last, 0 before the first
    cleared     \* telegrams removed by clear()

qvars == <<outgoing, incoming, closed, stats, sequence_counter>>
tasks == <<caller, wait>>
history == <<popped, lastIn, cleared>>
vars == <<outgoing, incoming, closed, stats, sequence_counter, caller, wait,
          popped, lastIn, cleared>>

-----------------------------------------------------------------------------
(* PriorityTelegram: the telegram's content is not looked at by the queue. *)
Entry == [priority : DOMAIN Rank, sequence : Nat]

(* QueueStats, without the average, which nothing reads back, and without
   the sequence counter, which has a variable of its own. *)
QueueStats == [total_enqueued : Nat, total_dequeued : Nat, current_size : Nat,
               peak_size : Nat, dropped_count : Nat]

(* Room for one more in a direction that holds n telegrams. *)
HasRoom(n) == n < MaxSize

(* Ord for PriorityTelegram, as the heap uses it: a is popped before b. *)
WireValue == [System |-> 0, Normal |-> 1, Urgent |-> 2, Low |-> 3]
BeforeByWireValue(a, b) ==
    \/ WireValue[a.priority] < WireValue[b.priority]
    \/ a.priority = b.priority /\ a.sequence < b.sequence
BeforeNewestFirst(a, b) ==
    \/ Rank[a.priority] < Rank[b.priority]
    \/ a.priority = b.priority /\ a.sequence > b.sequence
Before(a, b) ==
    \/ Rank[a.priority] < Rank[b.priority]
    \/ a.priority = b.priority /\ a.sequence < b.sequence

(* The statistics after an enqueue that left n telegrams in the queue. *)
Grown(s, n) ==
    [total_enqueued |-> s.total_enqueued + 1,
     total_dequeued |-> s.total_dequeued,
     current_size |-> n,
     peak_size |-> IF n > s.peak_size THEN n ELSE s.peak_size,
     dropped_count |-> s.dropped_count]

(* The statistics after a dequeue that left n telegrams in the queue. *)
ShrunkOffByOne(s, n) ==
    [s EXCEPT !.total_dequeued = @ + 1, !.current_size = n - 1]
Shrunk(s, n) ==
    [total_enqueued |-> s.total_enqueued,
     total_dequeued |-> s.total_dequeued + 1,
     current_size |-> n,
     peak_size |-> s.peak_size,
     dropped_count |-> s.dropped_count]

(* Notify::notify_waiters: every registered waiter goes back to the top of
   its loop, whichever direction it waits for. *)
WokenOne ==
    [c \in Consumers |->
        IF wait[c] = "waiting" /\ c = CHOOSE d \in Consumers : wait[d] = "waiting"
        THEN "running" ELSE wait[c]]
Woken == [c \in Consumers |-> IF wait[c] = "waiting" THEN "running" ELSE wait[c]]

(* The tail of enqueue_outgoing, enqueue_incoming and close: the mutex is
   released, then the waiters are notified. *)
UnlockAndNotify(t) ==
    IF Preemptible
    THEN caller' = [caller EXCEPT ![t] = "notify"] /\ UNCHANGED wait
    ELSE wait' = Woken /\ UNCHANGED caller

-----------------------------------------------------------------------------
Init ==
    /\ outgoing = {}
    /\ incoming = <<>>
    /\ closed = FALSE
    /\ stats = [total_enqueued |-> 0, total_dequeued |-> 0, current_size |-> 0,
                peak_size |-> 0, dropped_count |-> 0]
    /\ sequence_counter = 0
    /\ caller = [t \in Callers |-> "idle"]
    /\ wait = [c \in Consumers |-> "running"]
    /\ popped = {}
    /\ lastIn = 0
    /\ cleared = 0

(* The queue takes telegrams; the check is made under the mutex. *)
AcceptingAlways == TRUE
Accepting == ~closed

(* The sequence number after the one just given out. *)
NextSequence == sequence_counter + 1

(* enqueue_outgoing that finds room. *)
EnqueueOutgoing(t, p) ==
    /\ caller[t] = "idle"
    /\ Accepting
    /\ HasRoom(Cardinality(outgoing))
    /\ stats.total_enqueued < MaxEnqueued
    /\ outgoing' = outgoing \cup
                      {[priority |-> p, sequence |-> sequence_counter]}
    /\ stats' = Grown(stats, Cardinality(outgoing') + Len(incoming))
    /\ sequence_counter' = NextSequence
    /\ UnlockAndNotify(t)
    /\ UNCHANGED <<incoming, closed, history>>

(* enqueue_incoming that finds room; the new telegram's arrival number is
   larger than every one before it. *)
EnqueueIncoming(t) ==
    /\ caller[t] = "idle"
    /\ Accepting
    /\ HasRoom(Len(incoming))
    /\ stats.total_enqueued < MaxEnqueued
    /\ incoming' = Append(incoming, stats.total_enqueued + 1)
    /\ stats' = Grown(stats, Cardinality(outgoing) + Len(incoming'))
    /\ UnlockAndNotify(t)
    /\ UNCHANGED <<outgoing, closed, sequence_counter, history>>

(* Backpressure: an enqueue in a full direction is counted and refused.  An
   enqueue on a closed queue is refused without a trace. *)
RejectFull(t) ==
    /\ caller[t] = "idle"
    /\ Accepting
    /\ ~HasRoom(Cardinality(outgoing)) \/ ~HasRoom(Len(incoming))
    /\ stats.dropped_count < MaxDropped
    /\ stats' = [stats EXCEPT !.dropped_count = @ + 1]
    /\ UNCHANGED <<outgoing, incoming, closed, sequence_counter, tasks, history>>

(* close(); closing twice is allowed and notifies again. *)
CloseSilently(t) ==
    /\ caller[t] = "idle"
    /\ closed' = TRUE
    /\ UNCHANGED <<outgoing, incoming, stats, sequence_counter, tasks, history>>
Close(t) ==
    /\ caller[t] = "idle"
    /\ closed' = TRUE
    /\ UnlockAndNotify(t)
    /\ UNCHANGED <<outgoing, incoming, stats, sequence_counter, history>>

(* The notify_waiters() that follows the unlock on a preemptible runtime. *)
NotifyWaiters(t) ==
    /\ caller[t] = "notify"
    /\ caller' = [caller EXCEPT ![t] = "idle"]
    /\ wait' = Woken
    /\ UNCHANGED <<qvars, history>>

(* clear() drops everything and notifies nobody. *)
ClearKeepingSize(t) ==
    /\ caller[t] = "idle"
    /\ outgoing' = {}
    /\ incoming' = <<>>
    /\ cleared' = cleared + Cardinality(outgoing) + Len(incoming)
    /\ UNCHANGED <<closed, stats, sequence_counter, tasks, popped, lastIn>>
Clear(t) ==
    /\ caller[t] = "idle"
    /\ outgoing' = {}
    /\ incoming' = <<>>
    /\ stats' = [stats EXCEPT !.current_size = 0]
    /\ cleared' = cleared + Cardinality(outgoing) + Len(incoming)
    /\ UNCHANGED <<closed, sequence_counter, tasks, popped, lastIn>>

(* dequeue_outgoing pops the greatest element of the heap and returns it;
   the caller comes back for the next one. *)
DequeueOutgoing(c) ==
    /\ wait[c] = "running"
    /\ \E e \in outgoing :
          /\ \A o \in outgoing \ {e} : Before(e, o)
          /\ outgoing' = outgoing \ {e}
          /\ stats' = Shrunk(stats, Cardinality(outgoing') + Len(incoming))
          /\ popped' = popped \cup
                {[priority |-> e.priority, sequence |-> e.sequence,
                  nth |-> stats.total_dequeued, horizon |-> sequence_counter]}
    /\ UNCHANGED <<incoming, closed, sequence_counter, tasks, lastIn, cleared>>

(* dequeue_incoming pops the front of the FIFO and returns it. *)
DequeueIncoming(c) ==
    /\ wait[c] = "running"
    /\ incoming # <<>>
    /\ incoming' = Tail(incoming)
    /\ stats' = Shrunk(stats, Cardinality(outgoing) + Len(incoming'))
    /\ lastIn' = Head(incoming)
    /\ UNCHANGED <<outgoing, closed, sequence_counter, tasks, popped, cleared>>

(* What consumer c would take from is empty. *)
Drained(c) == IF c \in Senders THEN outgoing = {} ELSE incoming = <<>>

(* A dequeue on a closed and drained queue returns None: the task ends. *)
DequeueNone(c) ==
    /\ wait[c] = "running"
    /\ Drained(c)
    /\ closed
    /\ wait' = [wait EXCEPT ![c] = "none"]
    /\ UNCHANGED <<qvars, caller, history>>

(* A dequeue on an open and drained queue releases the mutex ... *)
DequeueUnlock(c) ==
    /\ wait[c] = "running"
    /\ Drained(c)
    /\ ~closed
    /\ wait' = [wait EXCEPT ![c] = IF Preemptible THEN "unlocked" ELSE "waiting"]
    /\ UNCHANGED <<qvars, caller, history>>

(* ... and then creates its Notified future and waits on it. *)
DequeueWait(c) ==
    /\ wait[c] = "unlocked"
    /\ wait' = [wait EXCEPT ![c] = "waiting"]
    /\ UNCHANGED <<qvars, caller, history>>

Consume(c) ==
    \/ c \in Senders /\ DequeueOutgoing(c)
    \/ c \in Processors /\ DequeueIncoming(c)
    \/ DequeueNone(c)
    \/ DequeueUnlock(c)
    \/ DequeueWait(c)

Next ==
    \/ \E t \in Callers : \/ \E p \in UsedPriorities : EnqueueOutgoing(t, p)
                          \/ EnqueueIncoming(t)
                          \/ RejectFull(t)
                          \/ Close(t)
                          \/ NotifyWaiters(t)
                          \/ Clear(t)
    \/ \E c \in Consumers : Consume(c)

Spec == Init /\ [][Next]_vars

(* The runtime polls every task that is not waiting, again and again.  Nothing
   says that anybody enqueues, clears or closes. *)
Fairness ==
    /\ \A t \in Callers : WF_vars(NotifyWaiters(t))
    /\ \A c \in Consumers : WF_vars(Consume(c))

FairSpec == Spec /\ Fairness

-----------------------------------------------------------------------------
(* Every variable holds a value of the code's type. *)
TypeOK ==
    /\ outgoing \in SUBSET Entry
    /\ IsFiniteSet(outgoing)
    /\ incoming \in Seq(Nat)
    /\ closed \in BOOLEAN
    /\ stats \in QueueStats
    /\ sequence_counter \in Nat
    /\ caller \in [Callers -> {"idle", "notify"}]
    /\ wait \in [Consumers -> {"running", "unlocked", "waiting", "none"}]
    /\ popped \in SUBSET [priority : DOMAIN Rank, sequence : Nat,
                          nth : Nat, horizon : Nat]
    /\ lastIn \in Nat
    /\ cleared \in Nat

(* Backpressure: neither direction ever holds more than max_size telegrams,
   and the recorded peak is a size the queue can really have had. *)
Bounded ==
    /\ Cardinality(outgoing) <= MaxSize
    /\ Len(incoming) <= MaxSize
    /\ stats.current_size <= stats.peak_size
    /\ stats.peak_size <= 2 * MaxSize

(* No telegram is lost, invented or counted twice, whatever the interleaving
   of callers and consumers: what was accepted is what was handed out, what
   clear() removed and what is still there. *)
Conservation ==
    /\ stats.current_size = Cardinality(outgoing) + Len(incoming)
    /\ stats.total_enqueued = stats.total_dequeued + cleared + stats.current_size

(* Telegrams of one priority leave in the order they were accepted, also
   across clear() and with several senders. *)
FifoWithinPriority ==
    \A a, b \in popped :
        a.priority = b.priority /\ a.nth < b.nth => a.sequence < b.sequence

(* A telegram overtaken by a less urgent one had not been accepted yet when
   that one left: b.sequence was at or above the counter at that time. *)
NoPriorityInversion ==
    \A a, b \in popped :
        a.nth < b.nth /\ Rank[b.priority] < Rank[a.priority]
            => b.sequence >= a.horizon

(* No outgoing telegram is handed out twice, nor both handed out and kept. *)
HandedOutOnce ==
    /\ \A a, b \in popped : a.sequence = b.sequence => a = b
    /\ \A a \in popped, e \in outgoing : a.sequence # e.sequence

(* What makes the three facts above inductive: sequence numbers below the
   counter are unique, and everything still in the heap would leave after
   everything that left, in their sense. *)
HeapOrder ==
    /\ \A e \in outgoing : e.sequence < sequence_counter
    /\ \A e, f \in outgoing : e.sequence = f.sequence => e = f
    /\ \A a \in popped : /\ a.sequence < sequence_counter
                         /\ a.horizon <= sequence_counter
                         /\ a.nth < stats.total_dequeued
    /\ \A a \in popped, e \in outgoing :
          /\ a.priority = e.priority => a.sequence < e.sequence
          /\ Rank[e.priority] < Rank[a.priority] => e.sequence >= a.horizon

(* What makes IncomingFifo inductive: arrival numbers grow along the FIFO. *)
IncomingOrder ==
    /\ lastIn <= stats.total_enqueued
    /\ \A i \in 1..Len(incoming) : /\ lastIn < incoming[i]
                                  /\ incoming[i] <= stats.total_enqueued
    /\ \A i, j \in 1..Len(incoming) : i < j => incoming[i] < incoming[j]

(* Incoming telegrams are handed out in arrival order. *)
IncomingFifo == [][lastIn' # lastIn => lastIn' > lastIn]_vars

(* A consumer that got None can stop: its direction stays empty for ever,
   because close and the last look at the queue hold the same mutex. *)
NoneIsFinal ==
    \A c \in Consumers : wait[c] = "none" => closed /\ Drained(c)

(* Once the queue is closed, every consumer's dequeue comes back with None
   (the doc comment of dequeue_outgoing and dequeue_incoming). *)
CloseReleasesConsumers ==
    \A c \in Consumers : closed ~> wait[c] = "none"

-----------------------------------------------------------------------------
(* The numbers of S in increasing order. *)
Increasing(s) == \A i, j \in DOMAIN s : i < j => s[i] < s[j]
Listed(S) == CHOOSE s \in [1 .. Cardinality(S) -> S] : Increasing(s)

(* The lane of priority p: its heap entries in the order of their numbers. *)
NumbersOf(p) == {e.sequence : e \in {f \in outgoing : f.priority = p}}
Lane(p) == Listed(NumbersOf(p))

Lanes == INSTANCE TelegramLanes WITH
    Priorities <- UsedPriorities, RankOf <- Rank, Room <- MaxSize,
    Tags <- 0 .. MaxEnqueued,
    lanes <- [p \in UsedPriorities |-> Lane(p)],
    inbox <- incoming,
    open <- ~closed

(* The heap ordered by priority and sequence number behaves like one FIFO lane
   per priority, whatever the interleaving of callers and consumers. *)
ImplementsLanes == Lanes!Spec

(* On a current_thread runtime every lane is also served until it is empty. *)
ImplementsFairLanes == Lanes!FairSpec
=============================================================================
