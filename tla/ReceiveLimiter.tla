--------------------------- MODULE ReceiveLimiter ---------------------------
(***************************************************************************)
(* The receive path's rate limiter (transport/receive_limiter.rs): a limit *)
(* for each group address and second, a bounded channel, and the task that *)
(* empties the channel into the incoming queue (Knx::new).                 *)
(*                                                                         *)
(* A telegram is its number, in order of arrival, with its destination and *)
(* kind; all have one priority, within which the incoming queue is first   *)
(* in, first out (TelegramQueue).  Time is counted in half seconds.        *)
(***************************************************************************)
EXTENDS ReceptionSetting

Second == 2

(* AddressState: the telegrams counted since a window began. *)
AddressState == [count : Nat \ {0}, window_start : Nat]
ASSUME NoneIsNoState == None \notin AddressState

VARIABLES
    now,           \* the clock
    arrivals,      \* telegrams so far
    per_address,   \* per_address[ga]: count and window_start, or None
    channel,       \* telegrams between the limiter and the drain task
    incoming,      \* TelegramQueue's incoming queue
    stats,         \* ReceiveStats
    through,       \* history: through[ga], how many telegrams to ga the throttle let through
    passed         \* history: of each of them the address, its number among them, the
                   \* time, and the window and the place in it that it was counted in

limiterVars == <<now, arrivals, per_address, channel, incoming, stats, through, passed>>

LimiterInit ==
    /\ now = 0 /\ arrivals = 0
    /\ per_address = [ga \in Groups |-> None]
    /\ channel = <<>> /\ incoming = <<>>
    /\ through = [ga \in Groups |-> 0] /\ passed = {}
    /\ stats = [total_received |-> 0, total_sent |-> 0, dropped_queue_full |-> 0,
                dropped_throttled |-> 0]

(* is_throttled: the state it leaves for an address, and its verdict. *)
Entry(ga) ==
    IF per_address[ga] = None THEN [count |-> 0, window_start |-> now]
    ELSE per_address[ga]
Elapsed(ga) == now - Entry(ga).window_start >= Second
CountedFromZero(ga) ==
    IF Elapsed(ga) THEN [count |-> 0, window_start |-> now]
    ELSE [Entry(ga) EXCEPT !.count = @ + 1]
Counted(ga) ==
    IF Elapsed(ga) THEN [count |-> 1, window_start |-> now]
    ELSE [Entry(ga) EXCEPT !.count = @ + 1]
IsThrottled(ga) ==
    ~Elapsed(ga) /\ Counted(ga).count > setting.per_address_max_per_sec

(* ReceiveRateLimiter::try_send. *)
TrySend(telegram) ==
    LET ga == telegram.destination
        throttled == ga \in Groups /\ IsThrottled(ga)
        full == ~throttled /\ Len(channel) >= setting.queue_size
        sent == ~throttled /\ ~full
        One(b) == IF b THEN 1 ELSE 0
    IN  /\ per_address' = IF ga \in Groups THEN [per_address EXCEPT ![ga] = Counted(ga)]
                          ELSE per_address
        /\ channel' = IF sent THEN Append(channel, telegram) ELSE channel
        /\ IF throttled \/ ga \notin Groups THEN UNCHANGED <<through, passed>>
           ELSE /\ through' = [through EXCEPT ![ga] = @ + 1]
                /\ passed' = passed \cup {[ga |-> ga, number |-> through[ga] + 1, at |-> now,
                                           window |-> Counted(ga).window_start,
                                           place |-> Counted(ga).count]}
        /\ stats' = [total_received |-> stats.total_received + 1,
                     total_sent |-> stats.total_sent + One(sent),
                     dropped_queue_full |-> stats.dropped_queue_full + One(full),
                     dropped_throttled |-> stats.dropped_throttled + One(throttled)]

(* The receiving task: a frame arrives and is parsed; the handler ends with
   the limiter. *)
Arrive(destination, kind) ==
    /\ arrivals < setting.telegrams
    /\ arrivals' = arrivals + 1
    /\ TrySend([number |-> arrivals + 1, destination |-> destination, kind |-> kind])
    /\ UNCHANGED <<now, incoming>>

(* The drain task; enqueue_incoming refuses when the queue is full, and the
   telegram is gone. *)
Drain ==
    /\ channel # <<>>
    /\ incoming' = IF Len(incoming) < setting.max_size
                   THEN Append(incoming, Head(channel)) ELSE incoming
    /\ channel' = Tail(channel)
    /\ UNCHANGED <<now, arrivals, per_address, stats, through, passed>>

Tick ==
    /\ now < setting.ticks
    /\ now' = now + 1
    /\ UNCHANGED <<arrivals, per_address, channel, incoming, stats, through, passed>>

LimiterNext ==
    \/ \E d \in setting.destinations, k \in setting.kinds : Arrive(d, k)
    \/ Drain \/ Tick

-----------------------------------------------------------------------------
LimiterTypeOK ==
    /\ now \in 0 .. setting.ticks /\ arrivals \in 0 .. setting.telegrams
    /\ \A ga \in Groups : \/ per_address[ga] = None
                          \/ /\ per_address[ga].count \in 1 .. setting.telegrams
                             /\ per_address[ga].window_start \in 0 .. now
    /\ Len(channel) <= setting.queue_size /\ Len(incoming) <= setting.max_size
    /\ stats.total_received = stats.total_sent + stats.dropped_queue_full
                                + stats.dropped_throttled

(* The limit for an address is a limit for each window, and windows start
   with a telegram: in any span shorter than a second, two windows let
   through at most twice the limit less one (is_throttled). *)
BurstBounded ==
    \A g, h \in passed :
       g.ga = h.ga /\ g.number <= h.number /\ h.at - g.at < Second =>
          h.number - g.number + 1 <= 2 * setting.per_address_max_per_sec - 1

(* What the bound rests on.  A window begins with its first telegram, lasts
   less than a second and lets the limit through; of two telegrams in two
   windows, either the later window is the next one, or there is a whole
   window between them. *)
WindowHolds(p) ==
    /\ p.place \in 1 .. setting.per_address_max_per_sec
    /\ p.window <= p.at /\ p.at < p.window + Second
    /\ p.place = 1 => p.at = p.window
WindowsApart(g, window, place, number) ==
    \/ g.window = window /\ number - g.number = place - g.place
    \/ /\ window >= g.window + Second
       /\ number - g.number <= place + setting.per_address_max_per_sec - g.place
    \/ window >= g.window + 2 * Second
InWindow(ga) ==
    IF per_address[ga].count < setting.per_address_max_per_sec
    THEN per_address[ga].count ELSE setting.per_address_max_per_sec
WindowInv ==
    /\ \A g \in passed :
          /\ WindowHolds(g)
          /\ g.number <= through[g.ga] /\ g.at <= now
          /\ per_address[g.ga] # None
          /\ WindowsApart(g, per_address[g.ga].window_start, InWindow(g.ga), through[g.ga])
    /\ \A g, h \in passed :
          g.ga = h.ga /\ g.number <= h.number
             => WindowsApart(g, h.window, h.place, h.number)

(* What waits in the channel and in the queue waits in the order of arrival
   (the drain task keeps it). *)
WaitsInOrder ==
    LET waiting == incoming \o channel
    IN  \A i, j \in DOMAIN waiting : i < j => waiting[i].number < waiting[j].number
=============================================================================
