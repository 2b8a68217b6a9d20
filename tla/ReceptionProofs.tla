-------------------------- MODULE ReceptionProofs --------------------------
(***************************************************************************)
(* What holds of the reception of telegrams for every setting: any number  *)
(* of addresses, telegrams, callbacks, readers and handles, any limit,     *)
(* rate and burst.  The limits of what is received and sent; the DPTs that *)
(* typed handles use; callbacks and reads, whose invariant HandlerProofs   *)
(* has; the order in which telegrams wait; and the registry.               *)
(***************************************************************************)
EXTENDS Reception, HandlerProofs

-----------------------------------------------------------------------------
(* Sequences in which nothing is twice. *)
Once(s) == \A i, j \in DOMAIN s : i # j => s[i] # s[j]

LEMMA AppendOnce ==
  ASSUME NEW S, NEW s \in Seq(S), NEW x \in S, x \notin Elements(s), Once(s)
  PROVE  /\ Append(s, x) \in Seq(S) /\ Once(Append(s, x))
         /\ Elements(Append(s, x)) = Elements(s) \cup {x}
  <1>1. /\ Append(s, x) \in Seq(S) /\ DOMAIN Append(s, x) = DOMAIN s \cup {Len(s) + 1}
        /\ Len(s) + 1 \notin DOMAIN s /\ Append(s, x)[Len(s) + 1] = x
        /\ \A i \in DOMAIN s : Append(s, x)[i] = s[i] /\ s[i] # x
    BY AppendFacts DEF Elements
  <1>2. Once(Append(s, x))
    BY <1>1, Zenon DEF Once
  <1>3. Elements(Append(s, x)) = Elements(s) \cup {x}
    BY <1>1, Zenon DEF Elements
  <1> QED BY <1>1, <1>2, <1>3, Zenon

LEMMA WithoutOnce ==
  ASSUME NEW S, NEW s \in Seq(S), NEW x, Once(s)
  PROVE  /\ Without(s, x) \in Seq(S) /\ Once(Without(s, x))
         /\ Elements(Without(s, x)) = Elements(s) \ {x}
  <1>1. CASE x \in Elements(s)
    <2>1. PICK i \in DOMAIN s : s[i] = x /\ Without(s, x) = DropAt(s, i)
      BY <1>1, Zenon DEF Without, Elements
    <2> DEFINE new == Without(s, x)
               at(j) == IF j < i THEN j ELSE j + 1
               back(k) == IF k < i THEN k ELSE k - 1
    <2>2. /\ new \in Seq(S) /\ DOMAIN s = 1 .. Len(s) /\ Len(s) \in Nat
          /\ DOMAIN new = 1 .. Len(s) - 1
          /\ \A j \in DOMAIN new :
              \/ j < i /\ j \in DOMAIN s /\ new[j] = s[j]
              \/ j >= i /\ j + 1 \in DOMAIN s /\ new[j] = s[j + 1]
      BY <2>1, DropAtFacts
    <2> HIDE DEF new
    <2>3. \A j \in DOMAIN new : at(j) \in DOMAIN s /\ at(j) # i /\ new[j] = s[at(j)]
      BY <2>2
    <2>4. \A j, k \in DOMAIN new : at(j) = at(k) => j = k
      BY <2>2
    <2>5. \A k \in DOMAIN s : k # i => back(k) \in DOMAIN new /\ at(back(k)) = k
      BY <2>2
    <2> HIDE DEF at, back
    <2>6. Once(new)
      BY <2>3, <2>4, Zenon DEF Once
    <2>7. \A j \in DOMAIN new : new[j] \in Elements(s) /\ new[j] # x
      BY <2>1, <2>3, Zenon DEF Once, Elements
    <2>8. \A k \in DOMAIN s : s[k] # x => s[k] \in Elements(new)
      BY <2>1, <2>3, <2>5, Zenon DEF Elements
    <2>9. Elements(new) = Elements(s) \ {x}
      BY <2>7, <2>8, Zenon DEF Elements
    <2> QED BY <2>2, <2>6, <2>9, Zenon DEF new
  <1>2. CASE x \notin Elements(s)
    <2>1. Without(s, x) = s
      BY <1>2, Zenon DEF Without
    <2> QED BY <1>2, <2>1, Zenon
  <1> QED BY <1>1, <1>2, Zenon

-----------------------------------------------------------------------------
(* The token bucket. *)

BucketType ==
    /\ setting \in Setting /\ now \in Nat
    /\ granted \subseteq [number : Nat, at : Nat]
BucketIInv == BucketType /\ BucketInv /\ SendsBounded

(* What the numbers of a setting are. *)
LEMMA SettingNumbers ==
  ASSUME setting \in Setting
  PROVE  /\ setting.max_per_second \in Nat /\ setting.max_per_second >= 1
         /\ setting.burst \in Nat
         /\ setting.per_address_max_per_sec \in Nat /\ setting.per_address_max_per_sec >= 1
  BY DEF Setting

(* The clock of every step goes on or stands still, and only acquire, for
   which it stands still, changes the bucket. *)
LEMMA BucketFrame ==
  ASSUME Next, now \in Nat
  PROVE  /\ setting' = setting /\ now' \in Nat /\ now' >= now
         /\ (Acquire /\ now' = now) \/ UNCHANGED rateVars
  <1>0. setting' = setting
    BY Zenon DEF Next
  <1>1. CASE LimiterNext /\ UNCHANGED rateVars
    <2>1. now' = now \/ now' = now + 1
      <3>1. CASE \E d \in setting.destinations, k \in setting.kinds : Arrive(d, k)
        BY <3>1, Zenon DEF Arrive
      <3>2. CASE Drain
        BY <3>2, Zenon DEF Drain
      <3>3. CASE Tick
        BY <3>3, Zenon DEF Tick
      <3> QED BY <1>1, <3>1, <3>2, <3>3, Zenon DEF LimiterNext
    <2> QED BY <1>0, <1>1, <2>1
  <1>2. CASE UNCHANGED limiterVars /\ UNCHANGED rateVars
    BY <1>0, <1>2 DEF limiterVars
  <1>3. CASE Acquire /\ UNCHANGED limiterVars
    BY <1>0, <1>3 DEF limiterVars
  <1>4. CASE Process
    BY <1>0, <1>4 DEF Process
  <1> QED BY <1>1, <1>2, <1>3, <1>4, Zenon DEF Next

(* The bucket starts with the burst, which it has room for. *)
LEMMA BucketInit == Init => BucketIInv
  <1> SUFFICES ASSUME Init PROVE BucketIInv
    BY Zenon
  <1>1. setting \in Setting /\ now = 0
    BY SettingAssumption, Zenon DEF Init, LimiterInit
  <1>2. tokens = setting.burst * 2 /\ last_refill = 0 /\ acquired = 0 /\ granted = {}
    BY Zenon DEF Init, RateInit, Second
  <1>3. tokens \in 0 .. (setting.max_per_second + setting.burst) * 2
    BY <1>1, <1>2, SettingNumbers
  <1> QED
    BY <1>1, <1>2, <1>3 DEF BucketIInv, BucketType, BucketInv, SendsBounded, MaxTokens, Second

(* What a bucket holds after refill, and that a full one is not exceeded. *)
LEMMA RefilledBounds ==
  ASSUME BucketIInv
  PROVE  /\ Refilled \in Nat /\ Refilled <= MaxTokens /\ MaxTokens \in Nat
         /\ Refilled <= tokens + (now - last_refill) * setting.max_per_second
         /\ (now - last_refill) * setting.max_per_second \in Nat
  <1>1. /\ setting.max_per_second \in Nat /\ setting.burst \in Nat
        /\ tokens \in Nat /\ tokens <= MaxTokens /\ now - last_refill \in Nat
    BY SettingNumbers DEF BucketIInv, BucketType, BucketInv
  <1>2. MaxTokens \in Nat
    BY <1>1 DEF MaxTokens, Second
  <1>3. (now - last_refill) * setting.max_per_second \in Nat
    BY <1>1
  <1> QED BY <1>1, <1>2, <1>3 DEF Refilled

(* A step keeps the invariant of the bucket. *)
LEMMA BucketStep == BucketIInv /\ [Next]_vars => BucketIInv'
  <1> SUFFICES ASSUME BucketIInv, [Next]_vars PROVE BucketIInv'
    BY Zenon
  <1> DEFINE rate == setting.max_per_second
             Left(g) == MaxTokens + (last_refill - g.at) * rate
  <1>0. rate \in Nat /\ MaxTokens \in Nat /\ tokens \in Nat /\ last_refill \in Nat /\ now \in Nat
        /\ acquired \in Nat /\ last_refill <= now
    BY RefilledBounds, SettingNumbers DEF BucketIInv, BucketType, BucketInv
  <1>1. CASE UNCHANGED vars \/ (Next /\ UNCHANGED rateVars)
    <2>1. /\ setting' = setting /\ now' \in Nat /\ now' >= now
          /\ UNCHANGED <<tokens, last_refill, acquired, granted>>
      <3>1. CASE UNCHANGED vars
        BY <3>1, <1>0 DEF vars, system, limiterVars, rateVars
      <3>2. CASE Next /\ UNCHANGED rateVars
        BY <3>2, <1>0, BucketFrame, Zenon DEF rateVars
      <3> QED BY <1>1, <3>1, <3>2, Zenon
    <2>2. MaxTokens' = MaxTokens
      BY <2>1, Zenon DEF MaxTokens
    <2> QED
      BY <2>1, <2>2, <1>0 DEF BucketIInv, BucketType, BucketInv, SendsBounded
  <1>2. CASE Acquire /\ now' = now /\ setting' = setting
    <2>0. MaxTokens' = MaxTokens /\ last_refill' = now
      BY <1>2, Zenon DEF MaxTokens, Acquire
    <2>1. /\ Refilled \in Nat /\ Refilled <= MaxTokens
          /\ Refilled <= tokens + (now - last_refill) * rate
          /\ (now - last_refill) * rate \in Nat
      BY RefilledBounds, Zenon
    <2>2. ASSUME NEW g \in granted
          PROVE  /\ g.number \in Nat /\ 1 <= g.number /\ g.number <= acquired
                 /\ g.at \in Nat /\ g.at <= last_refill
                 /\ (last_refill - g.at) * rate \in Nat
                 /\ (now - g.at) * rate = (now - last_refill) * rate + (last_refill - g.at) * rate
                 /\ Refilled + (acquired - g.number + 1) * Second
                      <= MaxTokens + (now - g.at) * rate
      <3>1. /\ g.number \in Nat /\ 1 <= g.number /\ g.number <= acquired
            /\ g.at \in Nat /\ g.at <= last_refill
            /\ tokens + (acquired - g.number + 1) * Second
                 <= MaxTokens + (last_refill - g.at) * rate
        BY DEF BucketIInv, BucketType, BucketInv
      <3>2. (last_refill - g.at) * rate \in Nat
        BY <3>1, <1>0
      <3>3. (now - g.at) * rate = (now - last_refill) * rate + (last_refill - g.at) * rate
        BY <3>1, <1>0
      <3> QED BY <3>1, <3>2, <3>3, <2>1, <1>0 DEF Second
    <2>3. CASE Refilled < Second
      <3>1. tokens' = Refilled /\ UNCHANGED <<acquired, granted>>
        BY <1>2, <2>3, <2>1 DEF Acquire, Second
      <3>2. BucketInv'
        BY <3>1, <2>0, <2>1, <2>2, <1>0, <1>2 DEF BucketInv
      <3> QED
        BY <3>1, <3>2, <2>0, <1>2, Zenon DEF BucketIInv, BucketType, SendsBounded
    <2>4. CASE Refilled >= Second
      <3> DEFINE n == [number |-> acquired + 1, at |-> now]
      <3>1. /\ tokens' = Refilled - Second /\ acquired' = acquired + 1
            /\ granted' = granted \cup {n}
        BY <1>2, <2>4, <2>1 DEF Acquire, Second
      <3>2. tokens' \in Nat /\ tokens' <= MaxTokens
        BY <3>1, <2>1, <2>4, <1>0 DEF Second
      <3>3. ASSUME NEW g \in granted
            PROVE  /\ g.number \in 1 .. acquired' /\ g.at \in 0 .. last_refill'
                   /\ tokens' + (acquired' - g.number + 1) * Second
                        <= MaxTokens + (now - g.at) * rate
        BY <3>1, <2>2, <2>0, <2>1, <1>0 DEF Second
      <3>4. /\ n.number \in 1 .. acquired' /\ n.at \in 0 .. last_refill'
            /\ tokens' + (acquired' - n.number + 1) * Second
                 <= MaxTokens + (now - n.at) * rate
        BY <3>1, <2>0, <2>1, <1>0 DEF Second
      <3>5. BucketInv'
        BY <3>1, <3>2, <3>3, <3>4, <2>0, <1>0, <1>2 DEF BucketInv
      <3>6. BucketType'
        BY <3>1, <1>0, <1>2 DEF BucketType, BucketIInv
      <3>7. ASSUME NEW g \in granted', NEW h \in granted', g.number <= h.number
            PROVE  (h.number - g.number + 1) * Second <= MaxTokens + (h.at - g.at) * rate
        <4>1. CASE g \in granted /\ h \in granted
          BY <4>1, <3>7, Zenon DEF BucketIInv, SendsBounded
        <4>2. CASE h = n
          <5>1. /\ tokens' + (acquired' - g.number + 1) * Second
                     <= MaxTokens + (now - g.at) * rate
                /\ g.number \in Nat /\ g.at \in Nat /\ (now - g.at) * rate \in Int
            <6>1. CASE g \in granted
              BY <6>1, <3>3, <2>2, <1>0
            <6>2. CASE g = n
              BY <6>2, <3>4, <1>0
            <6> QED BY <6>1, <6>2, <3>1, Zenon
          <5>2. h.number = acquired' /\ h.at = now
            BY <4>2, <3>1, Zenon
          <5> QED BY <5>1, <5>2, <3>1, <3>2, <1>0 DEF Second
        <4>3. CASE g = n /\ h \in granted
          BY <4>3, <3>7, <2>2, <1>0
        <4> QED BY <4>1, <4>2, <4>3, <3>1, Zenon
      <3>8. SendsBounded'
        BY <3>7, <2>0, <1>2, Zenon DEF SendsBounded
      <3> QED BY <3>5, <3>6, <3>8, Zenon DEF BucketIInv
    <2> QED BY <2>3, <2>4, <2>1 DEF Second
  <1> QED
    <2>1. CASE Next
      BY <2>1, <1>0, <1>1, <1>2, BucketFrame, Zenon
    <2> QED BY <2>1, <1>1, Zenon

-----------------------------------------------------------------------------
(* The windows of the receive limiter. *)

WindowType ==
    /\ setting \in Setting /\ now \in Nat
    /\ per_address \in [Groups -> AddressState \cup {None}]
    /\ through \in [Groups -> Nat]
    /\ passed \subseteq [ga : Groups, number : Nat, at : Nat, window : Nat, place : Nat]
    /\ \A ga \in Groups : per_address[ga] # None => per_address[ga].window_start <= now
WindowIInv == WindowType /\ WindowInv

LEMMA WindowInit == Init => WindowIInv
  <1> SUFFICES ASSUME Init PROVE WindowIInv
    BY Zenon
  <1>1. setting \in Setting
    BY SettingAssumption, Zenon DEF Init
  <1>2. /\ now = 0 /\ per_address = [ga \in Groups |-> None]
        /\ through = [ga \in Groups |-> 0] /\ passed = {}
    BY Zenon DEF Init, LimiterInit
  <1> QED BY <1>1, <1>2, Zenon DEF WindowIInv, WindowType, WindowInv

(* Two telegrams less than a second apart are in one window or in two that
   follow each other, and then the first is not the one its window began
   with. *)
LEMMA WindowsBound == WindowIInv => BurstBounded
  <1> SUFFICES ASSUME WindowIInv, NEW g \in passed, NEW h \in passed,
                      g.ga = h.ga, g.number <= h.number, h.at - g.at < Second
               PROVE  h.number - g.number + 1 <= 2 * setting.per_address_max_per_sec - 1
    BY Zenon DEF BurstBounded
  <1> DEFINE m == setting.per_address_max_per_sec
  <1>1. /\ m \in Nat /\ m >= 1
        /\ g.number \in Nat /\ g.at \in Nat /\ g.window \in Nat /\ g.place \in Nat
        /\ h.number \in Nat /\ h.at \in Nat /\ h.window \in Nat /\ h.place \in Nat
    BY SettingNumbers, Zenon DEF WindowIInv, WindowType
  <1>2. WindowHolds(g) /\ WindowHolds(h) /\ WindowsApart(g, h.window, h.place, h.number)
    BY Zenon DEF WindowIInv, WindowInv
  <1>3. CASE g.window = h.window /\ h.number - g.number = h.place - g.place
    BY <1>1, <1>2, <1>3 DEF WindowHolds
  <1>4. CASE /\ h.window >= g.window + Second
             /\ h.number - g.number <= h.place + m - g.place
    <2>1. g.place # 1
      BY <1>1, <1>2, <1>4 DEF WindowHolds, Second
    <2> QED BY <1>1, <1>2, <1>4, <2>1 DEF WindowHolds
  <1>5. CASE h.window >= g.window + 2 * Second
    BY <1>1, <1>2, <1>5 DEF WindowHolds, Second
  <1> QED BY <1>2, <1>3, <1>4, <1>5, Zenon DEF WindowsApart

(* What counting leaves, and when it throttles. *)
LEMMA CountedCases ==
  ASSUME WindowIInv, NEW ga \in Groups
  PROVE  \/ /\ per_address[ga] = None
            /\ Counted(ga) = [count |-> 1, window_start |-> now] /\ ~IsThrottled(ga)
         \/ /\ per_address[ga] # None /\ now >= per_address[ga].window_start + Second
            /\ Counted(ga) = [count |-> 1, window_start |-> now] /\ ~IsThrottled(ga)
         \/ /\ per_address[ga] # None /\ now < per_address[ga].window_start + Second
            /\ Counted(ga) = [count |-> per_address[ga].count + 1,
                              window_start |-> per_address[ga].window_start]
            /\ IsThrottled(ga)
                 <=> per_address[ga].count + 1 > setting.per_address_max_per_sec
  <1>1. /\ now \in Nat /\ setting.per_address_max_per_sec \in Nat
        /\ setting.per_address_max_per_sec >= 1
    BY SettingNumbers, Zenon DEF WindowIInv, WindowType
  <1>2. CASE per_address[ga] = None
    <2>1. Entry(ga) = [count |-> 0, window_start |-> now]
      BY <1>2, Zenon DEF Entry
    <2>2. ~Elapsed(ga)
      BY <1>1, <2>1 DEF Elapsed, Second
    <2>3. Counted(ga) = [count |-> 1, window_start |-> now]
      BY <2>1, <2>2 DEF Counted
    <2>4. ~IsThrottled(ga)
      BY <2>3, <1>1 DEF IsThrottled
    <2> QED BY <1>2, <2>3, <2>4, Zenon
  <1>3. CASE per_address[ga] # None
    <2>1. per_address[ga] \in AddressState /\ Entry(ga) = per_address[ga]
      BY <1>3 DEF WindowIInv, WindowType, Entry
    <2>2. per_address[ga].count \in Nat /\ per_address[ga].window_start \in Nat
      BY <2>1 DEF AddressState
    <2>3. Elapsed(ga) <=> now >= per_address[ga].window_start + Second
      BY <2>1, <2>2, <1>1 DEF Elapsed, Second
    <2>4. CASE Elapsed(ga)
      BY <2>4, <2>3, <1>3, Zenon DEF Counted, IsThrottled
    <2>5. CASE ~Elapsed(ga)
      <3>1. Counted(ga) = [per_address[ga] EXCEPT !.count = @ + 1]
        BY <2>5, <2>1, Zenon DEF Counted
      <3>2. Counted(ga) = [count |-> per_address[ga].count + 1,
                           window_start |-> per_address[ga].window_start]
        BY <3>1, <2>1, Zenon DEF AddressState
      <3>3. IsThrottled(ga) <=> per_address[ga].count + 1 > setting.per_address_max_per_sec
        BY <3>2, <2>5 DEF IsThrottled
      <3>4. now < per_address[ga].window_start + Second
        BY <2>5, <2>3, <2>2, <1>1 DEF Second
      <3> QED BY <3>2, <3>3, <3>4, <1>3, Zenon
    <2> QED BY <2>4, <2>5, Zenon
  <1> QED BY <1>2, <1>3, Zenon

(* Every step but the arrival of a telegram leaves the windows alone. *)
LEMMA WindowFrame ==
  ASSUME WindowIInv, Next
  PROVE  /\ setting' = setting /\ now' \in Nat /\ now' >= now
         /\ \/ UNCHANGED <<per_address, through, passed>>
            \/ \E d \in setting.destinations, k \in setting.kinds : Arrive(d, k)
  <1>0. setting' = setting /\ now' \in Nat /\ now' >= now
    BY BucketFrame, Zenon DEF WindowIInv, WindowType
  <1>1. CASE LimiterNext
    <2>1. Drain => UNCHANGED <<per_address, through, passed>>
      BY Zenon DEF Drain
    <2>2. Tick => UNCHANGED <<per_address, through, passed>>
      BY Zenon DEF Tick
    <2> QED BY <1>0, <1>1, <2>1, <2>2 DEF LimiterNext
  <1>2. CASE UNCHANGED limiterVars
    BY <1>0, <1>2, Zenon DEF limiterVars
  <1>3. CASE Process
    BY <1>0, <1>3, Zenon DEF Process
  <1> QED BY <1>1, <1>2, <1>3 DEF Next

(* If a telegram to d is counted in window and at place, then all that
   passed before it are as far from it as the windows say. *)
LEMMA CountedApart ==
  ASSUME WindowIInv, NEW d \in Groups, ~IsThrottled(d), NEW g \in passed, g.ga = d
  PROVE  WindowsApart(g, Counted(d).window_start, Counted(d).count, through[d] + 1)
  <1> DEFINE m == setting.per_address_max_per_sec
             w == per_address[d].window_start
             c == per_address[d].count
  <1>1. /\ per_address[d] # None
        /\ WindowsApart(g, w, InWindow(d), through[d]) /\ WindowHolds(g)
    BY DEF WindowIInv, WindowInv
  <1>2. /\ m \in Nat /\ m >= 1 /\ w \in Nat /\ c \in Nat /\ c >= 1 /\ now \in Nat
        /\ through[d] \in Nat /\ g.number \in Nat /\ g.window \in Nat /\ g.place \in Nat
    BY <1>1, SettingNumbers DEF WindowIInv, WindowType, AddressState
  <1>3. InWindow(d) \in Nat /\ InWindow(d) <= m /\ (c < m => InWindow(d) = c)
    BY <1>2 DEF InWindow
  <1>4. CASE /\ now >= w + Second
             /\ Counted(d) = [count |-> 1, window_start |-> now]
    <2>1. WindowsApart(g, now, 1, through[d] + 1)
      BY <1>1, <1>2, <1>3, <1>4 DEF WindowsApart, Second
    <2> QED BY <2>1, <1>4
  <1>5. CASE /\ c + 1 <= m
             /\ Counted(d) = [count |-> c + 1, window_start |-> w]
    <2>1. InWindow(d) = c
      BY <1>2, <1>3, <1>5
    <2>2. WindowsApart(g, w, c + 1, through[d] + 1)
      <3>1. CASE g.window = w /\ through[d] - g.number = c - g.place
        <4>1. (through[d] + 1) - g.number = (c + 1) - g.place
          BY <1>2, <3>1
        <4> QED BY <3>1, <4>1 DEF WindowsApart
      <3>2. CASE w >= g.window + Second /\ through[d] - g.number <= c + m - g.place
        <4>1. (through[d] + 1) - g.number <= (c + 1) + m - g.place
          BY <1>2, <3>2
        <4> QED BY <3>2, <4>1 DEF WindowsApart
      <3>3. CASE w >= g.window + 2 * Second
        BY <3>3 DEF WindowsApart
      <3> QED BY <1>1, <2>1, <3>1, <3>2, <3>3, Zenon DEF WindowsApart
    <2> QED BY <2>2, <1>5
  <1>6. ~(c + 1 > m) => c + 1 <= m
    BY <1>2
  <1> QED BY <1>1, <1>4, <1>5, <1>6, CountedCases

(* A telegram that is counted: where it is in its window. *)
LEMMA CountedHolds ==
  ASSUME WindowIInv, NEW d \in Groups
  PROVE  /\ Counted(d) \in AddressState /\ Counted(d).window_start <= now
         /\ ~IsThrottled(d) =>
               /\ Counted(d).count <= setting.per_address_max_per_sec
               /\ now < Counted(d).window_start + Second
               /\ Counted(d).count = 1 => Counted(d).window_start = now
  <1>1. /\ now \in Nat /\ setting.per_address_max_per_sec \in Nat
        /\ setting.per_address_max_per_sec >= 1
    BY SettingNumbers DEF WindowIInv, WindowType
  <1>2. CASE Counted(d) = [count |-> 1, window_start |-> now]
    BY <1>1, <1>2 DEF AddressState, Second
  <1>3. CASE /\ per_address[d] # None /\ now < per_address[d].window_start + Second
             /\ Counted(d) = [count |-> per_address[d].count + 1,
                              window_start |-> per_address[d].window_start]
             /\ IsThrottled(d)
                 <=> per_address[d].count + 1 > setting.per_address_max_per_sec
    <2>1. /\ per_address[d].count \in Nat /\ per_address[d].count >= 1
          /\ per_address[d].window_start \in Nat /\ per_address[d].window_start <= now
      BY <1>3 DEF WindowIInv, WindowType, AddressState
    <2> QED BY <1>1, <1>3, <2>1 DEF AddressState
  <1> QED BY <1>2, <1>3, CountedCases, Zenon

(* A step keeps the invariant of the windows. *)
LEMMA WindowStep == WindowIInv /\ [Next]_vars => WindowIInv'
  <1> SUFFICES ASSUME WindowIInv, [Next]_vars PROVE WindowIInv'
    OBVIOUS
  <1> DEFINE m == setting.per_address_max_per_sec
  <1>0. now \in Nat /\ m \in Nat /\ m >= 1
    BY SettingNumbers, Zenon DEF WindowIInv, WindowType
  <1>1. CASE /\ setting' = setting /\ now' \in Nat /\ now' >= now
             /\ UNCHANGED <<per_address, through, passed>>
    <2>1. WindowType'
      BY <1>0, <1>1 DEF WindowIInv, WindowType, AddressState
    <2>2. ASSUME NEW g \in passed
          PROVE  g.at <= now'
      BY <1>0, <1>1 DEF WindowIInv, WindowType, WindowInv
    <2>3. WindowInv'
      BY <1>1, <2>2, Zenon DEF WindowIInv, WindowInv, WindowHolds, WindowsApart, InWindow
    <2> QED BY <2>1, <2>3 DEF WindowIInv
  <1>2. ASSUME NEW d \in setting.destinations, NEW k \in setting.kinds, Arrive(d, k),
               setting' = setting
        PROVE  WindowIInv'
    <2>0. now' = now
      BY <1>2, Zenon DEF Arrive
    <2>1. CASE d \notin Groups
      <3>1. UNCHANGED <<per_address, through, passed>>
        BY <1>2, <2>1, Zenon DEF Arrive, TrySend
      <3>2. now' \in Nat /\ now' >= now
        BY <1>0, <2>0
      <3> QED BY <1>1, <1>2, <3>1, <3>2, Zenon
    <2>2. CASE d \in Groups
      <3>0. /\ Counted(d) \in AddressState /\ Counted(d).window_start <= now
            /\ Counted(d).count \in Nat /\ Counted(d).count >= 1
            /\ Counted(d).window_start \in Nat
        BY <2>2, CountedHolds DEF AddressState
      <3>1. per_address' = [per_address EXCEPT ![d] = Counted(d)]
        BY <1>2, <2>2, Zenon DEF Arrive, TrySend
      <3>2. /\ per_address' \in [Groups -> AddressState \cup {None}]
            /\ per_address'[d] = Counted(d) /\ per_address'[d] # None
            /\ \A ga \in Groups : ga # d => per_address'[ga] = per_address[ga]
        BY <2>2, <3>0, <3>1, NoneIsNoState DEF WindowIInv, WindowType
      <3>3. \A ga \in Groups : per_address'[ga] # None
                               => per_address'[ga].window_start <= now'
        BY <2>0, <3>0, <3>2, Zenon DEF WindowIInv, WindowType
      <3>4. CASE IsThrottled(d)
        <4>1. UNCHANGED <<through, passed>>
          BY <1>2, <2>2, <3>4, Zenon DEF Arrive, TrySend
        <4>2. WindowType'
          BY <1>0, <1>2, <2>0, <3>2, <3>3, <4>1 DEF WindowIInv, WindowType
        <4>3. /\ per_address[d] # None
              /\ Counted(d).window_start = per_address[d].window_start
              /\ Counted(d).count = per_address[d].count + 1
              /\ per_address[d].count + 1 > m
          BY <2>2, <3>4, CountedCases
        <4>4. per_address[d].count \in Nat
          BY <2>2, <4>3, Zenon DEF WindowIInv, WindowType, AddressState
        <4>5. InWindow(d)' = InWindow(d)
          BY <1>0, <1>2, <3>2, <4>3, <4>4 DEF InWindow
        <4>6. ASSUME NEW g \in passed
              PROVE  /\ per_address'[g.ga] # None
                     /\ per_address'[g.ga].window_start = per_address[g.ga].window_start
                     /\ InWindow(g.ga)' = InWindow(g.ga)
          <5>1. g.ga \in Groups /\ per_address[g.ga] # None
            BY DEF WindowIInv, WindowType, WindowInv
          <5> QED BY <1>2, <3>2, <4>3, <4>5, <5>1, Zenon DEF InWindow
        <4>7. WindowInv'
          BY <1>2, <2>0, <4>1, <4>6, Zenon DEF WindowIInv, WindowInv, WindowHolds, WindowsApart
        <4> QED BY <4>2, <4>7 DEF WindowIInv
      <3>5. CASE ~IsThrottled(d)
        <4> DEFINE n == [ga |-> d, number |-> through[d] + 1, at |-> now,
                         window |-> Counted(d).window_start, place |-> Counted(d).count]
        <4>1. through' = [through EXCEPT ![d] = @ + 1] /\ passed' = passed \cup {n}
          BY <1>2, <2>2, <3>5, Zenon DEF Arrive, TrySend
        <4>2. through[d] \in Nat /\ through'[d] = through[d] + 1
          BY <2>2, <4>1, Zenon DEF WindowIInv, WindowType
        <4>3. WindowType'
          <5>0. through \in [Groups -> Nat] /\ through[d] + 1 \in Nat
            BY <4>2 DEF WindowIInv, WindowType
          <5>1. through' \in [Groups -> Nat]
            BY <4>1, <5>0, Zenon
          <5>2. n \in [ga : Groups, number : Nat, at : Nat, window : Nat, place : Nat]
            BY <1>0, <2>2, <3>0, <5>0
          <5> QED BY <1>0, <1>2, <2>0, <3>2, <3>3, <4>1, <5>1, <5>2, Zenon DEF WindowIInv, WindowType
        <4>4. /\ Counted(d).count <= m /\ now < Counted(d).window_start + Second
              /\ Counted(d).count = 1 => Counted(d).window_start = now
          BY <2>2, <3>5, CountedHolds, Zenon
        <4>5. InWindow(d)' = Counted(d).count
          BY <1>0, <1>2, <3>0, <3>2, <4>4 DEF InWindow
        <4> HIDE DEF n
        <4>6. /\ n.ga = d /\ n.number = through'[d] /\ n.at = now
              /\ n.window = Counted(d).window_start /\ n.place = Counted(d).count
          BY <4>2 DEF n
        <4>7. WindowHolds(n)
          BY <1>0, <3>0, <4>4, <4>6 DEF WindowHolds
        <4>8. ASSUME NEW g \in passed, g.ga = d
              PROVE  /\ g.number \in Nat /\ g.number < n.number
                     /\ WindowsApart(g, n.window, n.place, n.number)
          <5>1. g.number \in Nat /\ g.number <= through[d]
            BY <4>8 DEF WindowIInv, WindowType, WindowInv
          <5>2. WindowsApart(g, n.window, n.place, n.number)
            BY <2>2, <3>5, <4>2, <4>6, <4>8, CountedApart
          <5>3. g.number < n.number
            BY <5>1, <4>2, <4>6
          <5> QED BY <5>1, <5>2, <5>3, Zenon
        <4>9. WindowsApart(n, n.window, n.place, n.number)
          BY <3>0, <4>2, <4>6 DEF WindowsApart
        <4>10. /\ \A p : WindowHolds(p) => WindowHolds(p)'
               /\ \A g, w, p, i : WindowsApart(g, w, p, i) => WindowsApart(g, w, p, i)'
          BY <1>2 DEF WindowHolds, WindowsApart
        <4>11. ASSUME NEW g \in passed'
               PROVE  (/\ WindowHolds(g)
                       /\ g.number <= through[g.ga] /\ g.at <= now
                       /\ per_address[g.ga] # None
                       /\ WindowsApart(g, per_address[g.ga].window_start,
                                       InWindow(g.ga), through[g.ga]))'
          <5>1. CASE g = n
            <6>1. WindowsApart(g, per_address'[d].window_start, Counted(d).count, through'[d])
              BY <3>2, <4>6, <4>9, <5>1
            <6>2. g.number <= through'[g.ga] /\ g.at <= now'
              <7>1. through'[d] \in Nat /\ now' = now /\ now \in Nat
                BY <1>0, <2>0, <4>2
              <7> QED BY <4>6, <5>1, <7>1
            <6> QED BY <3>2, <4>5, <4>6, <4>7, <4>10, <5>1, <6>1, <6>2, Zenon
          <5>2. CASE g \in passed /\ g.ga = d
            <6>1. g.number <= through'[d] /\ g.at <= now' /\ WindowHolds(g)
              <7>1. g.at <= now /\ WindowHolds(g)
                BY <5>2, Zenon DEF WindowIInv, WindowInv
              <7>2. g.number <= through'[d]
                BY <4>2, <4>6, <4>8, <5>2
              <7> QED BY <2>0, <7>1, <7>2
            <6>2. WindowsApart(g, per_address'[d].window_start, Counted(d).count, through'[d])
              BY <3>2, <4>6, <4>8, <5>2, Zenon
            <6> QED BY <3>2, <4>5, <4>10, <5>2, <6>1, <6>2, Zenon
          <5>3. CASE g \in passed /\ g.ga # d
            <6>1. /\ g.ga \in Groups /\ WindowHolds(g)
                  /\ g.number <= through[g.ga] /\ g.at <= now /\ per_address[g.ga] # None
                  /\ WindowsApart(g, per_address[g.ga].window_start,
                                  InWindow(g.ga), through[g.ga])
              BY <5>3 DEF WindowIInv, WindowType, WindowInv
            <6>2. per_address'[g.ga] = per_address[g.ga] /\ through'[g.ga] = through[g.ga]
              BY <3>2, <4>1, <5>3, <6>1 DEF WindowIInv, WindowType
            <6>3. InWindow(g.ga)' = InWindow(g.ga)
              BY <1>2, <6>2, Zenon DEF InWindow
            <6> QED BY <2>0, <4>10, <6>1, <6>2, <6>3, Zenon
          <5> QED BY <4>1, <5>1, <5>2, <5>3, Zenon
        <4>12. ASSUME NEW g \in passed', NEW h \in passed', g.ga = h.ga, g.number <= h.number
               PROVE  WindowsApart(g, h.window, h.place, h.number)'
          <5>1. CASE g \in passed /\ h \in passed
            BY <4>10, <4>12, <5>1, Zenon DEF WindowIInv, WindowInv
          <5>2. CASE h = n /\ g = n
            BY <4>9, <4>10, <5>2
          <5>3. CASE h = n /\ g \in passed
            BY <4>6, <4>8, <4>10, <4>12, <5>3, Zenon
          <5>4. CASE h \in passed /\ g = n
            BY <4>2, <4>6, <4>8, <4>12, <5>4
          <5> QED BY <4>1, <5>1, <5>2, <5>3, <5>4, Zenon
        <4> QED BY <4>3, <4>11, <4>12, Zenon DEF WindowIInv, WindowInv
      <3> QED BY <3>4, <3>5
    <2> QED BY <2>1, <2>2, Zenon
  <1>3. CASE UNCHANGED vars
    BY <1>0, <1>1, <1>3 DEF vars, system, limiterVars
  <1> QED BY <1>1, <1>2, <1>3, WindowFrame

-----------------------------------------------------------------------------
(* Typed handles. *)

HandleType ==
    /\ setting \in Setting
    /\ channel \in Seq(Telegrams) /\ incoming \in Seq(Telegrams)
    /\ arrivals \in Nat
    /\ entries \in [Groups -> Bindings \cup {None}]
    /\ handles \subseteq [address : Groups, dpt : Dpts]
    /\ writing \in handles \cup {None}
    /\ reader \in [Readers -> ReaderStates]
    /\ next_id \in Nat /\ notifying \in Telegrams \cup {None}
    /\ \A r \in Readers : reader[r].dpt # None => reader[r].address \in Groups
HandleIInv == HandleType /\ HandlesAreCurrent

LEMMA HandleInit == Init => HandleIInv
  <1> SUFFICES ASSUME Init PROVE HandleIInv
    BY Zenon
  <1>1. setting \in Setting
    BY SettingAssumption, Zenon DEF Init
  <1>2. channel = <<>> /\ incoming = <<>> /\ arrivals = 0
    BY Zenon DEF Init, LimiterInit
  <1>3. entries = [a \in Groups |-> None]
    BY Zenon DEF Init, RegistryInit
  <1>4. handles = {} /\ writing = None
    BY Zenon DEF Init, TypedInit
  <1>5. /\ reader = [r \in Readers |-> Idle] /\ next_id = 1 /\ notifying = None
        /\ Idle \in ReaderStates /\ Idle.dpt = None
    BY DEF Init, HandlerInit, Idle, ReaderStates
  <1> QED
    BY <1>1, <1>2, <1>3, <1>4, <1>5 DEF HandleIInv, HandleType, HandlesAreCurrent

(* Handles that are current agree with decode_group_value. *)
LEMMA CurrentDecodes == HandleIInv => OneMeaning
  BY Zenon DEF HandleIInv, HandleType, OneMeaning, Decodes, CheckDptCurrent, BoundTo, Bound,
         DecodeGroupValue

(* As long as no binding is lost and no call gets another DPT, the handles
   stay current. *)
BindingsKept ==
    \A a \in Groups : Bound(a) => entries'[a] # None /\ entries'[a].dpt = entries[a].dpt
CallsKept ==
    \A r \in Readers : \/ reader'[r].dpt = None
                      \/ /\ reader'[r].dpt = reader[r].dpt
                         /\ reader'[r].address = reader[r].address
LEMMA CurrentKept ==
  ASSUME HandleIInv, BindingsKept, CallsKept, writing' \in {writing, None},
         undone \subseteq undone'
  PROVE  HandlesAreCurrent'
  <1>1. ASSUME NEW r \in Readers \ undone', reader'[r].dpt # None
        PROVE  BoundTo(reader[r].address, reader[r].dpt)'
    <2>1. reader[r].address \in Groups /\ BoundTo(reader[r].address, reader[r].dpt)
      BY <1>1, Zenon DEF HandleIInv, HandleType, HandlesAreCurrent, CallsKept
    <2> QED BY <1>1, <2>1 DEF BindingsKept, CallsKept, BoundTo, Bound
  <1>2. ASSUME writing' # None, "write" \notin undone'
        PROVE  BoundTo(writing.address, writing.dpt)'
    <2>1. /\ writing' = writing /\ writing.address \in Groups
          /\ BoundTo(writing.address, writing.dpt)
      BY <1>2 DEF HandleIInv, HandleType, HandlesAreCurrent
    <2> QED BY <2>1, Zenon DEF BindingsKept, BoundTo, Bound
  <1> QED BY <1>1, <1>2, Zenon DEF HandlesAreCurrent

(* The steps of the event handler: no read in progress changes its DPT. *)
LEMMA HandlerKeeps ==
  ASSUME HandleType, HandlerNext
  PROVE  /\ reader' \in [Readers -> ReaderStates] /\ CallsKept
         /\ next_id' \in Nat /\ notifying' \in Telegrams \cup {None}
  <1> DEFINE Goal == /\ reader' \in [Readers -> ReaderStates] /\ CallsKept
                     /\ next_id' \in Nat /\ notifying' \in Telegrams \cup {None}
  <1>0. /\ reader \in [Readers -> ReaderStates] /\ next_id \in Nat
        /\ notifying \in Telegrams \cup {None} /\ setting \in Setting
    BY Zenon DEF HandleType
  <1>1. ASSUME UNCHANGED <<reader, notifying>>, next_id' \in {next_id, next_id + 1}
        PROVE  Goal
    BY <1>0, <1>1 DEF CallsKept
  <1>2. ASSUME NEW f, RegisterTelegramCallback(f) PROVE Goal
    <2>1. UNCHANGED <<reader, notifying>> /\ next_id' = next_id + 1
      BY <1>2, Zenon DEF RegisterTelegramCallback, PushEntry, notifyVars
    <2> QED BY <1>1, <2>1
  <1>3. ASSUME NEW id, ApplicationUnregisters(id) PROVE Goal
    <2>1. UNCHANGED <<reader, notifying, next_id>>
      BY <1>3, Zenon DEF ApplicationUnregisters, UnregisterCallback, notifyVars
    <2> QED BY <1>1, <2>1, Zenon
  <1>4. CASE RegisterConnectionCallback
    <2>1. UNCHANGED <<reader, notifying>> /\ next_id' = next_id + 1
      BY <1>4, Zenon DEF RegisterConnectionCallback, notifyVars
    <2> QED BY <1>1, <2>1, Zenon
  <1>5. CASE ClearAllCallbacks
    <2>1. UNCHANGED <<reader, notifying, next_id>>
      BY <1>5, Zenon DEF ClearAllCallbacks, notifyVars
    <2> QED BY <1>1, <2>1, Zenon
  <1>6. CASE CallNext
    <2>1. UNCHANGED <<notifying, next_id>> /\ notifying # None
      BY <1>6, Zenon DEF CallNext, entryVars
    <2>2. reader' = reader \/ reader' = Deliver(telegram_callbacks[position].id)
      BY <1>6, Zenon DEF CallNext
    <2>3. ASSUME NEW id, reader' = Deliver(id) PROVE Goal
      <3>1. ASSUME NEW r \in Readers
            PROVE  /\ reader'[r] \in ReaderStates
                   /\ reader'[r].dpt = reader[r].dpt /\ reader'[r].address = reader[r].address
        <4>1. reader'[r] = reader[r] \/ reader'[r] = [reader[r] EXCEPT !.rx = notifying]
          BY <2>3, Zenon DEF Deliver
        <4> QED BY <4>1, <1>0, <2>1 DEF ReaderStates
      <3> QED BY <1>0, <2>1, <2>3, <3>1 DEF Deliver, CallsKept
    <2> QED BY <1>1, <2>1, <2>2, <2>3, Zenon
  <1>7. CASE CallTimeout \/ CallReturn
    <2>1. UNCHANGED <<reader, notifying, next_id>>
      BY <1>7, Zenon DEF CallTimeout, CallReturn, CallEnd, entryVars
    <2> QED BY <1>1, <2>1
  <1>8. CASE NotifyEnd
    <2>1. UNCHANGED <<reader, next_id>> /\ notifying' = None
      BY <1>8, Zenon DEF NotifyEnd, entryVars
    <2> QED BY <1>0, <2>1, Zenon DEF CallsKept
  <1>9. ASSUME NEW r \in Readers, UNCHANGED notifying, next_id' \in {next_id, next_id + 1},
               reader' = [reader EXCEPT ![r] = Idle]
        PROVE  Goal
    <2>1. Idle \in ReaderStates /\ Idle.dpt = None
      BY Zenon DEF Idle, ReaderStates
    <2>2. CallsKept
      BY <1>0, <1>9, <2>1 DEF CallsKept
    <2> QED BY <1>0, <1>9, <2>1, <2>2
  <1>10. ASSUME NEW r \in Readers, NEW a \in setting.destinations \cap Groups,
                ReadBegin(r, a, None)
         PROVE  Goal
    <2> DEFINE begun == [Idle EXCEPT !.pc = "register", !.address = a, !.dpt = None]
    <2>1. UNCHANGED <<notifying, next_id>> /\ reader' = [reader EXCEPT ![r] = begun]
      BY <1>10, Zenon DEF ReadBegin, entryVars, notifyVars
    <2>2. begun \in ReaderStates /\ begun.dpt = None
      BY Zenon DEF Idle, ReaderStates
    <2> HIDE DEF begun
    <2>3. CallsKept
      BY <1>0, <2>1, <2>2, Zenon DEF CallsKept
    <2> QED BY <1>0, <2>1, <2>2, <2>3, Zenon
  <1>11. ASSUME NEW r \in Readers, ReadSteps(r) PROVE Goal
    <2>1. ASSUME NEW s \in ReaderStates, reader' = [reader EXCEPT ![r] = s],
                 s.dpt = reader[r].dpt, s.address = reader[r].address,
                 UNCHANGED notifying, next_id' \in {next_id, next_id + 1}
          PROVE  Goal
      <3>1. CallsKept
        BY <1>0, <2>1 DEF CallsKept
      <3> QED BY <1>0, <2>1, <3>1
    <2>2. CASE ReadRegister(r)
      <3> DEFINE s == [reader[r] EXCEPT !.pc = "send", !.handle = next_id]
      <3>1. /\ UNCHANGED notifying /\ next_id' = next_id + 1
            /\ reader' = [reader EXCEPT ![r].pc = "send", ![r].handle = next_id]
        BY <2>2, Zenon DEF ReadRegister, PushEntry, notifyVars
      <3>2. /\ s \in ReaderStates /\ s.dpt = reader[r].dpt
            /\ s.address = reader[r].address
        BY <1>0, Zenon DEF ReaderStates
      <3>3. reader' = [reader EXCEPT ![r] = s]
        BY <3>1, Zenon
      <3> HIDE DEF s
      <3> QED BY <2>1, <3>1, <3>2, <3>3, Zenon
    <2>3. CASE ReadSend(r)
      <3> DEFINE s == [reader[r] EXCEPT !.pc = "wait"]
      <3>1. UNCHANGED <<notifying, next_id>> /\ reader' = [reader EXCEPT ![r].pc = "wait"]
        BY <2>3, Zenon DEF ReadSend, entryVars, notifyVars
      <3>2. /\ s \in ReaderStates /\ s.dpt = reader[r].dpt
            /\ s.address = reader[r].address
        BY <1>0 DEF ReaderStates
      <3>3. reader' = [reader EXCEPT ![r] = s]
        BY <3>1
      <3> HIDE DEF s
      <3> QED BY <2>1, <3>1, <3>2, <3>3, Zenon
    <2>4. CASE ReadSendErr(r)
      <3> DEFINE s == [reader[r] EXCEPT !.pc = "unregister", !.outcome = "error"]
      <3>1. /\ UNCHANGED <<notifying, next_id>>
            /\ reader' = [reader EXCEPT ![r].pc = "unregister", ![r].outcome = "error"]
        BY <2>4, Zenon DEF ReadSendErr, entryVars, notifyVars
      <3>2. /\ s \in ReaderStates /\ s.dpt = reader[r].dpt
            /\ s.address = reader[r].address
        BY <1>0, Zenon DEF ReaderStates
      <3>3. reader' = [reader EXCEPT ![r] = s]
        BY <3>1, Zenon
      <3> HIDE DEF s
      <3> QED BY <2>1, <3>1, <3>2, <3>3, Zenon
    <2>5. CASE ReadEnd(r)
      <3> DEFINE out == IF reader[r].rx = None THEN "timeout" ELSE "value"
                 s == [reader[r] EXCEPT !.pc = "unregister", !.outcome = out]
      <3>1. UNCHANGED <<notifying, next_id>> /\ reader' = [reader EXCEPT ![r] = s]
        BY <2>5 DEF ReadEnd, entryVars, notifyVars
      <3>2. /\ s \in ReaderStates /\ s.dpt = reader[r].dpt
            /\ s.address = reader[r].address
        BY <1>0, Zenon DEF ReaderStates
      <3> HIDE DEF s
      <3> QED BY <2>1, <3>1, <3>2, Zenon
    <2>6. CASE ReadUnregister(r)
      <3>1. UNCHANGED <<notifying, next_id>> /\ reader' = [reader EXCEPT ![r] = Idle]
        BY <2>6, Zenon DEF ReadUnregister, UnregisterCallback, notifyVars
      <3> QED BY <1>9, <3>1, Zenon
    <2> QED BY <1>11, <2>2, <2>3, <2>4, <2>5, <2>6, Zenon DEF ReadSteps
  <1>12. ASSUME NEW r \in Readers, ReadCancel(r) PROVE Goal
    <2>1. UNCHANGED <<notifying, next_id>> /\ reader' = [reader EXCEPT ![r] = Idle]
      BY <1>12, Zenon DEF ReadCancel, entryVars, notifyVars
    <2> QED BY <1>9, <2>1, Zenon
  <1> QED
    BY <1>2, <1>3, <1>4, <1>5, <1>6, <1>7, <1>8, <1>10, <1>11, <1>12, Zenon
       DEF HandlerNext, NotifySteps

(* The steps of the limiter: what waits is telegrams. *)
LEMMA LimiterKeeps ==
  ASSUME HandleType, LimiterNext
  PROVE  channel' \in Seq(Telegrams) /\ incoming' \in Seq(Telegrams) /\ arrivals' \in Nat
  <1>0. /\ channel \in Seq(Telegrams) /\ incoming \in Seq(Telegrams) /\ arrivals \in Nat
        /\ setting \in Setting
    BY Zenon DEF HandleType
  <1>1. ASSUME NEW d \in setting.destinations, NEW k \in setting.kinds, Arrive(d, k)
        PROVE  channel' \in Seq(Telegrams) /\ incoming' = incoming /\ arrivals' = arrivals + 1
    <2> DEFINE t == [number |-> arrivals + 1, destination |-> d, kind |-> k]
    <2>0. d \in Groups \cup {Individual} /\ k \in {"Read", "Write", "Response"}
      BY <1>0, Zenon DEF Setting
    <2>1. t \in Telegrams
      BY <1>0, <2>0 DEF Telegrams
    <2>2. channel' = channel \/ channel' = Append(channel, t)
      BY <1>1, Zenon DEF Arrive, TrySend
    <2>3. incoming' = incoming /\ arrivals' = arrivals + 1
      BY <1>1, Zenon DEF Arrive
    <2> HIDE DEF t
    <2> QED BY <1>0, <2>1, <2>2, <2>3
  <1>2. CASE Drain
    <2>1. /\ channel # <<>> /\ channel' = Tail(channel) /\ arrivals' = arrivals
          /\ incoming' = Append(incoming, Head(channel)) \/ incoming' = incoming
      BY <1>2, Zenon DEF Drain
    <2>2. Head(channel) \in Telegrams /\ Tail(channel) \in Seq(Telegrams)
      BY <1>0, <2>1
    <2>3. \A t \in Telegrams : Append(incoming, t) \in Seq(Telegrams)
      BY <1>0
    <2> QED BY <1>0, <2>1, <2>2, <2>3, Zenon
  <1>3. CASE Tick
    BY <1>0, <1>3, Zenon DEF Tick
  <1> QED BY <1>0, <1>1, <1>2, <1>3 DEF LimiterNext

(* Registering, and what the registry learns, leave every binding its DPT. *)
LEMMA RegisterKeeps ==
  ASSUME HandleType, NEW a \in Groups, NEW dpt \in Dpts, Register(a, dpt)
  PROVE  entries' \in [Groups -> Bindings \cup {None}] /\ BindingsKept
  <1>1. entries' = [entries EXCEPT ![a] = Binding(dpt)] /\ ~Bound(a)
    BY Zenon DEF Register
  <1>2. Binding(dpt) \in Bindings
    BY Zenon DEF Binding, Bindings
  <1>3. entries \in [Groups -> Bindings \cup {None}] /\ entries[a] = None
    BY <1>1, Zenon DEF HandleType, Bound
  <1>4. \A x \in Groups : x # a => entries'[x] = entries[x]
    BY <1>1, <1>3, Zenon
  <1>5. BindingsKept
    BY <1>3, <1>4, Zenon DEF BindingsKept, Bound
  <1> QED BY <1>1, <1>2, <1>3, <1>5, Zenon

LEMMA ChangedKeeps ==
  ASSUME HandleType, NEW a \in Groups, Bound(a), NEW b \in Bindings,
         b.dpt = entries[a].dpt, entries' = [entries EXCEPT ![a] = b]
  PROVE  entries' \in [Groups -> Bindings \cup {None}] /\ BindingsKept
  BY NoneIsNoBinding, Zenon DEF HandleType, BindingsKept, Bound

LEMMA RegistryKeeps ==
  ASSUME HandleType, RegistryNext
  PROVE  entries' \in [Groups -> Bindings \cup {None}] /\ BindingsKept
  <1> DEFINE Goal == entries' \in [Groups -> Bindings \cup {None}] /\ BindingsKept
  <1>0. setting \in Setting /\ \A a \in Groups : Bound(a) => entries[a] \in Bindings
    BY Zenon DEF HandleType, Bound
  <1>1. ASSUME NEW a \in setting.registered, NEW dpt \in setting.dpts, Register(a, dpt)
        PROVE  Goal
    <2>1. a \in Groups /\ dpt \in Dpts
      BY <1>0, Zenon DEF Setting
    <2> QED BY <1>1, <2>1, RegisterKeeps, Zenon
  <1>2. ASSUME NEW a \in Groups, Expire(a) PROVE Goal
    <2> DEFINE b == [entries[a] EXCEPT !.fresh = FALSE]
    <2>1. Bound(a) /\ entries' = [entries EXCEPT ![a] = b]
      BY <1>2, Zenon DEF Expire
    <2>2. b \in Bindings /\ b.dpt = entries[a].dpt
      BY <1>0, <2>1, Zenon DEF Bindings
    <2> HIDE DEF b
    <2> QED BY <2>1, <2>2, ChangedKeeps, Zenon
  <1>3. ASSUME NEW a \in Groups, NEW ttl \in BOOLEAN, SetRefreshTtl(a, ttl) PROVE Goal
    <2>1. PICK fresh \in {entries[a].last_seen_value # None, FALSE} :
             entries' = [entries EXCEPT ![a].ttl = ttl, ![a].fresh = fresh]
      BY <1>3, Zenon DEF SetRefreshTtl
    <2> DEFINE b == [entries[a] EXCEPT !.ttl = ttl, !.fresh = fresh]
    <2>2. Bound(a) /\ entries' = [entries EXCEPT ![a] = b]
      BY <1>3, <2>1, Zenon DEF SetRefreshTtl
    <2>3. b \in Bindings /\ b.dpt = entries[a].dpt
      BY <1>0, <2>1, <2>2, Zenon DEF Bindings
    <2> HIDE DEF b
    <2> QED BY <2>2, <2>3, ChangedKeeps, Zenon
  <1>4. CASE RefreshPick \/ RefreshSend \/ RefreshSendErr
    <2>1. entries' = entries
      BY <1>4, Zenon DEF RefreshPick, RefreshSend, RefreshSendErr
    <2> QED BY <2>1, Zenon DEF HandleType, BindingsKept, Bound
  <1> QED BY <1>1, <1>2, <1>3, <1>4, Zenon DEF RegistryNext

LEMMA ProcessKeeps ==
  ASSUME HandleType, Process
  PROVE  /\ entries' \in [Groups -> Bindings \cup {None}] /\ BindingsKept
         /\ incoming' \in Seq(Telegrams) /\ notifying' \in Telegrams
         /\ UNCHANGED <<channel, arrivals, reader, next_id, typedVars>>
  <1> DEFINE t == Head(incoming)
  <1>1. /\ incoming # <<>> /\ incoming' = Tail(incoming) /\ entries' = RecordSeen(t)
        /\ notifying' = t /\ UNCHANGED <<channel, arrivals, reader, next_id, typedVars>>
    BY Zenon DEF Process, Notify, entryVars
  <1>2. t \in Telegrams /\ incoming' \in Seq(Telegrams)
    BY <1>1 DEF HandleType
  <1> HIDE DEF t
  <1>3. entries' \in [Groups -> Bindings \cup {None}] /\ BindingsKept
    <2>1. CASE entries' = entries
      BY <2>1, Zenon DEF HandleType, BindingsKept, Bound
    <2>2. CASE /\ t.destination \in Groups /\ Bound(t.destination)
               /\ entries' = [entries EXCEPT ![t.destination].fresh = TRUE,
                                             ![t.destination].last_seen_value = t]
      <3> DEFINE b == [entries[t.destination] EXCEPT !.fresh = TRUE, !.last_seen_value = t]
      <3>1. entries' = [entries EXCEPT ![t.destination] = b]
        BY <2>2, Zenon
      <3>2. entries[t.destination] \in Bindings
        BY <2>2, Zenon DEF HandleType, Bound
      <3>3. b \in Bindings /\ b.dpt = entries[t.destination].dpt
        BY <1>2, <3>2, Zenon DEF Bindings
      <3> HIDE DEF b
      <3> QED BY <2>2, <3>1, <3>3, ChangedKeeps, Zenon
    <2> QED BY <1>1, <2>1, <2>2, Zenon DEF RecordSeen
  <1> QED BY <1>1, <1>2, <1>3, Zenon

(* The steps of handles.  A call begins only with a handle that is current,
   and unregister_group_address marks the calls it overtakes. *)
LEMMA TypedKeeps ==
  ASSUME HandleIInv, TypedNext, setting' = setting, UNCHANGED limiterVars
  PROVE  HandleIInv'
  <1>0. /\ HandleType /\ setting \in Setting
        /\ entries \in [Groups -> Bindings \cup {None}]
        /\ handles \subseteq [address : Groups, dpt : Dpts] /\ writing \in handles \cup {None}
        /\ reader \in [Readers -> ReaderStates]
        /\ next_id \in Nat /\ notifying \in Telegrams \cup {None}
        /\ \A r \in Readers : reader[r].dpt # None => reader[r].address \in Groups
    BY Zenon DEF HandleIInv, HandleType
  <1>1. channel' \in Seq(Telegrams) /\ incoming' \in Seq(Telegrams) /\ arrivals' \in Nat
    BY Zenon DEF HandleIInv, HandleType, limiterVars
  <1>2. ASSUME NEW a \in setting.registered, NEW dpt \in setting.dpts, GroupAddress(a, dpt)
        PROVE  HandleIInv'
    <2>1. a \in Groups /\ dpt \in Dpts
      BY <1>0, Zenon DEF Setting
    <2>2. /\ handles' = handles \cup {Handle(a, dpt)}
          /\ UNCHANGED <<reader, next_id, notifying, writing, undone>>
          /\ Register(a, dpt) \/ entries' = entries
      BY <1>2, Zenon DEF GroupAddress, handlerVars, entryVars, notifyVars, registryVars
    <2>3. entries' \in [Groups -> Bindings \cup {None}] /\ BindingsKept
      BY <1>0, <2>1, <2>2, RegisterKeeps, Zenon DEF BindingsKept, Bound
    <2>4. CallsKept
      BY <2>2, Zenon DEF CallsKept
    <2>5. HandlesAreCurrent'
      BY <2>2, <2>3, <2>4, CurrentKept, Zenon
    <2>6. Handle(a, dpt) \in [address : Groups, dpt : Dpts]
      BY <2>1, Zenon DEF Handle
    <2> QED BY <1>0, <1>1, <2>2, <2>3, <2>5, <2>6, Zenon DEF HandleIInv, HandleType
  <1>3. ASSUME NEW h \in handles, TypedWrite(h) PROVE HandleIInv'
    <2>1. /\ UNCHANGED <<entries, handles, reader, next_id, notifying>>
          /\ writing' = h /\ undone' = undone \ {"write"} /\ BoundTo(h.address, h.dpt)
      BY <1>3, Zenon DEF TypedWrite, CheckDptCurrent, handlerVars, entryVars, notifyVars,
                         registryVars
    <2>2. BoundTo(writing.address, writing.dpt)'
      BY <2>1, Zenon DEF BoundTo, Bound
    <2>3. ASSUME NEW r \in Readers \ undone', reader'[r].dpt # None
          PROVE  BoundTo(reader[r].address, reader[r].dpt)'
      <3>1. r \in Readers \ undone
        BY <2>1, WriteIsNoReader, Zenon
      <3> QED BY <2>1, <2>3, <3>1, Zenon DEF HandleIInv, HandlesAreCurrent, BoundTo, Bound
    <2> QED
      BY <1>0, <1>1, <2>1, <2>2, <2>3, Zenon DEF HandleIInv, HandleType, HandlesAreCurrent
  <1>4. ASSUME NEW h \in handles, NEW r \in Readers, TypedRead(r, h) PROVE HandleIInv'
    <2> DEFINE begun == [Idle EXCEPT !.pc = "register", !.address = h.address, !.dpt = h.dpt]
    <2>1. /\ UNCHANGED <<entries, handles, next_id, notifying, writing>>
          /\ reader' = [reader EXCEPT ![r] = begun]
          /\ undone' = undone \ {r} /\ BoundTo(h.address, h.dpt)
      BY <1>4, Zenon DEF TypedRead, ReadBegin, CheckDptCurrent, entryVars, notifyVars,
                         registryVars
    <2>2. h.address \in Groups /\ h.dpt \in Dpts
      BY <1>0, Zenon
    <2>3. begun \in ReaderStates /\ begun.dpt = h.dpt /\ begun.address = h.address
      BY <2>2, Zenon DEF Idle, ReaderStates
    <2> HIDE DEF begun
    <2>4. reader'[r] = begun /\ \A q \in Readers : q # r => reader'[q] = reader[q]
      BY <1>0, <2>1, Zenon
    <2>5. ASSUME NEW q \in Readers \ undone', reader'[q].dpt # None
          PROVE  BoundTo(reader[q].address, reader[q].dpt)'
      <3>1. CASE q = r
        BY <2>1, <2>3, <2>4, <3>1 DEF BoundTo, Bound
      <3>2. CASE q # r
        BY <2>1, <2>4, <2>5, <3>2 DEF HandleIInv, HandlesAreCurrent, BoundTo, Bound
      <3> QED BY <3>1, <3>2, Zenon
    <2>6. ASSUME writing' # None, "write" \notin undone'
          PROVE  BoundTo(writing.address, writing.dpt)'
      BY <2>1, <2>6, WriteIsNoReader, Zenon DEF HandleIInv, HandlesAreCurrent, BoundTo, Bound
    <2>7. reader' \in [Readers -> ReaderStates]
      BY <1>0, <2>1, <2>3, Zenon
    <2>8. \A q \in Readers : reader'[q].dpt # None => reader'[q].address \in Groups
      BY <1>0, <2>2, <2>3, <2>4, Zenon
    <2> QED
      BY <1>0, <1>1, <2>1, <2>5, <2>6, <2>7, <2>8, Zenon DEF HandleIInv, HandleType, HandlesAreCurrent
  <1>5. CASE WriteSend
    <2>1. UNCHANGED <<entries, handles, reader, next_id, notifying, undone>> /\ writing' = None
      BY <1>5, Zenon DEF WriteSend, handlerVars, entryVars, notifyVars, registryVars
    <2>2. HandlesAreCurrent'
      BY <2>1, CurrentKept, Zenon DEF BindingsKept, CallsKept, Bound
    <2> QED BY <1>0, <1>1, <2>1, <2>2, Zenon DEF HandleIInv, HandleType
  <1>6. ASSUME NEW a \in Groups, UnregisterGroupAddress(a) PROVE HandleIInv'
    <2>1. /\ UNCHANGED <<handles, reader, next_id, notifying, writing>>
          /\ entries' = [entries EXCEPT ![a] = None]
          /\ undone' = undone \cup {r \in Readers : reader[r].address = a}
                              \cup {c \in {"write"} : writing # None /\ writing.address = a}
      BY <1>6, Zenon DEF UnregisterGroupAddress, Unregister, handlerVars, entryVars, notifyVars
    <2>2. /\ entries' \in [Groups -> Bindings \cup {None}]
          /\ \A x \in Groups : x # a => entries'[x] = entries[x]
      BY <1>0, <2>1, Zenon
    <2>3. ASSUME NEW r \in Readers \ undone', reader'[r].dpt # None
          PROVE  BoundTo(reader[r].address, reader[r].dpt)'
      <3>1. r \notin undone /\ reader[r].address # a
        BY <2>1, Zenon
      <3>2. reader[r].address \in Groups /\ BoundTo(reader[r].address, reader[r].dpt)
        BY <1>0, <2>1, <2>3, <3>1, Zenon DEF HandleIInv, HandlesAreCurrent
      <3> QED BY <2>1, <2>2, <3>1, <3>2, Zenon DEF BoundTo, Bound
    <2>4. ASSUME writing' # None, "write" \notin undone'
          PROVE  BoundTo(writing.address, writing.dpt)'
      <3>1. "write" \notin undone /\ writing # None /\ writing.address # a
        BY <2>1, <2>4, Zenon
      <3>2. writing.address \in Groups /\ BoundTo(writing.address, writing.dpt)
        BY <1>0, <3>1, Zenon DEF HandleIInv, HandlesAreCurrent
      <3> QED BY <2>1, <2>2, <3>1, <3>2, Zenon DEF BoundTo, Bound
    <2> QED
      BY <1>0, <1>1, <2>1, <2>2, <2>3, <2>4, Zenon DEF HandleIInv, HandleType, HandlesAreCurrent
  <1> QED BY <1>2, <1>3, <1>4, <1>5, <1>6, Zenon DEF TypedNext

(* A step keeps the handles current. *)
LEMMA HandleStep == HandleIInv /\ [Next]_vars => HandleIInv'
  <1> SUFFICES ASSUME HandleIInv, [Next]_vars PROVE HandleIInv'
    BY Zenon
  <1> DEFINE Waiting == /\ channel' \in Seq(Telegrams) /\ incoming' \in Seq(Telegrams)
                        /\ arrivals' \in Nat
             Registry == entries' \in [Groups -> Bindings \cup {None}] /\ BindingsKept
             CallsTyped == /\ reader' \in [Readers -> ReaderStates] /\ CallsKept
                      /\ next_id' \in Nat /\ notifying' \in Telegrams \cup {None}
  <1>1. ASSUME setting' = setting, Waiting, Registry, CallsTyped,
               UNCHANGED <<handles, writing, undone>>
        PROVE  HandleIInv'
    <2>1. HandlesAreCurrent'
      BY <1>1, CurrentKept, Zenon
    <2>2. \A r \in Readers : reader'[r].dpt # None => reader'[r].address \in Groups
      BY <1>1, Zenon DEF HandleIInv, HandleType, CallsKept
    <2> QED BY <1>1, <2>1, <2>2, Zenon DEF HandleIInv, HandleType
  <1>2. /\ UNCHANGED limiterVars => Waiting
        /\ UNCHANGED registryVars => Registry
        /\ UNCHANGED handlerVars => CallsTyped
    BY Zenon DEF HandleIInv, HandleType, limiterVars, registryVars, handlerVars, entryVars,
           notifyVars, BindingsKept, CallsKept, Bound
  <1>3. UNCHANGED typedVars => UNCHANGED <<handles, writing, undone>>
    BY Zenon DEF typedVars
  <1>4. HandleType
    BY Zenon DEF HandleIInv
  <1>5. CASE UNCHANGED vars
    <2>1. /\ setting' = setting /\ UNCHANGED limiterVars /\ UNCHANGED registryVars
          /\ UNCHANGED handlerVars /\ UNCHANGED typedVars
      BY <1>5, Zenon DEF vars, system
    <2> QED BY <1>1, <1>2, <1>3, <2>1, Zenon
  <1>6. CASE Next
    <2>0. setting' = setting
      BY <1>6, Zenon DEF Next
    <2>1. CASE LimiterNext /\ UNCHANGED <<handlerVars, registryVars, typedVars>>
      BY <1>1, <1>2, <1>3, <1>4, <2>0, <2>1, LimiterKeeps, Zenon
    <2>2. CASE HandlerNext /\ UNCHANGED <<limiterVars, registryVars, typedVars>>
      BY <1>1, <1>2, <1>3, <1>4, <2>0, <2>2, HandlerKeeps, Zenon
    <2>3. CASE RegistryNext /\ UNCHANGED <<limiterVars, handlerVars, typedVars>>
      BY <1>1, <1>2, <1>3, <1>4, <2>0, <2>3, RegistryKeeps, Zenon
    <2>4. CASE TypedNext /\ UNCHANGED limiterVars
      BY <2>0, <2>4, TypedKeeps, Zenon
    <2>5. CASE UNCHANGED <<limiterVars, handlerVars, registryVars, typedVars>>
      BY <1>1, <1>2, <1>3, <2>0, <2>5, Zenon
    <2>6. CASE Process
      <3>1. /\ entries' \in [Groups -> Bindings \cup {None}] /\ BindingsKept
            /\ incoming' \in Seq(Telegrams) /\ notifying' \in Telegrams
            /\ UNCHANGED <<channel, arrivals, reader, next_id, typedVars>>
        BY <1>4, <2>6, ProcessKeeps, Zenon
      <3>2. Waiting /\ CallsTyped
        BY <1>4, <3>1, Zenon DEF HandleType, CallsKept
      <3> QED BY <1>1, <1>3, <2>0, <3>1, <3>2, Zenon
    <2> QED BY <1>6, <2>1, <2>2, <2>3, <2>4, <2>5, <2>6, Zenon DEF Next
  <1> QED BY <1>5, <1>6, Zenon

-----------------------------------------------------------------------------
(* The sending task never sends more than the bucket allows. *)
LEMMA SendsAreBounded == Spec => [](SendsBounded /\ BucketInv)
  <1>1. BucketIInv => SendsBounded /\ BucketInv
    BY Zenon DEF BucketIInv
  <1> QED BY BucketInit, BucketStep, <1>1, PTL DEF Spec

(* Whatever the limit for an address, the rate and the burst, and however
   telegrams arrive and are sent: in less than a second no address gets more
   than twice its limit less one through (is_throttled), and in any time no
   more telegrams are sent than the bucket holds and gains
   (RateLimiter::acquire). *)
THEOREM RatesAreBounded == Spec => []RatesBounded
  <1>1. WindowIInv => BurstBounded /\ WindowInv
    BY WindowsBound, Zenon DEF WindowIInv
  <1>2. Spec => [](BurstBounded /\ WindowInv)
    BY WindowInit, WindowStep, <1>1, PTL DEF Spec
  <1>3. BurstBounded /\ WindowInv /\ SendsBounded /\ BucketInv => RatesBounded
    BY Zenon DEF RatesBounded
  <1> QED BY <1>2, <1>3, SendsAreBounded, PTL

(* A typed read or write works with the DPT its address is bound to, unless
   the address was unregistered while it awaited; and callbacks that decode
   one telegram agree on its DPT.  However many addresses, DPTs, readers and
   handles there are (TypedGroupAddress::read, write, decode). *)
THEOREM HandlesAreSound == Spec => []HandlesSound
  <1>1. HandleIInv => HandlesSound
    BY CurrentDecodes, Zenon DEF HandleIInv, HandlesSound
  <1> QED BY HandleInit, HandleStep, <1>1, PTL DEF Spec

-----------------------------------------------------------------------------
(* The callbacks beside the rest. *)
LEMMA HandlerStarts == Init => HandlerInv
  <1> SUFFICES ASSUME Init PROVE HandlerInv
    BY Zenon
  <1>1. setting \in Setting /\ HandlerInit
    BY SettingAssumption, Zenon DEF Init
  <1> QED BY <1>1, HandlerStart, Zenon

(* Callbacks are called for telegrams that waited in the queue, and read
   through handles. *)
LEMMA HandlerStep == HandleIInv /\ HandlerInv /\ [Next]_vars => HandlerInv'
  <1> SUFFICES ASSUME HandleIInv, HandlerInv, [Next]_vars PROVE HandlerInv'
    BY Zenon
  <1>1. setting' = setting
    BY Zenon DEF Next, vars
  <1>2. CASE UNCHANGED handlerVars
    BY <1>1, <1>2, HandlerStays, Zenon
  <1>3. CASE HandlerNext
    BY <1>1, <1>3, HandlerMoves, Zenon
  <1>4. CASE TypedNext
    <2>1. CASE \E h \in handles, r \in Readers : TypedRead(r, h)
      <3>1. PICK h \in handles, r \in Readers : ReadBegin(r, h.address, h.dpt)
        BY <2>1, Zenon DEF TypedRead
      <3>2. h.address \in Groups /\ h.dpt \in Dpts \cup {None}
        BY Zenon DEF HandleIInv, HandleType
      <3> QED BY <1>1, <3>1, <3>2, ReadBeginStep, Zenon
    <2>2. CASE \/ \E a \in setting.registered, dpt \in setting.dpts : GroupAddress(a, dpt)
               \/ \E h \in handles : TypedWrite(h)
               \/ WriteSend \/ \E a \in Groups : UnregisterGroupAddress(a)
      <3>1. UNCHANGED handlerVars
        BY <2>2, Zenon DEF GroupAddress, TypedWrite, WriteSend, UnregisterGroupAddress
      <3> QED BY <1>2, <3>1, Zenon
    <2> QED BY <1>4, <2>1, <2>2, Zenon DEF TypedNext
  <1>5. CASE Process
    <2>1. incoming \in Seq(Telegrams) /\ incoming # <<>>
      BY <1>5, Zenon DEF Process, HandleIInv, HandleType
    <2>2. PICK t \in Telegrams : t = Head(incoming)
      BY <2>1
    <2>3. notifying = None /\ Notify(t)
      BY <1>5, <2>2, Zenon DEF Process
    <2> QED BY <1>1, <2>3, NotifyStep, Zenon
  <1>6. UNCHANGED vars => UNCHANGED handlerVars
    BY Zenon DEF vars, system
  <1> QED BY <1>2, <1>3, <1>4, <1>5, <1>6, Zenon DEF Next

LEMMA HandlerAlways == Spec => [](HandleIInv /\ HandlerInv)
  <1>1. HandleIInv /\ HandlerInv /\ [Next]_vars => HandleIInv' /\ HandlerInv'
    BY HandleStep, HandlerStep, Zenon
  <1> QED BY HandleInit, HandlerStarts, <1>1, PTL DEF Spec

(* However many readers and callbacks there are: the value a read returns is
   that of the first telegram to its address after it registered, a read
   that has returned leaves no callback behind unless its future was
   dropped, and no two callbacks have one handle (read_group_value,
   unregister_callback). *)
THEOREM ReadsAreSound == Spec => []ReadsSound
  BY HandlerAlways, HandlerInvReads, PTL

(* A telegram that has been handed to all callbacks has been handed, once and
   in the order of registration, to exactly those that were registered when
   its turn came and whose filter lets it through (notify_telegram_received). *)
THEOREM EveryCallbackIsCalled == Spec => []EveryoneIsCalled
  BY HandlerAlways, HandlerInvCalls, PTL

-----------------------------------------------------------------------------
(* What waits between the limiter and the processing task. *)
Ordered(s) == \A i, j \in DOMAIN s : i < j => s[i].number < s[j].number
Arrived(s) == \A i \in DOMAIN s : s[i].number <= arrivals
WaitOrder ==
    /\ Ordered(incoming) /\ Ordered(channel) /\ Arrived(incoming) /\ Arrived(channel)
    /\ \A i \in DOMAIN incoming, j \in DOMAIN channel : incoming[i].number < channel[j].number
    /\ Len(channel) <= setting.queue_size /\ Len(incoming) <= setting.max_size
Statistics ==
    [total_received : Nat, total_sent : Nat, dropped_queue_full : Nat, dropped_throttled : Nat]
StatsAddUp ==
    /\ stats \in Statistics
    /\ stats.total_received = stats.total_sent + stats.dropped_queue_full
                                + stats.dropped_throttled
CountsArrived ==
    /\ arrivals <= setting.telegrams /\ now <= setting.ticks
    /\ \A ga \in Groups : per_address[ga] # None => per_address[ga].count <= arrivals
WaitIInv == WaitOrder /\ StatsAddUp /\ CountsArrived

LEMMA WaitInit == Init => WaitIInv
  <1> SUFFICES ASSUME Init PROVE WaitIInv
    BY Zenon
  <1>1. /\ setting.telegrams \in Nat /\ setting.ticks \in Nat
        /\ setting.queue_size \in Nat /\ setting.max_size \in Nat
    BY SettingAssumption, Zenon DEF Init, Setting
  <1>2. /\ now = 0 /\ arrivals = 0 /\ per_address = [ga \in Groups |-> None]
        /\ channel = <<>> /\ incoming = <<>>
        /\ stats = [total_received |-> 0, total_sent |-> 0, dropped_queue_full |-> 0,
                    dropped_throttled |-> 0]
    BY Zenon DEF Init, LimiterInit
  <1>3. WaitOrder
    BY <1>1, <1>2 DEF WaitOrder, Ordered, Arrived
  <1>4. StatsAddUp
    BY <1>2 DEF StatsAddUp, Statistics
  <1>5. CountsArrived
    BY <1>1, <1>2 DEF CountsArrived
  <1> QED BY <1>3, <1>4, <1>5, Zenon DEF WaitIInv

(* What waits, as SMT knows it. *)
LEMMA WaitNumbers ==
  ASSUME HandleType
  PROVE  /\ channel \in Seq(Telegrams) /\ incoming \in Seq(Telegrams) /\ arrivals \in Nat
         /\ \A i \in DOMAIN channel : channel[i].number \in Nat
         /\ \A i \in DOMAIN incoming : incoming[i].number \in Nat
         /\ setting.telegrams \in Nat /\ setting.ticks \in Nat
         /\ setting.queue_size \in Nat /\ setting.max_size \in Nat
  <1>1. /\ channel \in Seq(Telegrams) /\ incoming \in Seq(Telegrams) /\ arrivals \in Nat
        /\ setting \in Setting
    BY Zenon DEF HandleType
  <1>2. \A i \in DOMAIN channel : channel[i] \in Telegrams
    BY <1>1
  <1>3. \A i \in DOMAIN incoming : incoming[i] \in Telegrams
    BY <1>1
  <1>4. \A t \in Telegrams : t.number \in Nat
    BY Zenon DEF Telegrams
  <1> QED BY <1>1, <1>2, <1>3, <1>4, Zenon DEF Setting

(* A telegram that is later than all of a list may follow it. *)
LEMMA OrderedAppend ==
  ASSUME NEW s \in Seq(Telegrams), NEW t \in Telegrams, Ordered(s),
         \A i \in DOMAIN s : s[i].number < t.number
  PROVE  /\ Append(s, t) \in Seq(Telegrams) /\ Ordered(Append(s, t))
         /\ Len(Append(s, t)) = Len(s) + 1
         /\ \A i \in DOMAIN Append(s, t) : \/ i \in DOMAIN s /\ Append(s, t)[i] = s[i]
                                           \/ Append(s, t)[i] = t
  <1>1. /\ Append(s, t) \in Seq(Telegrams) /\ DOMAIN Append(s, t) = DOMAIN s \cup {Len(s) + 1}
        /\ Append(s, t)[Len(s) + 1] = t
        /\ \A i \in DOMAIN s : Append(s, t)[i] = s[i] /\ i <= Len(s) /\ i \in Nat
    BY AppendFacts
  <1>2. Ordered(Append(s, t))
    BY <1>1 DEF Ordered
  <1> QED BY <1>1, <1>2

LEMMA OrderedTail ==
  ASSUME NEW s \in Seq(Telegrams), s # <<>>, Ordered(s)
  PROVE  /\ Tail(s) \in Seq(Telegrams) /\ Ordered(Tail(s)) /\ Len(Tail(s)) = Len(s) - 1
         /\ \A i \in DOMAIN Tail(s) : /\ i + 1 \in DOMAIN s /\ Tail(s)[i] = s[i + 1]
                                      /\ s[1].number < s[i + 1].number
         /\ Head(s) = s[1] /\ 1 \in DOMAIN s /\ Head(s) \in Telegrams
  <1>1. /\ Tail(s) \in Seq(Telegrams) /\ Len(Tail(s)) = Len(s) - 1
        /\ \A i \in DOMAIN Tail(s) : /\ i + 1 \in DOMAIN s /\ Tail(s)[i] = s[i + 1]
                                     /\ i \in Nat /\ 1 < i + 1
        /\ Head(s) = s[1] /\ 1 \in DOMAIN s /\ Head(s) \in Telegrams
    OBVIOUS
  <1>2. Ordered(Tail(s))
    BY <1>1 DEF Ordered
  <1>3. \A i \in DOMAIN Tail(s) : s[1].number < s[i + 1].number
    BY <1>1, Zenon DEF Ordered
  <1> QED BY <1>1, <1>2, <1>3, Zenon

(* try_send: the telegram that arrives is later than all that wait. *)
LEMMA ArriveWaits ==
  ASSUME HandleType, WindowIInv, WaitIInv, setting' = setting,
         NEW d \in setting.destinations, NEW k \in setting.kinds, Arrive(d, k)
  PROVE  WaitIInv'
  <1>0. /\ channel \in Seq(Telegrams) /\ incoming \in Seq(Telegrams) /\ arrivals \in Nat
        /\ \A i \in DOMAIN channel : channel[i].number \in Nat
        /\ \A i \in DOMAIN incoming : incoming[i].number \in Nat
        /\ setting.telegrams \in Nat /\ setting.queue_size \in Nat
    BY WaitNumbers, Zenon
  <1>1. PICK t : t = [number |-> arrivals + 1, destination |-> d, kind |-> k]
    BY Zenon
  <1>2. t \in Telegrams /\ t.number = arrivals + 1 /\ t.destination = d
    <2>1. d \in Groups \cup {Individual} /\ k \in {"Read", "Write", "Response"}
      BY Zenon DEF HandleType, Setting
    <2> QED BY <1>0, <1>1, <2>1 DEF Telegrams
  <1>3. /\ arrivals < setting.telegrams /\ arrivals' = arrivals + 1 /\ TrySend(t)
        /\ UNCHANGED <<now, incoming>>
    BY <1>1, Zenon DEF Arrive
  <1>4. \/ channel' = channel
        \/ channel' = Append(channel, t) /\ ~(Len(channel) >= setting.queue_size)
    BY <1>3, Zenon DEF TrySend
  <1>5. WaitOrder'
    <2>0. /\ \A n \in Nat : n <= arrivals => n <= arrivals + 1 /\ n < arrivals + 1
          /\ arrivals + 1 <= arrivals + 1
      BY <1>0
    <2>1. Arrived(incoming)'
      BY <1>0, <1>3, <2>0, Zenon DEF WaitIInv, WaitOrder, Arrived
    <2>2. CASE channel' = channel
      <3>1. Arrived(channel)'
        BY <1>0, <1>3, <2>0, <2>2, Zenon DEF WaitIInv, WaitOrder, Arrived
      <3> QED BY <1>3, <2>1, <2>2, <3>1, Zenon DEF WaitIInv, WaitOrder, Ordered
    <2>3. CASE channel' = Append(channel, t) /\ ~(Len(channel) >= setting.queue_size)
      <3>1. \A i \in DOMAIN channel : channel[i].number < t.number
        BY <1>0, <1>2, <2>0, Zenon DEF WaitIInv, WaitOrder, Arrived
      <3>2. /\ Ordered(channel') /\ Len(channel') = Len(channel) + 1
            /\ \A i \in DOMAIN channel' : \/ i \in DOMAIN channel /\ channel'[i] = channel[i]
                                          \/ channel'[i] = t
        BY <1>0, <1>2, <2>3, <3>1, OrderedAppend, Zenon DEF WaitIInv, WaitOrder
      <3>3. Len(channel') <= setting.queue_size
        BY <1>0, <2>3, <3>2
      <3>4. \A i \in DOMAIN channel' : channel'[i].number <= arrivals'
        BY <1>0, <1>2, <1>3, <2>0, <3>2, Zenon DEF WaitIInv, WaitOrder, Arrived
      <3>5. \A i \in DOMAIN incoming, j \in DOMAIN channel' :
               incoming[i].number < channel'[j].number
        <4>1. \A i \in DOMAIN incoming : incoming[i].number < t.number
          BY <1>0, <1>2, <2>0, Zenon DEF WaitIInv, WaitOrder, Arrived
        <4> QED BY <3>2, <4>1, Zenon DEF WaitIInv, WaitOrder
      <3> QED BY <1>3, <2>1, <3>2, <3>3, <3>4, <3>5, Zenon DEF WaitIInv, WaitOrder, Ordered, Arrived
    <2> QED BY <1>4, <2>2, <2>3, Zenon
  <1>6. StatsAddUp'
    <2>1. PICK thr \in BOOLEAN, full \in BOOLEAN :
             /\ full => ~thr
             /\ stats' = [total_received |-> stats.total_received + 1,
                          total_sent |-> stats.total_sent
                                         + IF ~thr /\ ~full THEN 1 ELSE 0,
                          dropped_queue_full |-> stats.dropped_queue_full
                                                 + IF full THEN 1 ELSE 0,
                          dropped_throttled |-> stats.dropped_throttled
                                                + IF thr THEN 1 ELSE 0]
      <3>1. PICK thr \in BOOLEAN : thr <=> (t.destination \in Groups /\ IsThrottled(t.destination))
        BY Zenon
      <3>2. PICK full \in BOOLEAN : full <=> (~thr /\ Len(channel) >= setting.queue_size)
        BY Zenon
      <3> QED BY <1>3, <3>1, <3>2, Zenon DEF TrySend
    <2>2. stats \in Statistics
      BY Zenon DEF WaitIInv, StatsAddUp
    <2> QED BY <2>1, <2>2 DEF WaitIInv, StatsAddUp, Statistics
  <1>7. CountsArrived'
    <2>1. arrivals' <= setting.telegrams
      BY <1>0, <1>3
    <2>2. \A ga \in Groups : per_address[ga] # None =>
             per_address[ga].count \in Nat /\ per_address[ga].count <= arrivals
      BY Zenon DEF WindowIInv, WindowType, AddressState, WaitIInv, CountsArrived
    <2>a. \A n \in Nat : n <= arrivals => n <= arrivals + 1
      BY <1>0
    <2>3. CASE d \notin Groups
      <3>1. per_address' = per_address
        BY <1>2, <1>3, <2>3, Zenon DEF TrySend
      <3> QED BY <1>3, <2>1, <2>2, <2>a, <3>1, Zenon DEF WaitIInv, CountsArrived
    <2>4. CASE d \in Groups
      <3>1. per_address' = [per_address EXCEPT ![d] = Counted(d)]
        BY <1>2, <1>3, <2>4, Zenon DEF TrySend
      <3>2. Counted(d).count <= arrivals + 1
        <4>1. \/ Counted(d) = [count |-> 1, window_start |-> now]
              \/ /\ per_address[d] # None
                 /\ Counted(d) = [count |-> per_address[d].count + 1,
                                  window_start |-> per_address[d].window_start]
          BY <2>4, CountedCases, Zenon
        <4>2. \/ Counted(d).count = 1
              \/ per_address[d] # None /\ Counted(d).count = per_address[d].count + 1
          BY <4>1
        <4>3. arrivals \in Nat
          BY <1>0, Zenon
        <4> QED BY <2>2, <2>4, <4>2, <4>3
      <3>3. /\ per_address'[d] = Counted(d)
            /\ \A ga \in Groups : ga # d => per_address'[ga] = per_address[ga]
        BY <2>4, <3>1, Zenon DEF WindowIInv, WindowType
      <3>4. \A ga \in Groups : per_address'[ga] # None => per_address'[ga].count <= arrivals + 1
        BY <2>2, <2>a, <3>2, <3>3, Zenon
      <3> QED BY <1>3, <2>1, <3>4, Zenon DEF WaitIInv, CountsArrived
    <2> QED BY <2>3, <2>4, Zenon
  <1> QED BY <1>5, <1>6, <1>7, Zenon DEF WaitIInv

(* The drain task moves the first of the channel to the end of the queue. *)
LEMMA DrainWaits ==
  ASSUME HandleType, WaitIInv, setting' = setting, Drain
  PROVE  WaitIInv'
  <1>0. /\ channel \in Seq(Telegrams) /\ incoming \in Seq(Telegrams) /\ arrivals \in Nat
        /\ \A i \in DOMAIN channel : channel[i].number \in Nat
        /\ \A i \in DOMAIN incoming : incoming[i].number \in Nat
        /\ setting.queue_size \in Nat /\ setting.max_size \in Nat
    BY WaitNumbers, Zenon
  <1>1. /\ channel # <<>> /\ channel' = Tail(channel)
        /\ \/ incoming' = incoming
           \/ incoming' = Append(incoming, Head(channel)) /\ Len(incoming) < setting.max_size
        /\ UNCHANGED <<now, arrivals, per_address, stats>>
    BY Zenon DEF Drain
  <1>2. PICK t \in Telegrams : t = Head(channel)
    BY <1>0, <1>1
  <1>3. /\ Ordered(channel') /\ Len(channel') = Len(channel) - 1
        /\ \A i \in DOMAIN channel' : /\ i + 1 \in DOMAIN channel /\ channel'[i] = channel[i + 1]
                                      /\ t.number < channel[i + 1].number
        /\ t = channel[1] /\ 1 \in DOMAIN channel
    BY <1>0, <1>1, <1>2, OrderedTail, Zenon DEF WaitIInv, WaitOrder
  <1>4. Len(channel') <= setting.queue_size
    BY <1>0, <1>3 DEF WaitIInv, WaitOrder
  <1>5. Arrived(channel')
    BY <1>3, Zenon DEF WaitIInv, WaitOrder, Arrived
  <1>6. \A i \in DOMAIN incoming : incoming[i].number < t.number
    BY <1>3, Zenon DEF WaitIInv, WaitOrder
  <1>7. CASE incoming' = incoming
    <2>1. \A i \in DOMAIN incoming, j \in DOMAIN channel' :
             incoming[i].number < channel'[j].number
      BY <1>3, Zenon DEF WaitIInv, WaitOrder
    <2>2. WaitOrder'
      BY <1>1, <1>3, <1>4, <1>5, <1>7, <2>1, Zenon DEF WaitIInv, WaitOrder, Ordered, Arrived
    <2> QED BY <1>1, <2>2, Zenon DEF WaitIInv, StatsAddUp, CountsArrived
  <1>8. CASE incoming' = Append(incoming, t) /\ Len(incoming) < setting.max_size
    <2>1. /\ Ordered(incoming') /\ Len(incoming') = Len(incoming) + 1
          /\ \A i \in DOMAIN incoming' : \/ i \in DOMAIN incoming /\ incoming'[i] = incoming[i]
                                         \/ incoming'[i] = t
      BY <1>0, <1>6, <1>8, OrderedAppend, Zenon DEF WaitIInv, WaitOrder
    <2>2. Len(incoming') <= setting.max_size
      BY <1>0, <1>8, <2>1
    <2>3. Arrived(incoming')
      BY <1>3, <2>1, Zenon DEF WaitIInv, WaitOrder, Arrived
    <2>4. \A i \in DOMAIN incoming', j \in DOMAIN channel' :
             incoming'[i].number < channel'[j].number
      BY <1>3, <2>1, Zenon DEF WaitIInv, WaitOrder
    <2>5. WaitOrder'
      BY <1>1, <1>3, <1>4, <1>5, <2>1, <2>2, <2>3, <2>4, Zenon
         DEF WaitOrder, Ordered, Arrived
    <2> QED BY <1>1, <2>5, Zenon DEF WaitIInv, StatsAddUp, CountsArrived
  <1> QED BY <1>1, <1>2, <1>7, <1>8, Zenon

(* The processing task takes the first of the queue. *)
LEMMA ProcessWaits ==
  ASSUME HandleType, WaitIInv, setting' = setting, Process
  PROVE  WaitIInv'
  <1>0. /\ incoming \in Seq(Telegrams) /\ setting.max_size \in Nat
    BY WaitNumbers, Zenon
  <1>1. /\ incoming # <<>> /\ incoming' = Tail(incoming)
        /\ UNCHANGED <<now, arrivals, per_address, channel, stats>>
    BY Zenon DEF Process
  <1>2. /\ Ordered(incoming') /\ Len(incoming') = Len(incoming) - 1
        /\ \A i \in DOMAIN incoming' :
              i + 1 \in DOMAIN incoming /\ incoming'[i] = incoming[i + 1]
    BY <1>0, <1>1, OrderedTail, Zenon DEF WaitIInv, WaitOrder
  <1>3. Len(incoming') <= setting.max_size
    BY <1>0, <1>2 DEF WaitIInv, WaitOrder
  <1>4. Arrived(incoming')
    BY <1>2, Zenon DEF WaitIInv, WaitOrder, Arrived
  <1>5. \A i \in DOMAIN incoming', j \in DOMAIN channel :
           incoming'[i].number < channel[j].number
    BY <1>2, Zenon DEF WaitIInv, WaitOrder
  <1>6. WaitOrder'
    BY <1>1, <1>2, <1>3, <1>4, <1>5, Zenon DEF WaitIInv, WaitOrder, Ordered, Arrived
  <1> QED BY <1>1, <1>6, Zenon DEF WaitIInv, StatsAddUp, CountsArrived

LEMMA WaitStep == HandleIInv /\ WindowIInv /\ WaitIInv /\ [Next]_vars => WaitIInv'
  <1> SUFFICES ASSUME HandleIInv, WindowIInv, WaitIInv, [Next]_vars PROVE WaitIInv'
    BY Zenon
  <1>1. HandleType /\ setting' = setting
    BY Zenon DEF HandleIInv, Next, vars
  <1>2. CASE UNCHANGED limiterVars
    <2>1. UNCHANGED <<now, arrivals, per_address, channel, incoming, stats>>
      BY <1>2, Zenon DEF limiterVars
    <2>2. WaitOrder'
      BY <1>1, <2>1, Zenon DEF WaitIInv, WaitOrder, Ordered, Arrived
    <2> QED BY <1>1, <2>1, <2>2, Zenon DEF WaitIInv, StatsAddUp, CountsArrived
  <1>3. CASE LimiterNext
    <2>1. CASE Tick
      <3>1. /\ now < setting.ticks /\ now' = now + 1
            /\ UNCHANGED <<arrivals, per_address, channel, incoming, stats>>
        BY <2>1, Zenon DEF Tick
      <3>2. now' <= setting.ticks
        BY <1>1, <3>1, WaitNumbers DEF WindowIInv, WindowType
      <3>3. WaitOrder'
        BY <1>1, <3>1, Zenon DEF WaitIInv, WaitOrder, Ordered, Arrived
      <3> QED BY <1>1, <3>1, <3>2, <3>3, Zenon DEF WaitIInv, StatsAddUp, CountsArrived
    <2> QED BY <1>1, <1>3, <2>1, ArriveWaits, DrainWaits, Zenon DEF LimiterNext
  <1>4. CASE Process
    BY <1>1, <1>4, ProcessWaits, Zenon
  <1>5. UNCHANGED vars => UNCHANGED limiterVars
    BY Zenon DEF vars, system
  <1> QED BY <1>2, <1>3, <1>4, <1>5, Zenon DEF Next

(* What it says of the limiter. *)
LEMMA WaitIInvOrder ==
  HandleIInv /\ WindowIInv /\ WaitIInv => LimiterTypeOK /\ WaitsInOrder
  <1> SUFFICES ASSUME HandleIInv, WindowIInv, WaitIInv PROVE LimiterTypeOK /\ WaitsInOrder
    BY Zenon
  <1>0. HandleType
    BY Zenon DEF HandleIInv
  <1>1. LimiterTypeOK
    <2>1. now \in 0 .. setting.ticks /\ arrivals \in 0 .. setting.telegrams
      BY <1>0, WaitNumbers DEF WindowIInv, WindowType, WaitIInv, CountsArrived
    <2>2. ASSUME NEW ga \in Groups, per_address[ga] # None
          PROVE  /\ per_address[ga].count \in 1 .. setting.telegrams
                 /\ per_address[ga].window_start \in 0 .. now
      <3>1. /\ per_address[ga] \in AddressState /\ per_address[ga].count <= arrivals
            /\ per_address[ga].window_start <= now
        BY <2>2, Zenon DEF WindowIInv, WindowType, WaitIInv, CountsArrived
      <3>2. /\ per_address[ga].count \in Nat /\ per_address[ga].count # 0
            /\ per_address[ga].window_start \in Nat
        BY <3>1, Zenon DEF AddressState
      <3>3. setting.telegrams \in Nat
        BY <1>0, WaitNumbers, Zenon
      <3> QED BY <2>1, <3>1, <3>2, <3>3 DEF WindowIInv, WindowType
    <2> QED BY <2>1, <2>2, Zenon DEF LimiterTypeOK, WaitIInv, WaitOrder, StatsAddUp
  <1>2. WaitsInOrder
    <2>0. PICK w : w = incoming \o channel
      BY Zenon
    <2>1. channel \in Seq(Telegrams) /\ incoming \in Seq(Telegrams)
      BY <1>0, WaitNumbers, Zenon
    <2>2. /\ DOMAIN w = 1 .. Len(incoming) + Len(channel)
          /\ \A i \in DOMAIN w :
                \/ i \in DOMAIN incoming /\ w[i] = incoming[i]
                \/ /\ i > Len(incoming) /\ i - Len(incoming) \in DOMAIN channel
                   /\ w[i] = channel[i - Len(incoming)]
      BY <2>0, <2>1
    <2>3. ASSUME NEW i \in DOMAIN w, NEW j \in DOMAIN w, i < j
          PROVE  w[i].number < w[j].number
      <3>1. CASE i \in DOMAIN incoming /\ j \in DOMAIN incoming
                 /\ w[i] = incoming[i] /\ w[j] = incoming[j]
        BY <2>3, <3>1, Zenon DEF WaitIInv, WaitOrder, Ordered
      <3>2. CASE /\ i \in DOMAIN incoming /\ w[i] = incoming[i]
                 /\ j - Len(incoming) \in DOMAIN channel /\ w[j] = channel[j - Len(incoming)]
        BY <3>2, Zenon DEF WaitIInv, WaitOrder
      <3>3. CASE /\ i - Len(incoming) \in DOMAIN channel /\ w[i] = channel[i - Len(incoming)]
                 /\ j - Len(incoming) \in DOMAIN channel /\ w[j] = channel[j - Len(incoming)]
        <4>1. i - Len(incoming) < j - Len(incoming)
          BY <2>1, <2>2, <2>3
        <4> QED BY <3>3, <4>1, Zenon DEF WaitIInv, WaitOrder, Ordered
      <3>4. i > Len(incoming) => j \notin DOMAIN incoming
        BY <2>1, <2>2, <2>3
      <3> QED BY <2>2, <3>1, <3>2, <3>3, <3>4, Zenon
    <2> QED BY <2>0, <2>3, Zenon DEF WaitsInOrder
  <1> QED BY <1>1, <1>2, Zenon

-----------------------------------------------------------------------------
(* What the registry knows, and what it has tried. *)
TaskTyped ==
    /\ refresh \in {"sleep", "send"} /\ picked \in Groups \cup {None}
    /\ refresh = "send" => picked \in Groups
    /\ unregistered \in 0 .. setting.rebinds /\ refused \in 0 .. setting.sendErrors
TriedOnce ==
    /\ last_tried \in Seq(Groups) /\ Once(last_tried)
    /\ \A a \in Elements(last_tried) : Bound(a)
KnownOf(a) ==
    Bound(a) =>
       /\ entries[a].fresh => entries[a].last_seen_value # None
       /\ entries[a].last_seen_value # None => entries[a].last_seen_value.kind # "Read"
       /\ notifying # None /\ notifying.kind # "Read" /\ notifying.destination = a
             => entries[a].last_seen_value \in {None, notifying}
KnownInv == \A a \in Groups : KnownOf(a)
RegistryIInv == TaskTyped /\ TriedOnce /\ KnownInv
CallsOfHandles == sent \subseteq handles /\ undone \subseteq Readers \cup {"write"}

LEMMA RegistryStart == Init => RegistryIInv /\ CallsOfHandles
  <1> SUFFICES ASSUME Init PROVE RegistryIInv /\ CallsOfHandles
    BY Zenon
  <1>1. setting.rebinds \in Nat /\ setting.sendErrors \in Nat
    BY SettingAssumption, Zenon DEF Init, Setting
  <1>2. /\ entries = [a \in Groups |-> None] /\ last_tried = <<>>
        /\ refresh = "sleep" /\ picked = None /\ unregistered = 0 /\ refused = 0
    BY Zenon DEF Init, RegistryInit
  <1>3. sent = {} /\ undone = {}
    BY Zenon DEF Init, TypedInit
  <1>4. TaskTyped
    BY <1>1, <1>2 DEF TaskTyped
  <1>5. TriedOnce
    BY <1>2 DEF TriedOnce, Once, Elements
  <1>6. KnownInv
    BY <1>2, Zenon DEF KnownInv, KnownOf, Bound
  <1> QED BY <1>3, <1>4, <1>5, <1>6, Zenon DEF RegistryIInv, CallsOfHandles

LEMMA TriedKept ==
  ASSUME TriedOnce, BindingsKept, last_tried' = last_tried
  PROVE  TriedOnce'
  <1>1. \A a \in Elements(last_tried) : a \in Groups
    BY DEF TriedOnce, Elements
  <1>2. \A a \in Elements(last_tried) : entries'[a] # None
    BY <1>1, Zenon DEF TriedOnce, BindingsKept
  <1> QED BY <1>2, Zenon DEF TriedOnce, Bound, Once, Elements

(* A value that is known after a step was known before it. *)
Follows(a) ==
    entries'[a] # None =>
       /\ entries'[a].fresh => entries'[a].last_seen_value # None
       /\ \/ entries'[a].last_seen_value = None
          \/ Bound(a) /\ entries'[a].last_seen_value = entries[a].last_seen_value
LEMMA KnownKept ==
  ASSUME KnownInv, notifying' \in {notifying, None}, \A a \in Groups : Follows(a)
  PROVE  KnownInv'
  <1> SUFFICES ASSUME NEW a \in Groups, entries'[a] # None PROVE KnownOf(a)'
    BY Zenon DEF KnownInv, KnownOf, Bound
  <1>1. KnownOf(a) /\ Follows(a)
    BY Zenon DEF KnownInv
  <1> QED BY <1>1, Zenon DEF KnownOf, Follows, Bound

LEMMA UnchangedFollows ==
  ASSUME KnownInv, NEW a \in Groups, entries'[a] = entries[a]
  PROVE  Follows(a)
  BY Zenon DEF KnownInv, KnownOf, Follows, Bound

(* What is known of one address changes. *)
LEMMA OneFollows ==
  ASSUME HandleType, KnownInv, NEW a \in Groups, NEW b \in Bindings \cup {None},
         entries' = [entries EXCEPT ![a] = b],
         b # None => /\ b.fresh => b.last_seen_value # None
                     /\ \/ b.last_seen_value = None
                        \/ Bound(a) /\ b.last_seen_value = entries[a].last_seen_value
  PROVE  \A x \in Groups : Follows(x)
  <1>1. entries'[a] = b /\ \A x \in Groups : x # a => entries'[x] = entries[x]
    BY Zenon DEF HandleType
  <1>2. Follows(a)
    BY <1>1, Zenon DEF Follows
  <1> QED BY <1>1, <1>2, UnchangedFollows, Zenon

(* The steps of the registry and of the refresh task. *)
LEMMA RegistryMoves ==
  ASSUME HandleType, RegistryIInv, setting' = setting, notifying' = notifying, RegistryNext
  PROVE  RegistryIInv'
  <1>0. /\ entries \in [Groups -> Bindings \cup {None}] /\ setting \in Setting
        /\ setting.sendErrors \in Nat /\ TaskTyped /\ TriedOnce /\ KnownInv
        /\ \A a \in Groups : Bound(a) => entries[a] \in Bindings
    BY Zenon DEF HandleType, RegistryIInv, Bound, Setting
  <1>1. BindingsKept
    BY RegistryKeeps, Zenon
  <1>2. ASSUME \A a \in Groups : Follows(a), last_tried' = last_tried,
               UNCHANGED <<refresh, picked, unregistered, refused>>
        PROVE  RegistryIInv'
    <2>1. TaskTyped'
      BY <1>0, <1>2, Zenon DEF TaskTyped
    <2> QED BY <1>0, <1>1, <1>2, <2>1, TriedKept, KnownKept, Zenon DEF RegistryIInv
  <1>3. ASSUME NEW a \in setting.registered, NEW dpt \in setting.dpts, Register(a, dpt)
        PROVE  RegistryIInv'
    <2>1. a \in Groups /\ dpt \in Dpts
      BY <1>0, Zenon DEF Setting
    <2>2. PICK b : b = Binding(dpt)
      BY Zenon
    <2>3. b \in Bindings /\ ~b.fresh /\ b.last_seen_value = None
      BY <2>1, <2>2, Zenon DEF Binding, Bindings
    <2>4. /\ entries' = [entries EXCEPT ![a] = b]
          /\ UNCHANGED <<last_tried, refresh, picked, unregistered, refused>>
      BY <1>3, <2>2, Zenon DEF Register
    <2>5. \A x \in Groups : Follows(x)
      BY <1>0, <2>1, <2>3, <2>4, OneFollows, Zenon
    <2> QED BY <1>2, <2>4, <2>5, Zenon
  <1>4. ASSUME NEW a \in Groups, Expire(a) PROVE RegistryIInv'
    <2>1. PICK b : b = [entries[a] EXCEPT !.fresh = FALSE]
      BY Zenon
    <2>2. /\ Bound(a) /\ entries' = [entries EXCEPT ![a] = b]
          /\ UNCHANGED <<last_tried, refresh, picked, unregistered, refused>>
      BY <1>4, <2>1, Zenon DEF Expire
    <2>3. b \in Bindings /\ b.fresh = FALSE /\ b.last_seen_value = entries[a].last_seen_value
      BY <1>0, <2>1, <2>2, Zenon DEF Bindings
    <2>4. \A x \in Groups : Follows(x)
      BY <1>0, <2>2, <2>3, OneFollows, Zenon
    <2> QED BY <1>2, <2>2, <2>4, Zenon
  <1>5. ASSUME NEW a \in Groups, NEW ttl \in BOOLEAN, SetRefreshTtl(a, ttl)
        PROVE  RegistryIInv'
    <2>1. PICK fresh \in {entries[a].last_seen_value # None, FALSE} :
             entries' = [entries EXCEPT ![a].ttl = ttl, ![a].fresh = fresh]
      BY <1>5, Zenon DEF SetRefreshTtl
    <2>2. PICK b : b = [entries[a] EXCEPT !.ttl = ttl, !.fresh = fresh]
      BY Zenon
    <2>3. /\ Bound(a) /\ entries' = [entries EXCEPT ![a] = b]
          /\ UNCHANGED <<last_tried, refresh, picked, unregistered, refused>>
      BY <1>5, <2>1, <2>2, Zenon DEF SetRefreshTtl
    <2>4. fresh \in BOOLEAN /\ (fresh => entries[a].last_seen_value # None)
      BY Zenon
    <2>5. b \in Bindings /\ b.fresh = fresh /\ b.last_seen_value = entries[a].last_seen_value
      BY <1>0, <2>2, <2>3, <2>4, Zenon DEF Bindings
    <2>6. \A x \in Groups : Follows(x)
      BY <1>0, <2>3, <2>4, <2>5, OneFollows, Zenon
    <2> QED BY <1>2, <2>3, <2>6, Zenon
  <1>6. ASSUME TaskTyped', TriedOnce', entries' = entries PROVE RegistryIInv'
    BY <1>0, <1>6, UnchangedFollows, KnownKept, Zenon DEF RegistryIInv
  <1>7. CASE RefreshPick
    <2>1. /\ picked' \in Groups /\ refresh' = "send"
          /\ UNCHANGED <<entries, last_tried, unregistered, refused>>
      BY <1>7, Zenon DEF RefreshPick, NextStale
    <2>2. TaskTyped'
      BY <1>0, <2>1, Zenon DEF TaskTyped
    <2> QED BY <1>0, <1>1, <1>6, <2>1, <2>2, TriedKept, Zenon
  <1>8. CASE RefreshSend
    <2>1. /\ refresh' = "sleep" /\ UNCHANGED <<entries, picked, unregistered, refused>>
          /\ picked \in Groups
          /\ last_tried' = IF Bound(picked) THEN Append(Without(last_tried, picked), picked)
                           ELSE last_tried
      BY <1>0, <1>8, Zenon DEF RefreshSend, TaskTyped
    <2>2. TaskTyped'
      BY <1>0, <2>1, Zenon DEF TaskTyped
    <2>3. CASE ~Bound(picked)
      BY <1>0, <1>1, <1>6, <2>1, <2>2, <2>3, TriedKept, Zenon
    <2>4. CASE Bound(picked)
      <3>1. PICK w : w = Without(last_tried, picked)
        BY Zenon
      <3>2. w \in Seq(Groups) /\ Once(w) /\ Elements(w) = Elements(last_tried) \ {picked}
        BY <1>0, <3>1, WithoutOnce, Zenon DEF TriedOnce
      <3>3. last_tried' = Append(w, picked) /\ picked \notin Elements(w)
        BY <2>1, <2>4, <3>1, <3>2, Zenon
      <3>4. /\ last_tried' \in Seq(Groups) /\ Once(last_tried')
            /\ Elements(last_tried') = Elements(w) \cup {picked}
        <4>1. /\ Append(w, picked) \in Seq(Groups) /\ Once(Append(w, picked))
              /\ Elements(Append(w, picked)) = Elements(w) \cup {picked}
          BY <2>1, <3>2, <3>3, AppendOnce
        <4> QED BY <3>3, <4>1, Zenon
      <3>5. \A a \in Elements(last_tried') : Bound(a)
        BY <1>0, <2>4, <3>2, <3>4, Zenon DEF TriedOnce
      <3>6. TriedOnce'
        BY <2>1, <3>4, <3>5, Zenon DEF TriedOnce, Bound, Once, Elements
      <3> QED BY <1>6, <2>1, <2>2, <3>6, Zenon
    <2> QED BY <2>3, <2>4, Zenon
  <1>9. CASE RefreshSendErr
    <2>1. /\ refused < setting.sendErrors /\ refused' = refused + 1 /\ refresh' = "sleep"
          /\ UNCHANGED <<entries, last_tried, picked, unregistered>>
      BY <1>9, Zenon DEF RefreshSendErr
    <2>2. TaskTyped'
      BY <1>0, <2>1 DEF TaskTyped
    <2> QED BY <1>0, <1>1, <1>6, <2>1, <2>2, TriedKept, Zenon
  <1> QED BY <1>3, <1>4, <1>5, <1>7, <1>8, <1>9, Zenon DEF RegistryNext

(* unregister forgets that the address was tried. *)
LEMMA UnregisterMoves ==
  ASSUME HandleType, RegistryIInv, setting' = setting, notifying' = notifying,
         NEW a \in Groups, Unregister(a)
  PROVE  RegistryIInv'
  <1>0. /\ entries \in [Groups -> Bindings \cup {None}] /\ setting.rebinds \in Nat
        /\ TaskTyped /\ TriedOnce /\ KnownInv
    BY Zenon DEF HandleType, RegistryIInv, Setting
  <1>1. /\ unregistered < setting.rebinds /\ unregistered' = unregistered + 1
        /\ entries' = [entries EXCEPT ![a] = None] /\ last_tried' = Without(last_tried, a)
        /\ UNCHANGED <<refresh, picked, refused>>
    BY Zenon DEF Unregister
  <1>2. TaskTyped'
    BY <1>0, <1>1 DEF TaskTyped
  <1>3. KnownInv'
    <2>1. \A x \in Groups : Follows(x)
      BY <1>0, <1>1, OneFollows, Zenon
    <2> QED BY <1>0, <2>1, KnownKept, Zenon
  <1>4. TriedOnce'
    <2>1. /\ last_tried' \in Seq(Groups) /\ Once(last_tried')
          /\ Elements(last_tried') = Elements(last_tried) \ {a}
      BY <1>0, <1>1, WithoutOnce, Zenon DEF TriedOnce
    <2>2. \A i \in DOMAIN last_tried : last_tried[i] \in Groups
      BY <1>0 DEF TriedOnce
    <2>3. \A x \in Elements(last_tried) : x \in Groups /\ entries[x] # None
      BY <1>0, <2>2, Zenon DEF TriedOnce, Bound, Elements
    <2>4. \A x \in Groups : x # a => entries'[x] = entries[x]
      BY <1>0, <1>1, Zenon
    <2>5. \A x \in Elements(last_tried') : entries'[x] # None
      BY <2>1, <2>3, <2>4, Zenon
    <2> QED BY <2>1, <2>5, Zenon DEF TriedOnce, Bound, Once, Elements
  <1> QED BY <1>2, <1>3, <1>4, Zenon DEF RegistryIInv

(* The processing task records the value before callbacks are called. *)
LEMMA ProcessRecords ==
  ASSUME HandleType, RegistryIInv, setting' = setting, Process
  PROVE  RegistryIInv'
  <1>0. /\ entries \in [Groups -> Bindings \cup {None}] /\ incoming \in Seq(Telegrams)
        /\ TaskTyped /\ TriedOnce /\ KnownInv
    BY Zenon DEF HandleType, RegistryIInv
  <1>1. PICK t : t = Head(incoming)
    BY Zenon
  <1>2. /\ notifying' = t /\ entries' = RecordSeen(t) /\ incoming # <<>>
        /\ UNCHANGED <<last_tried, refresh, picked, unregistered, refused>>
    BY <1>1, Zenon DEF Process, Notify
  <1>3. t \in Telegrams
    BY <1>0, <1>1, <1>2
  <1>4. TaskTyped' /\ TriedOnce'
    BY <1>0, <1>2, ProcessKeeps, TriedKept, Zenon DEF TaskTyped
  <1>5. KnownInv'
    <2>1. CASE /\ t.destination \in Groups /\ Bound(t.destination)
               /\ t.kind \in {"Write", "Response"}
      <3>1. PICK d \in Groups : d = t.destination /\ Bound(d)
        BY <2>1, Zenon
      <3>2. PICK b : b = [entries[d] EXCEPT !.fresh = TRUE, !.last_seen_value = t]
        BY Zenon
      <3>3. entries' = [entries EXCEPT ![d] = b]
        BY <1>2, <2>1, <3>1, <3>2, Zenon DEF RecordSeen
      <3>4. b.last_seen_value = t
        <4>1. entries[d] \in Bindings
          BY <1>0, <3>1, Zenon DEF Bound
        <4> QED BY <3>2, <4>1, Zenon DEF Bindings
      <3>5. entries'[d] = b /\ \A a \in Groups : a # d => entries'[a] = entries[a]
        BY <1>0, <3>3, Zenon
      <3>6. t # None /\ t.kind # "Read"
        BY <1>3, <2>1, NoneIsNoTelegram, Zenon
      <3>7. KnownOf(d)'
        BY <1>2, <3>4, <3>5, <3>6, Zenon DEF KnownOf, Bound
      <3>8. ASSUME NEW a \in Groups, a # d PROVE KnownOf(a)'
        BY <1>0, <1>2, <3>1, <3>5, <3>8, Zenon DEF KnownInv, KnownOf, Bound
      <3> QED BY <3>7, <3>8, Zenon DEF KnownInv
    <2>2. CASE ~(/\ t.destination \in Groups /\ Bound(t.destination)
                 /\ t.kind \in {"Write", "Response"})
      <3>1. entries' = entries
        BY <1>2, <2>2, Zenon DEF RecordSeen
      <3>2. t.kind = "Read" \/ t.kind \in {"Write", "Response"}
        BY <1>3, Zenon DEF Telegrams
      <3> QED BY <1>0, <1>2, <2>2, <3>1, <3>2, Zenon DEF KnownInv, KnownOf, Bound
    <2> QED BY <2>1, <2>2, Zenon
  <1> QED BY <1>4, <1>5, Zenon DEF RegistryIInv

(* Notifications begin with Process and end. *)
LEMMA NotifyingEnds == HandlerNext => notifying' \in {notifying, None}
  <1> SUFFICES ASSUME HandlerNext PROVE notifying' = notifying \/ notifying' = None
    BY Zenon
  <1>1. ASSUME NEW f, RegisterTelegramCallback(f) PROVE notifying' = notifying
    BY <1>1, Zenon DEF RegisterTelegramCallback, notifyVars
  <1>2. ASSUME NEW id, ApplicationUnregisters(id) PROVE notifying' = notifying
    BY <1>2, Zenon DEF ApplicationUnregisters, notifyVars
  <1>3. CASE RegisterConnectionCallback \/ ClearAllCallbacks
    BY <1>3, Zenon DEF RegisterConnectionCallback, ClearAllCallbacks, notifyVars
  <1>4. CASE NotifySteps \/ CallReturn
    BY <1>4, Zenon DEF NotifySteps, CallNext, CallTimeout, CallEnd, CallReturn, NotifyEnd
  <1>5. ASSUME NEW r, NEW a, ReadBegin(r, a, None) \/ ReadCancel(r) PROVE notifying' = notifying
    BY <1>5, Zenon DEF ReadBegin, ReadCancel, notifyVars
  <1>6. ASSUME NEW r, ReadSteps(r) PROVE notifying' = notifying
    BY <1>6, Zenon DEF ReadSteps, ReadRegister, ReadSend, ReadSendErr, ReadEnd,
                       ReadUnregister, notifyVars
  <1> QED BY <1>1, <1>2, <1>3, <1>4, <1>5, <1>6, Zenon DEF HandlerNext

LEMMA RegistryStays ==
  ASSUME HandleType, RegistryIInv, setting' = setting, UNCHANGED registryVars,
         notifying' \in {notifying, None}
  PROVE  RegistryIInv'
  <1>1. UNCHANGED <<entries, last_tried, refresh, picked, unregistered, refused>>
    BY Zenon DEF registryVars
  <1>2. TaskTyped'
    BY <1>1, Zenon DEF RegistryIInv, TaskTyped
  <1>3. TriedOnce'
    BY <1>1, Zenon DEF RegistryIInv, TriedOnce, Bound, Once, Elements
  <1>4. KnownInv'
    BY <1>1, UnchangedFollows, KnownKept, Zenon DEF RegistryIInv
  <1> QED BY <1>2, <1>3, <1>4, Zenon DEF RegistryIInv

(* The steps through typed handles. *)
LEMMA TypedRecords ==
  ASSUME HandleIInv, RegistryIInv, CallsOfHandles, setting' = setting, TypedNext
  PROVE  RegistryIInv' /\ CallsOfHandles'
  <1>0. HandleType /\ setting \in Setting
    BY Zenon DEF HandleIInv, HandleType
  <1>1. ASSUME NEW a \in setting.registered, NEW dpt \in setting.dpts, GroupAddress(a, dpt)
        PROVE  RegistryIInv' /\ CallsOfHandles'
    <2>1. /\ Register(a, dpt) \/ UNCHANGED registryVars
          /\ notifying' = notifying /\ handles' = handles \cup {Handle(a, dpt)}
          /\ UNCHANGED <<sent, undone>>
      BY <1>1, Zenon DEF GroupAddress, handlerVars, notifyVars
    <2>2. CallsOfHandles'
      BY <2>1, Zenon DEF CallsOfHandles
    <2>3. Register(a, dpt) => RegistryNext
      BY Zenon DEF RegistryNext
    <2> QED BY <1>0, <2>1, <2>2, <2>3, RegistryMoves, RegistryStays, Zenon
  <1>2. ASSUME NEW h \in handles, NEW r \in Readers, TypedRead(r, h)
        PROVE  RegistryIInv' /\ CallsOfHandles'
    <2>1. /\ UNCHANGED registryVars /\ notifying' = notifying
          /\ undone' = undone \ {r} /\ UNCHANGED <<handles, sent>>
      BY <1>2, Zenon DEF TypedRead, ReadBegin, notifyVars
    <2>2. CallsOfHandles'
      BY <2>1, Zenon DEF CallsOfHandles
    <2> QED BY <1>0, <2>1, <2>2, RegistryStays, Zenon
  <1>3. ASSUME NEW h \in handles, TypedWrite(h) PROVE RegistryIInv' /\ CallsOfHandles'
    <2>1. /\ UNCHANGED registryVars /\ notifying' = notifying
          /\ undone' = undone \ {"write"} /\ UNCHANGED <<handles, sent>>
      BY <1>3, Zenon DEF TypedWrite, handlerVars, notifyVars
    <2>2. CallsOfHandles'
      BY <2>1, Zenon DEF CallsOfHandles
    <2> QED BY <1>0, <2>1, <2>2, RegistryStays, Zenon
  <1>4. CASE WriteSend
    <2>1. /\ UNCHANGED registryVars /\ notifying' = notifying
          /\ writing # None /\ sent' = sent \cup {writing} /\ UNCHANGED <<handles, undone>>
      BY <1>4, Zenon DEF WriteSend, handlerVars, notifyVars
    <2>2. CallsOfHandles'
      BY <1>0, <2>1, Zenon DEF CallsOfHandles, HandleType
    <2> QED BY <1>0, <2>1, <2>2, RegistryStays, Zenon
  <1>5. ASSUME NEW a \in Groups, UnregisterGroupAddress(a)
        PROVE  RegistryIInv' /\ CallsOfHandles'
    <2>1. /\ Unregister(a) /\ notifying' = notifying /\ UNCHANGED <<handles, sent>>
          /\ undone' = undone \cup {r \in Readers : reader[r].address = a}
                              \cup {c \in {"write"} : writing # None /\ writing.address = a}
      BY <1>5, Zenon DEF UnregisterGroupAddress, handlerVars, notifyVars
    <2>2. CallsOfHandles'
      BY <2>1, Zenon DEF CallsOfHandles
    <2> QED BY <1>0, <2>1, <2>2, UnregisterMoves, Zenon
  <1> QED BY <1>1, <1>2, <1>3, <1>4, <1>5, Zenon DEF TypedNext

LEMMA RegistryStep ==
  HandleIInv /\ RegistryIInv /\ CallsOfHandles /\ [Next]_vars => RegistryIInv' /\ CallsOfHandles'
  <1> SUFFICES ASSUME HandleIInv, RegistryIInv, CallsOfHandles, [Next]_vars
               PROVE  RegistryIInv' /\ CallsOfHandles'
    BY Zenon
  <1>1. HandleType /\ setting' = setting
    BY Zenon DEF HandleIInv, Next, vars
  <1>2. /\ UNCHANGED typedVars => CallsOfHandles'
        /\ UNCHANGED handlerVars => notifying' = notifying
    BY Zenon DEF typedVars, CallsOfHandles, handlerVars, notifyVars
  <1>3. CASE UNCHANGED <<handlerVars, registryVars, typedVars>>
    BY <1>1, <1>2, <1>3, RegistryStays, Zenon
  <1>4. CASE HandlerNext /\ UNCHANGED registryVars /\ UNCHANGED typedVars
    BY <1>1, <1>2, <1>4, NotifyingEnds, RegistryStays, Zenon
  <1>5. CASE RegistryNext /\ UNCHANGED handlerVars /\ UNCHANGED typedVars
    BY <1>1, <1>2, <1>5, RegistryMoves, Zenon
  <1>6. CASE TypedNext
    BY <1>1, <1>6, TypedRecords, Zenon
  <1>7. CASE Process
    <2>1. UNCHANGED typedVars
      BY <1>7, Zenon DEF Process
    <2> QED BY <1>1, <1>2, <1>7, <2>1, ProcessRecords, Zenon
  <1>8. UNCHANGED vars => UNCHANGED <<handlerVars, registryVars, typedVars>>
    BY Zenon DEF vars, system
  <1> QED BY <1>3, <1>4, <1>5, <1>6, <1>7, <1>8, Zenon DEF Next

-----------------------------------------------------------------------------
(* What the invariants say together. *)
LEMMA AllConsistent ==
  ASSUME HandleIInv, HandlerInv, WindowIInv, WaitIInv, RegistryIInv, CallsOfHandles
  PROVE  Consistent
  <1>1. LimiterTypeOK /\ WaitsInOrder
    BY WaitIInvOrder, Zenon
  <1>2. HandlerTypeOK
    BY HandlerInvReads, Zenon
  <1>3. TypedTypeOK
    BY Zenon DEF TypedTypeOK, HandleIInv, HandleType, CallsOfHandles
  <1>4. \A a \in Groups : KnownOf(a)
    BY Zenon DEF RegistryIInv, KnownInv
  <1>5. RegistryTypeOK
    BY <1>4, Zenon DEF RegistryTypeOK, RegistryIInv, TaskTyped, KnownOf, HandleIInv, HandleType
  <1>6. TriedAreBound
    BY Zenon DEF TriedAreBound, RegistryIInv, TriedOnce, Once, Elements
  <1>7. KnownValueIsValue /\ RegistryAgreesWithCallback
    BY <1>4, Zenon DEF KnownValueIsValue, RegistryAgreesWithCallback, KnownOf
  <1> QED BY <1>1, <1>2, <1>3, <1>5, <1>6, <1>7, Zenon DEF Consistent, TypeOK

(* The limiter, the queue, the registry, the handles and the callbacks agree,
   whatever arrives and however their tasks interleave: telegrams wait in
   the order of arrival, a refresh counts for the binding it was made for, a
   question is never recorded as a value, and a callback that asks the
   registry never finds a value older than the telegram it is called for
   (try_send, record_seen, record_tried, start_telegram_processing_task). *)
THEOREM ReceptionIsConsistent == Spec => []Consistent
  <1>1. Spec => [](HandleIInv /\ WindowIInv /\ WaitIInv)
    BY HandleInit, HandleStep, WindowInit, WindowStep, WaitInit, WaitStep, PTL DEF Spec
  <1>2. Spec => [](HandleIInv /\ RegistryIInv /\ CallsOfHandles)
    BY HandleInit, HandleStep, RegistryStart, RegistryStep, PTL DEF Spec
  <1> QED BY <1>1, <1>2, HandlerAlways, AllConsistent, PTL
=============================================================================
