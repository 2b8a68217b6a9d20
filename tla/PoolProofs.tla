----------------------------- MODULE PoolProofs -----------------------------
(***************************************************************************)
(* The connection pool and the memory monitor, for any number of           *)
(* connections and users and any limit of the memory.  PoolInv says where  *)
(* a connection can be, MonitorInv which calls will still be granted.      *)
(***************************************************************************)
EXTENDS Reception, FiniteSetTheorems, TLAPS

(* Removing from a sequence, and adding to one. *)
LEMMA DropAtFacts ==
  ASSUME NEW S, NEW s \in Seq(S), NEW i \in DOMAIN s
  PROVE  /\ DropAt(s, i) \in Seq(S) /\ Len(DropAt(s, i)) = Len(s) - 1
         /\ \A j \in DOMAIN DropAt(s, i) :
              \/ j < i /\ j \in DOMAIN s /\ DropAt(s, i)[j] = s[j]
              \/ j >= i /\ j + 1 \in DOMAIN s /\ DropAt(s, i)[j] = s[j + 1]
  <1>1. /\ Len(s) \in Nat /\ Len(s) >= 1 /\ DOMAIN s = 1 .. Len(s) /\ i \in 1 .. Len(s)
        /\ \A j \in 1 .. Len(s) : s[j] \in S
    OBVIOUS
  <1>2. DropAt(s, i) = [j \in 1 .. Len(s) - 1 |-> IF j < i THEN s[j] ELSE s[j + 1]]
    BY DEF DropAt
  <1>3. \A j \in 1 .. Len(s) - 1 : (IF j < i THEN s[j] ELSE s[j + 1]) \in S
    BY <1>1
  <1> DEFINE n == Len(s) - 1
  <1>4. n \in Nat
    BY <1>1
  <1>5. DropAt(s, i) \in [1 .. n -> S]
    BY <1>2, <1>3
  <1> HIDE DEF n
  <1>6. DropAt(s, i) \in Seq(S) /\ Len(DropAt(s, i)) = n /\ DOMAIN DropAt(s, i) = 1 .. n
    BY <1>4, <1>5
  <1>7. ASSUME NEW j \in 1 .. n
        PROVE  \/ j < i /\ j \in DOMAIN s /\ DropAt(s, i)[j] = s[j]
               \/ j >= i /\ j + 1 \in DOMAIN s /\ DropAt(s, i)[j] = s[j + 1]
    BY <1>1, <1>2, <1>4 DEF n
  <1> QED BY <1>6, <1>7 DEF n

LEMMA AppendFacts ==
  ASSUME NEW S, NEW s \in Seq(S), NEW x \in S
  PROVE  /\ Append(s, x) \in Seq(S) /\ Len(Append(s, x)) = Len(s) + 1
         /\ DOMAIN s = 1 .. Len(s) /\ DOMAIN Append(s, x) = DOMAIN s \cup {Len(s) + 1}
         /\ Len(s) + 1 \notin DOMAIN s /\ Append(s, x)[Len(s) + 1] = x
         /\ \A i \in DOMAIN s : Append(s, x)[i] = s[i]
  OBVIOUS

(* Sequences in which nothing is twice. *)
Once(s) == \A i, j \in DOMAIN s : i # j => s[i] # s[j]

LEMMA AppendOnce ==
  ASSUME NEW S, NEW s \in Seq(S), NEW x \in S, x \notin Elements(s), Once(s)
  PROVE  /\ Append(s, x) \in Seq(S) /\ Once(Append(s, x))
         /\ Elements(Append(s, x)) = Elements(s) \cup {x}
  <1>1. /\ Append(s, x) \in Seq(S) /\ DOMAIN Append(s, x) = DOMAIN s \cup {Len(s) + 1}
        /\ Len(s) + 1 \notin DOMAIN s /\ Append(s, x)[Len(s) + 1] = x
        /\ \A i \in DOMAIN s : Append(s, x)[i] = s[i] /\ s[i] # x
    BY AppendFacts DEF Elements
  <1>2. Once(Append(s, x))
    BY <1>1 DEF Once
  <1>3. Elements(Append(s, x)) = Elements(s) \cup {x}
    BY <1>1 DEF Elements
  <1> QED BY <1>1, <1>2, <1>3, Zenon

LEMMA PrefixOnce ==
  ASSUME NEW S, NEW s \in Seq(S), NEW n \in 0 .. Len(s), Once(s)
  PROVE  /\ SubSeq(s, 1, n) \in Seq(S) /\ Once(SubSeq(s, 1, n))
         /\ Elements(SubSeq(s, 1, n)) \subseteq Elements(s)
         /\ n < Len(s) => s[Len(s)] \notin Elements(SubSeq(s, 1, n))
  <1>1. /\ SubSeq(s, 1, n) \in Seq(S) /\ DOMAIN SubSeq(s, 1, n) = 1 .. n
        /\ \A i \in 1 .. n : i \in DOMAIN s /\ SubSeq(s, 1, n)[i] = s[i]
        /\ n < Len(s) => Len(s) \in DOMAIN s /\ Len(s) \notin 1 .. n
    OBVIOUS
  <1> QED BY <1>1 DEF Once, Elements

LEMMA WithoutOnce ==
  ASSUME NEW S, NEW s \in Seq(S), NEW x, Once(s)
  PROVE  /\ Without(s, x) \in Seq(S) /\ Once(Without(s, x))
         /\ Elements(Without(s, x)) = Elements(s) \ {x}
  <1>1. CASE x \in Elements(s)
    <2>1. PICK i \in DOMAIN s : s[i] = x /\ Without(s, x) = DropAt(s, i)
      BY <1>1, Zenon DEF Without, Elements
    <2> DEFINE new == Without(s, x)
               at(j) == IF j < i THEN j ELSE j + 1
               back(k) == IF k < i THEN k ELSE k - 1
    <2>2. /\ new \in Seq(S) /\ DOMAIN s = 1 .. Len(s) /\ Len(s) \in Nat
          /\ DOMAIN new = 1 .. Len(s) - 1
          /\ \A j \in DOMAIN new :
              \/ j < i /\ j \in DOMAIN s /\ new[j] = s[j]
              \/ j >= i /\ j + 1 \in DOMAIN s /\ new[j] = s[j + 1]
      BY <2>1, DropAtFacts
    <2> HIDE DEF new
    <2>3. \A j \in DOMAIN new : at(j) \in DOMAIN s /\ at(j) # i /\ new[j] = s[at(j)]
      BY <2>2
    <2>4. \A j, k \in DOMAIN new : at(j) = at(k) => j = k
      BY <2>2
    <2>5. \A k \in DOMAIN s : k # i => back(k) \in DOMAIN new /\ at(back(k)) = k
      BY <2>2
    <2> HIDE DEF at, back
    <2>6. Once(new)
      BY <2>3, <2>4, Zenon DEF Once
    <2>7. \A j \in DOMAIN new : new[j] \in Elements(s) /\ new[j] # x
      BY <2>1, <2>3, Zenon DEF Once, Elements
    <2>8. \A k \in DOMAIN s : s[k] # x => s[k] \in Elements(new)
      BY <2>1, <2>3, <2>5, Zenon DEF Elements
    <2>9. Elements(new) = Elements(s) \ {x}
      BY <2>7, <2>8 DEF Elements
    <2> QED BY <2>2, <2>6, <2>9, Zenon DEF new
  <1>2. CASE x \notin Elements(s)
    <2>1. Without(s, x) = s
      BY <1>2, Zenon DEF Without
    <2> QED BY <1>2, <2>1
  <1> QED BY <1>1, <1>2

-----------------------------------------------------------------------------
(* The connection pool. *)
PoolTyped ==
    /\ setting \in Setting
    /\ available \in Seq(Nat) /\ active \in Seq(Nat)
    /\ created \in Nat /\ created <= setting.connections
    /\ user \in [Users -> [pc : {"idle", "check", "create", "allocate", "held"},
                           holds : Nat \cup {None}]]
    /\ returning \in [1 .. setting.connections -> {"no", "active", "loose"}]

(* Where a connection can be: on a list, on its way back, or with a user who
   is about to enter it in the active list or has done so. *)
Holding(u) ==
    /\ user[u].pc \in {"idle", "check", "create"} => user[u].holds = None
    /\ user[u].pc \in {"allocate", "held"} =>
          /\ user[u].holds \in 1 .. created /\ returning[user[u].holds] = "no"
          /\ user[u].holds \notin Elements(available)
          /\ user[u].holds \in Elements(active) <=> user[u].pc = "held"
(* No connection is on two lists, or with two users, and one that is on its
   way back is not available. *)
ListsApart ==
    /\ Once(available) /\ Once(active)
    /\ Elements(available) \subseteq 1 .. created /\ Elements(active) \subseteq 1 .. created
    /\ Elements(available) \cap Elements(active) = {}
UsersApart ==
    \A u, v \in Users : u # v /\ user[u].holds # None => user[u].holds # user[v].holds
Returning ==
    \A c \in 1 .. setting.connections :
       returning[c] # "no" => /\ c <= created /\ c \notin Elements(available)
                              /\ returning[c] = "loose" => c \notin Elements(active)
PoolInv ==
    /\ PoolTyped /\ ListsApart /\ UsersApart /\ Returning
    /\ \A u \in Users : Holding(u)
-----------------------------------------------------------------------------
(* The memory monitor. *)
Counts == [transport : Nat, protocol : Nat]
MonitorTyped ==
    /\ setting \in Setting
    /\ current_usage \in Nat /\ peak_usage \in Nat /\ leaked \in Nat
    /\ component_usage \in Counts /\ new_usage \in [Clients -> Nat]
    /\ call \in [Clients -> {"none", "peak", "cleanup", "account", "ok", "refused", "release"}]
    /\ frames \in 0 .. setting.frames

(* Only the receiving task gives back, and what it gives back it had. *)
GivesBack ==
    /\ \A u \in Users : call[u] # "release"
    /\ component_usage.protocol = IF call[Receiving] \in {"ok", "release"} THEN 2 ELSE 0

(* The calls that will be granted, for all that can still happen. *)
Granted ==
    {c \in Clients : \/ call[c] = "account"
                     \/ call[c] = "peak" /\ new_usage[c] <= setting.memory_limit}
GrantedFits == Accounted + Sizes(Granted) <= setting.memory_limit + At({"release"})

(* While the total is above the peak, a call is about to raise the peak to it. *)
PeakFollows ==
    current_usage > peak_usage =>
       \E c \in Clients : call[c] = "peak" /\ new_usage[c] >= current_usage

MonitorInv == MonitorTyped /\ GivesBack /\ UsageAccounted /\ GrantedFits /\ PeakFollows

-----------------------------------------------------------------------------
(* The steps of the pool. *)
UserStates == [pc : {"idle", "check", "create", "allocate", "held"}, holds : Nat \cup {None}]

(* A user goes on and nothing else changes. *)
LEMMA UserGoesOn ==
  ASSUME PoolInv, setting' = setting, NEW u \in Users, NEW p \in {"idle", "check", "create"},
         user[u].pc \in {"idle", "check", "create"},
         user' = [user EXCEPT ![u] = [user[u] EXCEPT !.pc = p]],
         UNCHANGED <<available, active, returning, created>>
  PROVE  PoolInv'
  <1> DEFINE s == [user[u] EXCEPT !.pc = p]
  <1>1. user \in [Users -> UserStates] /\ user[u] \in UserStates /\ Holding(u)
    BY DEF PoolInv, PoolTyped, UserStates
  <1>2. s \in UserStates /\ s.pc = p /\ s.holds = None /\ user[u].holds = None
    BY <1>1 DEF UserStates, Holding
  <1> HIDE DEF s
  <1>3. /\ user' \in [Users -> UserStates] /\ user'[u] = s
        /\ \A v \in Users : v # u => user'[v] = user[v]
        /\ \A v \in Users : user'[v].holds = user[v].holds
    BY <1>1, <1>2 DEF s
  <1>4. Holding(u)'
    <2>1. user'[u].pc \in {"idle", "check", "create"} /\ ~(user'[u].pc \in {"allocate", "held"})
      BY <1>2, <1>3
    <2> QED BY <1>2, <1>3, <2>1, Zenon DEF Holding
  <1>5. ASSUME NEW v \in Users, v # u PROVE Holding(v)'
    <2>1. Holding(v) /\ user'[v] = user[v]
      BY <1>3, <1>5 DEF PoolInv
    <2> QED BY <2>1, Zenon DEF Holding
  <1>6. PoolTyped'
    BY <1>3, Zenon DEF PoolInv, PoolTyped, UserStates
  <1>7. ListsApart' /\ Returning'
    BY Zenon DEF PoolInv, ListsApart, Returning
  <1>8. UsersApart'
    BY <1>3 DEF PoolInv, UsersApart
  <1> QED BY <1>4, <1>5, <1>6, <1>7, <1>8, Zenon DEF PoolInv

(* A user takes c, or lets go of what it has. *)
LEMMA UserTakes ==
  ASSUME PoolInv, NEW u \in Users, NEW s \in UserStates, user' = [user EXCEPT ![u] = s],
         \/ s.holds = None
         \/ \A v \in Users : v # u => user[v].holds # s.holds
  PROVE  /\ UsersApart' /\ user' \in [Users -> UserStates] /\ user'[u] = s
         /\ \A v \in Users : v # u => user'[v] = user[v]
  <1>1. user \in [Users -> UserStates] /\ UsersApart
    BY DEF PoolInv, PoolTyped, UserStates
  <1>2. /\ user' \in [Users -> UserStates] /\ user'[u] = s
        /\ \A v \in Users : v # u => user'[v] = user[v]
    BY <1>1
  <1>3. ASSUME NEW v \in Users, NEW w \in Users, v # w, user'[v].holds # None
        PROVE  user'[v].holds # user'[w].holds
    <2>1. CASE v # u /\ w # u
      BY <1>1, <1>2, <1>3, <2>1, Zenon DEF UsersApart
    <2>2. CASE v = u \/ w = u
      BY <1>2, <1>3, <2>2, Zenon
    <2> QED BY <2>1, <2>2
  <1> QED BY <1>2, <1>3, Zenon DEF UsersApart

LEMMA GetAvailableStep ==
  ASSUME PoolInv, setting' = setting, NEW u \in Users, GetAvailable(u)
  PROVE  PoolInv'
  <1>0. /\ user \in [Users -> UserStates] /\ user[u] \in UserStates
        /\ available \in Seq(Nat) /\ active \in Seq(Nat) /\ created \in Nat
        /\ created <= setting.connections /\ setting.connections \in Nat
    BY DEF PoolInv, PoolTyped, UserStates, Setting
  <1>1. CASE available = <<>>
    <2>1. /\ user[u].pc = "idle" /\ user' = [user EXCEPT ![u].pc = "check"]
          /\ UNCHANGED <<available, active, returning, created>>
      BY <1>1, Zenon DEF GetAvailable
    <2>2. user' = [user EXCEPT ![u] = [user[u] EXCEPT !.pc = "check"]]
      BY <1>0, <2>1
    <2> QED BY <2>1, <2>2, UserGoesOn, Zenon
  <1>2. CASE available # <<>>
    <2>1. PICK c : c = Last(available)
      OBVIOUS
    <2> DEFINE s == [pc |-> "held", holds |-> c]
    <2>2. /\ user' = [user EXCEPT ![u] = s] /\ active' = Append(active, c)
          /\ available' = SubSeq(available, 1, Len(available) - 1)
          /\ UNCHANGED <<returning, created>>
      BY <1>2, <2>1, Zenon DEF GetAvailable, Pop
    <2>3. /\ Len(available) - 1 \in 0 .. Len(available) /\ Len(available) - 1 < Len(available)
          /\ c = available[Len(available)] /\ Len(available) \in DOMAIN available
      BY <1>0, <1>2, <2>1 DEF Last
    <2>4. c \in Elements(available) /\ c \notin Elements(active) /\ c \in 1 .. created /\ c \in Nat
      <3>1. c \in Elements(available)
        BY <2>3, Zenon DEF Elements
      <3> QED BY <1>0, <3>1 DEF PoolInv, ListsApart
    <2>5. /\ available' \in Seq(Nat) /\ Once(available')
          /\ Elements(available') \subseteq Elements(available)
          /\ c \notin Elements(available')
      <3>1. Once(available)
        BY DEF PoolInv, ListsApart
      <3> QED BY <1>0, <2>2, <2>3, <3>1, PrefixOnce, Zenon
    <2>6. /\ active' \in Seq(Nat) /\ Once(active')
          /\ Elements(active') = Elements(active) \cup {c}
      <3>1. Once(active)
        BY DEF PoolInv, ListsApart
      <3> QED BY <1>0, <2>2, <2>4, <3>1, AppendOnce
    <2>7. s \in UserStates /\ s.pc = "held" /\ s.holds = c
      BY <2>4 DEF UserStates
    <2> HIDE DEF s
    <2>8. returning[c] = "no"
      <3>1. c \in 1 .. setting.connections
        BY <1>0, <2>4
      <3> QED BY <2>4, <3>1, Zenon DEF PoolInv, Returning
    <2>9. ASSUME NEW v \in Users PROVE user[v].holds # c
      <3>1. user[v] \in UserStates /\ Holding(v)
        BY <1>0 DEF PoolInv
      <3>2. user[v].holds = c => user[v].pc \in {"allocate", "held"}
        BY <2>4, <3>1, SettingAssumption DEF UserStates, Holding
      <3> QED BY <2>4, <3>1, <3>2, Zenon DEF Holding
    <2>10. /\ UsersApart' /\ user' \in [Users -> UserStates] /\ user'[u] = s
           /\ \A v \in Users : v # u => user'[v] = user[v]
      BY <2>2, <2>7, <2>9, UserTakes, Zenon
    <2>11. ASSUME NEW v \in Users PROVE Holding(v)'
      <3>1. CASE v = u
        <4>1. ~(s.pc \in {"idle", "check", "create"}) /\ c \in Elements(active')
          BY <2>6, <2>7
        <4> QED BY <2>2, <2>4, <2>5, <2>7, <2>8, <2>10, <3>1, <4>1, Zenon DEF Holding
      <3>2. CASE v # u
        <4>1. Holding(v) /\ user'[v] = user[v] /\ user[v].holds # c
          BY <2>9, <2>10, <3>2 DEF PoolInv
        <4>2. user[v].holds \in Elements(active') <=> user[v].holds \in Elements(active)
          BY <2>6, <4>1
        <4>3. user[v].holds \notin Elements(available) =>
                 user[v].holds \notin Elements(available')
          BY <2>5
        <4> QED BY <2>2, <4>1, <4>2, <4>3, Zenon DEF Holding
      <3> QED BY <3>1, <3>2
    <2>12. ListsApart'
      BY <2>2, <2>4, <2>5, <2>6 DEF PoolInv, ListsApart
    <2>13. Returning'
      <3>1. ASSUME NEW d \in 1 .. setting.connections, returning[d] # "no"
            PROVE  /\ d <= created /\ d \notin Elements(available')
                   /\ returning[d] = "loose" => d \notin Elements(active')
        <4>1. /\ d <= created /\ d \notin Elements(available) /\ d # c
              /\ returning[d] = "loose" => d \notin Elements(active)
          BY <2>8, <3>1, Zenon DEF PoolInv, Returning
        <4> QED BY <2>5, <2>6, <4>1
      <3> QED BY <2>2, <3>1, Zenon DEF Returning
    <2>14. PoolTyped'
      BY <2>2, <2>5, <2>6, <2>10, Zenon DEF PoolInv, PoolTyped, UserStates
    <2> QED BY <2>10, <2>11, <2>12, <2>13, <2>14, Zenon DEF PoolInv
  <1> QED BY <1>1, <1>2

(* What a user holds is nobody else's. *)
LEMMA HeldAlone ==
  ASSUME PoolInv, NEW u \in Users, user[u].pc \in {"allocate", "held"}
  PROVE  /\ user[u].holds \in 1 .. created /\ user[u].holds \in Nat
         /\ user[u].holds \in 1 .. setting.connections
         /\ \A v \in Users : v # u => user[v].holds # user[u].holds
  <1>1. /\ Holding(u) /\ UsersApart /\ created \in Nat /\ setting.connections \in Nat
        /\ created <= setting.connections
    BY DEF PoolInv, PoolTyped, Setting
  <1>2. user[u].holds \in 1 .. created
    BY <1>1 DEF Holding
  <1>3. /\ user[u].holds \in Nat /\ user[u].holds # None
        /\ user[u].holds \in 1 .. setting.connections
    BY <1>1, <1>2, SettingAssumption
  <1> QED BY <1>1, <1>2, <1>3, Zenon DEF UsersApart

LEMMA CreateStep ==
  ASSUME PoolInv, setting' = setting, NEW u \in Users, Create(u)
  PROVE  PoolInv'
  <1>1. PICK c : c = created + 1
    OBVIOUS
  <1> DEFINE s == [pc |-> "allocate", holds |-> c]
  <1>2. /\ created < setting.connections /\ created' = c
        /\ user' = [user EXCEPT ![u] = s] /\ UNCHANGED <<available, active, returning>>
    BY <1>1, Zenon DEF Create
  <1>3. /\ created \in Nat /\ setting.connections \in Nat
        /\ user \in [Users -> UserStates]
    BY DEF PoolInv, PoolTyped, Setting, UserStates
  <1>4. /\ c \in Nat /\ c \in 1 .. c /\ c \in 1 .. setting.connections /\ c <= setting.connections
        /\ ~(c <= created) /\ c \notin 1 .. created
        /\ \A d \in 1 .. created : d \in 1 .. c
        /\ \A d \in 1 .. setting.connections : d <= created => d <= c
    BY <1>1, <1>2, <1>3
  <1>5. c \notin Elements(available) /\ c \notin Elements(active) /\ returning[c] = "no"
    BY <1>4 DEF PoolInv, ListsApart, Returning
  <1>6. s \in UserStates /\ s.pc = "allocate" /\ s.holds = c
    BY <1>4 DEF UserStates
  <1> HIDE DEF s
  <1>7. ASSUME NEW v \in Users PROVE user[v].holds # c
    <2>1. user[v] \in UserStates /\ Holding(v)
      BY <1>3 DEF PoolInv
    <2> QED BY <1>4, <2>1, SettingAssumption DEF UserStates, Holding
  <1>8. /\ UsersApart' /\ user' \in [Users -> UserStates] /\ user'[u] = s
        /\ \A v \in Users : v # u => user'[v] = user[v]
    BY <1>2, <1>6, <1>7, UserTakes, Zenon
  <1>9. ASSUME NEW v \in Users PROVE Holding(v)'
    <2>1. CASE v = u
      <3>1. ~(s.pc \in {"idle", "check", "create"}) /\ s.pc # "held"
        BY <1>6
      <3> QED BY <1>2, <1>4, <1>5, <1>6, <1>8, <2>1, <3>1, Zenon DEF Holding
    <2>2. CASE v # u
      <3>1. Holding(v) /\ user'[v] = user[v]
        BY <1>8, <2>2 DEF PoolInv
      <3> QED BY <1>2, <1>4, <3>1, Zenon DEF Holding
    <2> QED BY <2>1, <2>2
  <1>10. ListsApart' /\ Returning'
    BY <1>2, <1>4, Zenon DEF PoolInv, ListsApart, Returning
  <1>11. PoolTyped'
    BY <1>2, <1>4, <1>8, Zenon DEF PoolInv, PoolTyped, UserStates
  <1> QED BY <1>8, <1>9, <1>10, <1>11, Zenon DEF PoolInv

(* A user lets go of a connection: it is gone, or a task takes it back. *)
LEMMA UserLetsGo ==
  ASSUME PoolInv, setting' = setting, NEW u \in Users, user[u].pc \in {"allocate", "held"},
         user' = [user EXCEPT ![u] = [pc |-> "idle", holds |-> None]],
         UNCHANGED <<available, active, created>>,
         \/ returning' = returning
         \/ returning' = [returning EXCEPT ![user[u].holds] = "active"]
  PROVE  PoolInv'
  <1> DEFINE s == [pc |-> "idle", holds |-> None]
  <1>1. PICK c : c = user[u].holds
    OBVIOUS
  <1>2. /\ c \in 1 .. created /\ c \in 1 .. setting.connections
        /\ \A v \in Users : v # u => user[v].holds # c
    BY <1>1, HeldAlone
  <1>3. s \in UserStates /\ s.pc = "idle" /\ s.holds = None
    BY DEF UserStates
  <1> HIDE DEF s
  <1>4. /\ UsersApart' /\ user' \in [Users -> UserStates] /\ user'[u] = s
        /\ \A v \in Users : v # u => user'[v] = user[v]
    BY <1>3, UserTakes, Zenon DEF s
  <1>5. /\ returning' \in [1 .. setting.connections -> {"no", "active", "loose"}]
        /\ \A d \in 1 .. setting.connections :
              \/ returning'[d] = returning[d]
              \/ d = c /\ returning'[d] = "active"
    BY <1>1, <1>2, Zenon DEF PoolInv, PoolTyped
  <1>6. ASSUME NEW v \in Users PROVE Holding(v)'
    <2>1. CASE v = u
      <3>1. ~(s.pc \in {"allocate", "held"})
        BY <1>3
      <3> QED BY <1>3, <1>4, <2>1, <3>1, Zenon DEF Holding
    <2>2. CASE v # u
      <3>1. Holding(v) /\ user'[v] = user[v] /\ user[v].holds # c
        BY <1>2, <1>4, <2>2 DEF PoolInv
      <3>2. user[v].pc \in {"allocate", "held"} => user[v].holds \in 1 .. setting.connections
        BY HeldAlone
      <3> QED BY <1>5, <3>1, <3>2, Zenon DEF Holding
    <2> QED BY <2>1, <2>2
  <1>7. ListsApart'
    BY Zenon DEF PoolInv, ListsApart
  <1>8. Returning'
    <2>1. c <= created /\ c \notin Elements(available)
      BY <1>1, <1>2 DEF PoolInv, Holding
    <2>2. ASSUME NEW d \in 1 .. setting.connections, returning'[d] # "no"
          PROVE  /\ d <= created /\ d \notin Elements(available)
                 /\ returning'[d] = "loose" => d \notin Elements(active)
      <3>1. CASE returning'[d] = returning[d]
        BY <2>2, <3>1, Zenon DEF PoolInv, Returning
      <3>2. CASE d = c /\ returning'[d] = "active"
        BY <2>1, <3>2
      <3> QED BY <1>5, <3>1, <3>2
    <2> QED BY <2>2, Zenon DEF Returning
  <1>9. PoolTyped'
    BY <1>4, <1>5, Zenon DEF PoolInv, PoolTyped, UserStates
  <1> QED BY <1>4, <1>6, <1>7, <1>8, <1>9, Zenon DEF PoolInv

LEMMA PushActiveStep ==
  ASSUME PoolInv, setting' = setting, NEW u \in Users, PushActive(u)
  PROVE  PoolInv'
  <1> DEFINE s == [user[u] EXCEPT !.pc = "held"]
  <1>0. user \in [Users -> UserStates] /\ user[u] \in UserStates /\ active \in Seq(Nat)
    BY DEF PoolInv, PoolTyped, UserStates
  <1>1. PICK c : c = user[u].holds
    OBVIOUS
  <1>2. /\ user[u].pc = "allocate" /\ active' = Append(active, c)
        /\ UNCHANGED <<available, returning, created>>
    BY <1>1, Zenon DEF PushActive
  <1>3. user' = [user EXCEPT ![u] = s]
    BY <1>0, Zenon DEF PushActive
  <1>4. /\ c \in 1 .. created /\ c \in Nat /\ c \in 1 .. setting.connections
        /\ \A v \in Users : v # u => user[v].holds # c
    BY <1>1, <1>2, HeldAlone
  <1>5. c \notin Elements(available) /\ c \notin Elements(active) /\ returning[c] = "no"
    BY <1>1, <1>2 DEF PoolInv, Holding
  <1>6. s \in UserStates /\ s.pc = "held" /\ s.holds = c
    BY <1>0, <1>1 DEF UserStates
  <1> HIDE DEF s
  <1>7. /\ active' \in Seq(Nat) /\ Once(active')
        /\ Elements(active') = Elements(active) \cup {c}
    <2>1. Once(active)
      BY DEF PoolInv, ListsApart
    <2> QED BY <1>0, <1>2, <1>4, <1>5, <2>1, AppendOnce
  <1>8. /\ UsersApart' /\ user' \in [Users -> UserStates] /\ user'[u] = s
        /\ \A v \in Users : v # u => user'[v] = user[v]
    BY <1>3, <1>4, <1>6, UserTakes, Zenon
  <1>9. ASSUME NEW v \in Users PROVE Holding(v)'
    <2>1. CASE v = u
      <3>1. ~(s.pc \in {"idle", "check", "create"}) /\ c \in Elements(active')
        BY <1>6, <1>7
      <3> QED BY <1>2, <1>4, <1>5, <1>6, <1>8, <2>1, <3>1, Zenon DEF Holding
    <2>2. CASE v # u
      <3>1. Holding(v) /\ user'[v] = user[v] /\ user[v].holds # c
        BY <1>4, <1>8, <2>2 DEF PoolInv
      <3>2. user[v].holds \in Elements(active') <=> user[v].holds \in Elements(active)
        BY <1>7, <3>1
      <3> QED BY <1>2, <3>1, <3>2, Zenon DEF Holding
    <2> QED BY <2>1, <2>2
  <1>10. ListsApart'
    BY <1>2, <1>4, <1>5, <1>7 DEF PoolInv, ListsApart
  <1>11. Returning'
    <2>1. ASSUME NEW d \in 1 .. setting.connections, returning[d] # "no"
          PROVE  returning[d] = "loose" => d \notin Elements(active')
      <3>1. d # c /\ (returning[d] = "loose" => d \notin Elements(active))
        BY <1>5, <2>1, Zenon DEF PoolInv, Returning
      <3> QED BY <1>7, <3>1
    <2> QED BY <1>2, <2>1, Zenon DEF PoolInv, Returning
  <1>12. PoolTyped'
    BY <1>2, <1>7, <1>8, Zenon DEF PoolInv, PoolTyped, UserStates
  <1> QED BY <1>8, <1>9, <1>10, <1>11, <1>12, Zenon DEF PoolInv

(* A step that leaves the users alone: what they hold is not on its way
   back, and stays on or off the lists. *)
LEMMA UsersStay ==
  ASSUME PoolInv, setting' = setting, UNCHANGED <<user, created>>,
         PoolTyped', ListsApart', Returning',
         \A c \in 1 .. created :
            returning[c] = "no" => /\ returning'[c] = "no"
                                   /\ c \notin Elements(available) => c \notin Elements(available')
                                   /\ c \in Elements(active') <=> c \in Elements(active)
  PROVE  PoolInv'
  <1>1. UsersApart'
    BY Zenon DEF PoolInv, UsersApart
  <1>2. ASSUME NEW v \in Users PROVE Holding(v)'
    <2>1. Holding(v)
      BY DEF PoolInv
    <2> QED BY <2>1, Zenon DEF Holding
  <1> QED BY <1>1, <1>2, Zenon DEF PoolInv

LEMMA ReturnSteps ==
  ASSUME PoolInv, setting' = setting, NEW c \in 1 .. created, ReturnStep(c)
  PROVE  PoolInv'
  <1>0. /\ available \in Seq(Nat) /\ active \in Seq(Nat) /\ c \in 1 .. setting.connections
        /\ returning \in [1 .. setting.connections -> {"no", "active", "loose"}]
        /\ c \in Nat /\ \A d \in 1 .. created : d \in 1 .. setting.connections
    <2>1. /\ created \in Nat /\ setting.connections \in Nat /\ created <= setting.connections
      BY DEF PoolInv, PoolTyped, Setting
    <2>2. c \in Nat /\ \A d \in 1 .. created : d \in 1 .. setting.connections
      BY <2>1
    <2> QED BY <2>2, Zenon DEF PoolInv, PoolTyped
  <1>1. CASE returning[c] = "active"
    <2>1. /\ active' = Without(active, c) /\ returning' = [returning EXCEPT ![c] = "loose"]
          /\ UNCHANGED <<available, user, created>>
      BY <1>1 DEF ReturnStep
    <2>2. /\ active' \in Seq(Nat) /\ Once(active') /\ Elements(active') = Elements(active) \ {c}
      <3>1. Once(active)
        BY DEF PoolInv, ListsApart
      <3> QED BY <1>0, <2>1, <3>1, WithoutOnce, Zenon
    <2>3. /\ returning' \in [1 .. setting.connections -> {"no", "active", "loose"}]
          /\ returning'[c] = "loose"
          /\ \A d \in 1 .. setting.connections : d # c => returning'[d] = returning[d]
      BY <1>0, <2>1
    <2>4. ListsApart'
      BY <2>1, <2>2 DEF PoolInv, ListsApart
    <2>5. Returning'
      <3>1. ASSUME NEW d \in 1 .. setting.connections, returning'[d] # "no"
            PROVE  /\ d <= created /\ d \notin Elements(available)
                   /\ returning'[d] = "loose" => d \notin Elements(active')
        <4>1. returning[d] # "no" /\ (d # c => returning'[d] = returning[d])
          BY <1>1, <2>3, <3>1
        <4> QED BY <2>2, <4>1 DEF PoolInv, Returning
      <3> QED BY <2>1, <3>1, Zenon DEF Returning
    <2>6. PoolTyped'
      BY <2>1, <2>2, <2>3, Zenon DEF PoolInv, PoolTyped
    <2>7. ASSUME NEW d \in 1 .. created, returning[d] = "no"
          PROVE  /\ returning'[d] = "no"
                 /\ d \in Elements(active') <=> d \in Elements(active)
      BY <1>0, <1>1, <2>2, <2>3, <2>7
    <2> QED BY <2>1, <2>4, <2>5, <2>6, <2>7, UsersStay, Zenon
  <1>2. CASE returning[c] = "loose"
    <2>1. /\ available' = Append(available, c) /\ returning' = [returning EXCEPT ![c] = "no"]
          /\ UNCHANGED <<active, user, created>>
      BY <1>2 DEF ReturnStep
    <2>2. c \notin Elements(available) /\ c \notin Elements(active)
      BY <1>0, <1>2 DEF PoolInv, Returning
    <2>3. /\ available' \in Seq(Nat) /\ Once(available')
          /\ Elements(available') = Elements(available) \cup {c}
      <3>1. Once(available)
        BY DEF PoolInv, ListsApart
      <3> QED BY <1>0, <2>1, <2>2, <3>1, AppendOnce
    <2>4. /\ returning' \in [1 .. setting.connections -> {"no", "active", "loose"}]
          /\ returning'[c] = "no"
          /\ \A d \in 1 .. setting.connections : d # c => returning'[d] = returning[d]
      BY <1>0, <2>1
    <2>5. ListsApart'
      BY <2>1, <2>2, <2>3 DEF PoolInv, ListsApart
    <2>6. Returning'
      <3>1. ASSUME NEW d \in 1 .. setting.connections, returning'[d] # "no"
            PROVE  /\ d <= created /\ d \notin Elements(available')
                   /\ returning'[d] = "loose" => d \notin Elements(active)
        <4>1. d # c /\ returning'[d] = returning[d]
          BY <2>4, <3>1
        <4> QED BY <2>3, <3>1, <4>1 DEF PoolInv, Returning
      <3> QED BY <2>1, <3>1, Zenon DEF Returning
    <2>7. PoolTyped'
      BY <2>1, <2>3, <2>4, Zenon DEF PoolInv, PoolTyped
    <2>8. ASSUME NEW d \in 1 .. created, returning[d] = "no"
          PROVE  /\ returning'[d] = "no"
                 /\ d \notin Elements(available) => d \notin Elements(available')
      BY <1>0, <1>2, <2>3, <2>4, <2>8
    <2> QED BY <2>1, <2>5, <2>6, <2>7, <2>8, UsersStay, Zenon
  <1> QED BY <1>1, <1>2 DEF ReturnStep

LEMMA PoolCleanupStep ==
  ASSUME PoolInv, setting' = setting, PoolCleanup
  PROVE  PoolInv'
  <1>1. PICK n : n = (Len(available) + 1) \div 2
    OBVIOUS
  <1>2. /\ available' = SubSeq(available, 1, n) /\ UNCHANGED <<active, user, returning, created>>
        /\ available \in Seq(Nat) /\ n \in 0 .. Len(available) /\ Once(available)
    BY <1>1 DEF PoolCleanup, PoolInv, PoolTyped, ListsApart
  <1>3. /\ available' \in Seq(Nat) /\ Once(available')
        /\ Elements(available') \subseteq Elements(available)
    BY <1>2, PrefixOnce, Zenon
  <1>4. ListsApart' /\ Returning'
    BY <1>2, <1>3 DEF PoolInv, ListsApart, Returning
  <1>5. PoolTyped'
    BY <1>2, <1>3, Zenon DEF PoolInv, PoolTyped
  <1>6. \A c : c \notin Elements(available) => c \notin Elements(available')
    BY <1>3
  <1> QED BY <1>2, <1>4, <1>5, <1>6, UsersStay, Zenon

LEMMA PoolStays == PoolInv /\ setting' = setting /\ UNCHANGED poolVars => PoolInv'
  <1> SUFFICES ASSUME PoolInv, setting' = setting, UNCHANGED poolVars PROVE PoolInv'
    OBVIOUS
  <1>1. UNCHANGED <<available, active, user, returning, created>>
    BY DEF poolVars
  <1>2. PoolTyped' /\ ListsApart' /\ Returning'
    BY <1>1, Zenon DEF PoolInv, PoolTyped, ListsApart, Returning
  <1> QED BY <1>1, <1>2, UsersStay, Zenon

LEMMA PoolStart == setting \in Setting /\ PoolInit => PoolInv
  <1> SUFFICES ASSUME setting \in Setting, PoolInit PROVE PoolInv
    OBVIOUS
  <1>1. /\ available = <<>> /\ active = <<>> /\ created = 0
        /\ user = [u \in Users |-> [pc |-> "idle", holds |-> None]]
        /\ returning = [c \in 1 .. setting.connections |-> "no"]
    BY DEF PoolInit
  <1>2. setting.connections \in Nat
    BY DEF Setting
  <1>3. PoolTyped
    BY <1>1, <1>2 DEF PoolTyped
  <1>4. ListsApart
    BY <1>1 DEF ListsApart, Once, Elements
  <1>5. UsersApart /\ Returning /\ \A u \in Users : Holding(u)
    BY <1>1 DEF UsersApart, Returning, Holding
  <1> QED BY <1>3, <1>4, <1>5 DEF PoolInv

LEMMA PoolMoves ==
  ASSUME PoolInv, setting' = setting, PoolNext
  PROVE  PoolInv'
  <1>0. user \in [Users -> UserStates]
    BY DEF PoolInv, PoolTyped, UserStates
  <1>1. CASE \E u \in Users : Create(u) \/ PushActive(u) \/ GetAvailable(u)
    BY <1>1, CreateStep, PushActiveStep, GetAvailableStep
  <1>2. ASSUME NEW u \in Users, AllocateErr(u) \/ DropConnection(u) PROVE PoolInv'
    BY <1>2, UserLetsGo DEF AllocateErr, DropConnection
  <1>3. ASSUME NEW u \in Users, CheckRoom(u) PROVE PoolInv'
    <2>1. PICK p \in {"idle", "create"} : user' = [user EXCEPT ![u].pc = p]
      BY <1>3, Zenon DEF CheckRoom
    <2>2. user' = [user EXCEPT ![u] = [user[u] EXCEPT !.pc = p]]
      BY <1>0, <2>1
    <2>3. p \in {"idle", "check", "create"} /\ user[u].pc \in {"idle", "check", "create"}
      BY <1>3 DEF CheckRoom
    <2> QED BY <1>3, <2>2, <2>3, UserGoesOn, Zenon DEF CheckRoom
  <1>4. ASSUME NEW u \in Users, CreateErr(u) PROVE PoolInv'
    <2>1. user' = [user EXCEPT ![u] = [user[u] EXCEPT !.pc = "idle"]]
      BY <1>0, <1>4 DEF CreateErr
    <2>2. user[u].pc \in {"idle", "check", "create"}
      BY <1>4 DEF CreateErr
    <2> QED BY <1>4, <2>1, <2>2, UserGoesOn, Zenon DEF CreateErr
  <1>5. CASE \E c \in 1 .. created : ReturnStep(c)
    BY <1>5, ReturnSteps
  <1>6. CASE PoolCleanup
    BY <1>6, PoolCleanupStep
  <1>7. CASE UNCHANGED poolVars
    BY <1>7, PoolStays
  <1> QED BY <1>1, <1>2, <1>3, <1>4, <1>5, <1>6, <1>7, Zenon DEF PoolNext

-----------------------------------------------------------------------------
(* Sums of what clients report. *)
Weight(b, c) == IF b THEN SizeOf(c) ELSE 0

LEMMA SizesFacts ==
  ASSUME NEW S \in SUBSET Clients, NEW T \in SUBSET Clients
  PROVE  /\ Sizes(S) \in Nat
         /\ S \subseteq T => Sizes(S) <= Sizes(T)
  <1>1. ASSUME NEW X \in SUBSET Clients
        PROVE  IsFiniteSet(X \cap Users) /\ Cardinality(X \cap Users) \in Nat
    BY UsersAssumption, FS_Intersection, FS_CardinalityType, Zenon
  <1>2. S \subseteq T => Cardinality(S \cap Users) <= Cardinality(T \cap Users)
    <2>1. S \subseteq T => S \cap Users \in SUBSET (T \cap Users)
      OBVIOUS
    <2> QED BY <1>1, <2>1, FS_Subset, Zenon
  <1>3. Cardinality(S \cap Users) \in Nat /\ Cardinality(T \cap Users) \in Nat
    BY <1>1
  <1>4. S \subseteq T /\ Receiving \in S => Receiving \in T
    OBVIOUS
  <1> QED BY <1>2, <1>3, <1>4 DEF Sizes, SizeOf

(* Two sets that differ in one client at most. *)
LEMMA SizesMove ==
  ASSUME NEW S \in SUBSET Clients, NEW T \in SUBSET Clients, NEW c \in Clients,
         S \ {c} = T \ {c}
  PROVE  Sizes(T) = Sizes(S) - Weight(c \in S, c) + Weight(c \in T, c)
  <1>0. ASSUME NEW X \in SUBSET Clients
        PROVE  IsFiniteSet(X \cap Users) /\ Cardinality(X \cap Users) \in Nat
    BY UsersAssumption, FS_Intersection, FS_CardinalityType, Zenon
  <1>1. /\ IsFiniteSet(S \cap Users) /\ Cardinality(S \cap Users) \in Nat
        /\ IsFiniteSet(T \cap Users) /\ Cardinality(T \cap Users) \in Nat
    BY <1>0
  <1>2. CASE c = Receiving
    <2>1. S \cap Users = T \cap Users
      BY <1>2, UsersAssumption
    <2>2. SizeOf(c) = 2 /\ Weight(c \in S, c) \in Nat /\ Weight(c \in T, c) \in Nat
      BY <1>2 DEF SizeOf, Weight
    <2>3. /\ Sizes(S) = Cardinality(S \cap Users) + Weight(c \in S, c)
          /\ Sizes(T) = Cardinality(S \cap Users) + Weight(c \in T, c)
      BY <1>2, <2>1, Zenon DEF Sizes, Weight
    <2> QED BY <1>1, <2>2, <2>3
  <1>3. CASE c # Receiving
    <2>1. /\ c \in Users /\ (Receiving \in S <=> Receiving \in T)
          /\ (S \cap Users) \ {c} = (T \cap Users) \ {c}
          /\ (c \in S <=> c \in S \cap Users) /\ (c \in T <=> c \in T \cap Users)
      BY <1>3 DEF Clients
    <2>2. /\ Cardinality((S \cap Users) \ {c})
             = IF c \in S THEN Cardinality(S \cap Users) - 1 ELSE Cardinality(S \cap Users)
          /\ Cardinality((T \cap Users) \ {c})
             = IF c \in T THEN Cardinality(T \cap Users) - 1 ELSE Cardinality(T \cap Users)
      BY <1>1, <2>1, FS_RemoveElement, Zenon
    <2> QED BY <1>1, <1>3, <2>1, <2>2 DEF Sizes, SizeOf, Weight
  <1> QED BY <1>2, <1>3

(* The steps of the monitor.  What is under way, what will be granted, what
   is being given back. *)
Calls == {"none", "peak", "cleanup", "account", "ok", "refused", "release"}
Flying == At({"peak", "cleanup", "account"})
Given == Sizes(Granted)
Releasing == At({"release"})

SumsType == Flying \in Nat /\ Given \in Nat /\ Releasing \in Nat /\ Given <= Flying
LEMMA SumsTyped == SumsType
  <1>1. Granted \subseteq {c \in Clients : call[c] \in {"peak", "cleanup", "account"}}
    BY DEF Granted
  <1>2. /\ Granted \in SUBSET Clients
        /\ {c \in Clients : call[c] \in {"peak", "cleanup", "account"}} \in SUBSET Clients
        /\ {c \in Clients : call[c] \in {"release"}} \in SUBSET Clients
    BY DEF Granted
  <1> QED BY <1>1, <1>2, SizesFacts, Zenon DEF SumsType, Flying, Given, Releasing, At

(* One client makes a step. *)
LEMMA OneMoves ==
  ASSUME MonitorTyped, setting' = setting, NEW c \in Clients, NEW q \in Calls, NEW n \in Nat,
         call' = [call EXCEPT ![c] = q], new_usage' = [new_usage EXCEPT ![c] = n]
  PROVE  /\ call' \in [Clients -> Calls] /\ new_usage' \in [Clients -> Nat]
         /\ call'[c] = q /\ new_usage'[c] = n
         /\ \A d \in Clients : d # c => call'[d] = call[d] /\ new_usage'[d] = new_usage[d]
         /\ Flying' = Flying - Weight(call[c] \in {"peak", "cleanup", "account"}, c)
                             + Weight(q \in {"peak", "cleanup", "account"}, c)
         /\ Releasing' = Releasing - Weight(call[c] \in {"release"}, c)
                                   + Weight(q \in {"release"}, c)
         /\ Given' = Given - Weight(c \in Granted, c)
                     + Weight(q = "account" \/ (q = "peak" /\ n <= setting.memory_limit), c)
  <1>1. /\ call' \in [Clients -> Calls] /\ new_usage' \in [Clients -> Nat]
        /\ call'[c] = q /\ new_usage'[c] = n
        /\ \A d \in Clients : d # c => call'[d] = call[d] /\ new_usage'[d] = new_usage[d]
    BY DEF MonitorTyped, Calls
  <1>2. ASSUME NEW P
        PROVE  Sizes({d \in Clients : call'[d] \in P})
               = Sizes({d \in Clients : call[d] \in P})
                 - Weight(call[c] \in P, c) + Weight(q \in P, c)
    <2> DEFINE S == {d \in Clients : call[d] \in P}
               T == {d \in Clients : call'[d] \in P}
    <2>1. /\ S \in SUBSET Clients /\ T \in SUBSET Clients /\ S \ {c} = T \ {c}
          /\ (c \in S) = (call[c] \in P) /\ (c \in T) = (q \in P)
      BY <1>1
    <2> HIDE DEF S, T
    <2>2. Sizes(T) = Sizes(S) - Weight(c \in S, c) + Weight(c \in T, c)
      BY <2>1, SizesMove, Zenon
    <2> QED BY <2>1, <2>2, Zenon DEF S, T
  <1>3. /\ Flying' = Flying - Weight(call[c] \in {"peak", "cleanup", "account"}, c)
                            + Weight(q \in {"peak", "cleanup", "account"}, c)
        /\ Releasing' = Releasing - Weight(call[c] \in {"release"}, c)
                                  + Weight(q \in {"release"}, c)
    BY <1>2, Zenon DEF Flying, Releasing, At
  <1>4. Given' = Given - Weight(c \in Granted, c)
                 + Weight(q = "account" \/ (q = "peak" /\ n <= setting.memory_limit), c)
    <2>1. PICK T : T = Granted'
      OBVIOUS
    <2>2. /\ Granted \in SUBSET Clients /\ T \in SUBSET Clients
          /\ Granted \ {c} = T \ {c}
          /\ (c \in T) = (q = "account" \/ (q = "peak" /\ n <= setting.memory_limit))
      BY <1>1, <2>1 DEF Granted
    <2>3. Sizes(T) = Sizes(Granted) - Weight(c \in Granted, c) + Weight(c \in T, c)
      BY <2>2, SizesMove, Zenon
    <2> QED BY <2>1, <2>2, <2>3, Zenon DEF Given
  <1> QED BY <1>1, <1>3, <1>4

(* What the sums say, in numbers. *)
SumsOK ==
    /\ Accounted \in Nat
    /\ Accounted + Flying + leaked = current_usage + Releasing
    /\ Accounted + Given <= setting.memory_limit + Releasing

LEMMA MonitorSums ==
  /\ MonitorInv => MonitorTyped /\ GivesBack /\ SumsOK /\ PeakFollows
  /\ MonitorTyped /\ GivesBack /\ SumsOK /\ PeakFollows => MonitorInv
  <1>1. UsageAccounted <=> Accounted + Flying + leaked = current_usage + Releasing
    BY Zenon DEF UsageAccounted, Flying, Releasing
  <1>2. GrantedFits <=> Accounted + Given <= setting.memory_limit + Releasing
    BY Zenon DEF GrantedFits, Given, Releasing
  <1>3. MonitorTyped => Accounted \in Nat
    BY DEF MonitorTyped, Accounted, Counts
  <1> QED BY <1>1, <1>2, <1>3, Zenon DEF MonitorInv, SumsOK

LEMMA FetchAddStep ==
  ASSUME MonitorInv, setting' = setting, NEW c \in Clients, FetchAdd(c),
         frames' \in 0 .. setting.frames
  PROVE  MonitorInv'
  <1>1. PICK n : n = current_usage + SizeOf(c)
    OBVIOUS
  <1>2. /\ call[c] = "none" /\ current_usage' = n /\ call' = [call EXCEPT ![c] = "peak"]
        /\ new_usage' = [new_usage EXCEPT ![c] = n]
        /\ UNCHANGED <<peak_usage, component_usage, leaked>>
    BY <1>1, Zenon DEF FetchAdd
  <1>3. /\ MonitorTyped /\ GivesBack /\ SumsOK /\ PeakFollows
        /\ current_usage \in Nat /\ leaked \in Nat /\ setting.memory_limit \in Nat
    BY MonitorSums DEF MonitorTyped, Setting
  <1>4. n \in Nat /\ SizeOf(c) \in {1, 2} /\ "peak" \in Calls
    BY <1>1, <1>3 DEF SizeOf, Calls
  <1>5. /\ call' \in [Clients -> Calls] /\ new_usage' \in [Clients -> Nat]
        /\ call'[c] = "peak" /\ new_usage'[c] = n
        /\ \A d \in Clients : d # c => call'[d] = call[d] /\ new_usage'[d] = new_usage[d]
        /\ Flying' = Flying - Weight(call[c] \in {"peak", "cleanup", "account"}, c)
                            + Weight("peak" \in {"peak", "cleanup", "account"}, c)
        /\ Releasing' = Releasing - Weight(call[c] \in {"release"}, c)
                                  + Weight("peak" \in {"release"}, c)
        /\ Given' = Given - Weight(c \in Granted, c)
                    + Weight("peak" = "account" \/ ("peak" = "peak" /\ n <= setting.memory_limit), c)
    BY <1>2, <1>3, <1>4, OneMoves, Zenon
  <1>6. /\ Flying' = Flying + SizeOf(c) /\ Releasing' = Releasing
        /\ Given' = IF n <= setting.memory_limit THEN Given + SizeOf(c) ELSE Given
    <2>1. ~(call[c] \in {"peak", "cleanup", "account"}) /\ ~(call[c] \in {"release"})
          /\ c \notin Granted
      BY <1>2 DEF Granted
    <2> QED BY <1>4, <1>5, <2>1, SumsTyped DEF Weight, SumsType
  <1>7. SumsOK'
    <2>1. Accounted' = Accounted
      BY <1>2, Zenon DEF Accounted
    <2> QED BY <1>1, <1>2, <1>3, <1>4, <1>6, <2>1, SumsTyped DEF SumsOK, SumsType
  <1>8. MonitorTyped'
    BY <1>2, <1>3, <1>4, <1>5, Zenon DEF MonitorTyped, Calls
  <1>9. GivesBack'
    <2>1. \A d \in Clients : \/ call'[d] = call[d]
                             \/ call[d] = "none" /\ call'[d] = "peak"
      BY <1>2, <1>5, Zenon
    <2> QED BY <1>2, <1>3, <2>1 DEF GivesBack, Clients
  <1>10. PeakFollows'
    <2>1. new_usage'[c] >= current_usage'
      BY <1>2, <1>4, <1>5
    <2> QED BY <1>5, <2>1, Zenon DEF PeakFollows
  <1> QED BY <1>7, <1>8, <1>9, <1>10, MonitorSums, PTL

(* A step of one call after its fetch_add. *)
LEMMA CallMoves ==
  ASSUME MonitorInv, setting' = setting, NEW c \in Clients, NEW q \in Calls,
         call' = [call EXCEPT ![c] = q], new_usage' = new_usage
  PROVE  /\ call' \in [Clients -> Calls] /\ call'[c] = q
         /\ \A d \in Clients : d # c => call'[d] = call[d]
         /\ Flying' = Flying - Weight(call[c] \in {"peak", "cleanup", "account"}, c)
                             + Weight(q \in {"peak", "cleanup", "account"}, c)
         /\ Releasing' = Releasing - Weight(call[c] \in {"release"}, c)
                                   + Weight(q \in {"release"}, c)
         /\ Given' = Given - Weight(c \in Granted, c)
                     + Weight(\/ q = "account"
                              \/ q = "peak" /\ new_usage[c] <= setting.memory_limit, c)
         /\ SizeOf(c) \in {1, 2} /\ Given' <= Flying'
         /\ Flying' \in Nat /\ Given' \in Nat /\ Releasing' \in Nat
  <1>1. MonitorTyped /\ new_usage \in [Clients -> Nat]
    BY DEF MonitorInv, MonitorTyped
  <1>2. new_usage[c] \in Nat /\ new_usage' = [new_usage EXCEPT ![c] = new_usage[c]]
    BY <1>1
  <1>3. /\ Given' <= Flying' /\ Flying' \in Nat /\ Given' \in Nat /\ Releasing' \in Nat
    <2>1. SumsType'
      BY SumsTyped, PTL
    <2> QED BY <2>1 DEF SumsType
  <1>4. SizeOf(c) \in {1, 2}
    BY DEF SizeOf
  <1> QED BY <1>1, <1>2, <1>3, <1>4, OneMoves, Zenon

(* A call that is not about to raise the peak leaves those alone that are. *)
LEMMA PeakKept ==
  ASSUME MonitorInv, NEW c \in Clients, call[c] # "peak",
         \A d \in Clients : d # c => call'[d] = call[d],
         UNCHANGED <<new_usage, peak_usage>>, current_usage' \in Nat,
         current_usage' <= current_usage
  PROVE  PeakFollows'
  <1>1. /\ peak_usage \in Nat /\ current_usage \in Nat /\ new_usage \in [Clients -> Nat]
        /\ PeakFollows
    BY DEF MonitorInv, MonitorTyped
  <1> SUFFICES ASSUME current_usage' > peak_usage
               PROVE  \E d \in Clients : call'[d] = "peak" /\ new_usage[d] >= current_usage'
    BY Zenon DEF PeakFollows
  <1>2. current_usage > peak_usage
    BY <1>1
  <1>3. PICK d \in Clients : call[d] = "peak" /\ new_usage[d] >= current_usage
    BY <1>1, <1>2, Zenon DEF PeakFollows
  <1>4. call'[d] = "peak" /\ new_usage[d] >= current_usage'
    BY <1>1, <1>3
  <1> QED BY <1>4, Zenon

LEMMA UpdatePeakStep ==
  ASSUME MonitorInv, setting' = setting, NEW c \in Clients, UpdatePeak(c)
  PROVE  MonitorInv'
  <1>1. PICK q : q = IF new_usage[c] > setting.memory_limit THEN "cleanup" ELSE "account"
    OBVIOUS
  <1>2. /\ call[c] = "peak" /\ call' = [call EXCEPT ![c] = q]
        /\ peak_usage' = IF new_usage[c] > peak_usage THEN new_usage[c] ELSE peak_usage
        /\ UNCHANGED <<current_usage, component_usage, new_usage, frames, leaked>>
    BY <1>1, Zenon DEF UpdatePeak
  <1>3. /\ MonitorTyped /\ GivesBack /\ SumsOK /\ PeakFollows
        /\ current_usage \in Nat /\ leaked \in Nat /\ peak_usage \in Nat
        /\ new_usage \in [Clients -> Nat] /\ setting.memory_limit \in Nat
        /\ new_usage[c] \in Nat
    BY MonitorSums DEF MonitorTyped, Setting
  <1>4. q \in {"cleanup", "account"} /\ q \in Calls
    BY <1>1 DEF Calls
  <1>5. /\ call' \in [Clients -> Calls] /\ call'[c] = q
        /\ \A d \in Clients : d # c => call'[d] = call[d]
        /\ Flying' = Flying - Weight(call[c] \in {"peak", "cleanup", "account"}, c)
                            + Weight(q \in {"peak", "cleanup", "account"}, c)
        /\ Releasing' = Releasing - Weight(call[c] \in {"release"}, c)
                                  + Weight(q \in {"release"}, c)
        /\ Given' = Given - Weight(c \in Granted, c)
                    + Weight(\/ q = "account"
                             \/ q = "peak" /\ new_usage[c] <= setting.memory_limit, c)
        /\ SizeOf(c) \in {1, 2}
    BY <1>2, <1>4, CallMoves, Zenon
  <1>6. Flying' = Flying /\ Releasing' = Releasing /\ Given' = Given
    <2>1. /\ call[c] \in {"peak", "cleanup", "account"} /\ q \in {"peak", "cleanup", "account"}
          /\ ~(call[c] \in {"release"}) /\ ~(q \in {"release"}) /\ q # "peak"
          /\ (c \in Granted <=> q = "account")
      BY <1>1, <1>2, <1>3, <1>4 DEF Granted
    <2> QED BY <1>5, <2>1, SumsTyped DEF Weight, SumsType
  <1>7. SumsOK'
    <2>1. Accounted' = Accounted
      BY <1>2, Zenon DEF Accounted
    <2> QED BY <1>2, <1>3, <1>6, <2>1 DEF SumsOK
  <1>8. MonitorTyped'
    <2>1. peak_usage' \in Nat
      BY <1>2, <1>3
    <2> QED BY <1>2, <1>3, <1>5, <2>1, Zenon DEF MonitorTyped, Calls
  <1>9. GivesBack'
    <2>1. \A d \in Clients : \/ call'[d] = call[d]
                             \/ call[d] = "peak" /\ call'[d] \in {"cleanup", "account"}
      BY <1>2, <1>4, <1>5, Zenon
    <2> QED BY <1>2, <1>3, <2>1 DEF GivesBack, Clients
  <1>10. PeakFollows'
    <2> SUFFICES ASSUME current_usage > peak_usage'
                 PROVE  \E d \in Clients : call'[d] = "peak" /\ new_usage[d] >= current_usage
      BY <1>2, Zenon DEF PeakFollows
    <2>1. current_usage > peak_usage /\ ~(new_usage[c] >= current_usage)
      BY <1>2, <1>3
    <2> QED BY <1>3, <1>5, <2>1, Zenon DEF PeakFollows
  <1> QED BY <1>7, <1>8, <1>9, <1>10, MonitorSums, PTL

LEMMA CleanupStep ==
  ASSUME MonitorInv, setting' = setting, NEW c \in Clients, Cleanup(c)
  PROVE  MonitorInv'
  <1>1. /\ call[c] = "cleanup"
        /\ UNCHANGED <<current_usage, peak_usage, component_usage, new_usage, frames>>
    BY Zenon DEF Cleanup
  <1>2. PICK q \in {"refused", "account"} :
           /\ call' = [call EXCEPT ![c] = q]
           /\ q = "refused" => leaked' = leaked + SizeOf(c)
           /\ q = "account" => leaked' = leaked /\ current_usage <= setting.memory_limit
    BY DEF Cleanup
  <1>3. /\ MonitorTyped /\ GivesBack /\ SumsOK
        /\ current_usage \in Nat /\ leaked \in Nat /\ setting.memory_limit \in Nat
    BY MonitorSums DEF MonitorTyped, Setting
  <1>4. q \in Calls
    BY DEF Calls
  <1>5. /\ call' \in [Clients -> Calls] /\ call'[c] = q
        /\ \A d \in Clients : d # c => call'[d] = call[d]
        /\ Flying' = Flying - Weight(call[c] \in {"peak", "cleanup", "account"}, c)
                            + Weight(q \in {"peak", "cleanup", "account"}, c)
        /\ Releasing' = Releasing - Weight(call[c] \in {"release"}, c)
                                  + Weight(q \in {"release"}, c)
        /\ Given' = Given - Weight(c \in Granted, c)
                    + Weight(\/ q = "account"
                             \/ q = "peak" /\ new_usage[c] <= setting.memory_limit, c)
        /\ SizeOf(c) \in {1, 2} /\ Given' <= Flying' /\ Given' \in Nat
    BY <1>1, <1>2, <1>4, CallMoves, Zenon
  <1>6. /\ Releasing' = Releasing
        /\ Flying' = IF q = "refused" THEN Flying - SizeOf(c) ELSE Flying
        /\ Given' = IF q = "refused" THEN Given ELSE Given + SizeOf(c)
    <2>1. /\ call[c] \in {"peak", "cleanup", "account"} /\ ~(call[c] \in {"release"})
          /\ ~(q \in {"release"}) /\ q # "peak" /\ c \notin Granted
          /\ (q \in {"peak", "cleanup", "account"} <=> q # "refused")
          /\ (q = "account" <=> q # "refused")
      BY <1>1, <1>2 DEF Granted
    <2> QED BY <1>5, <2>1, SumsTyped DEF Weight, SumsType
  <1>7. SumsOK'
    <2>1. Accounted' = Accounted
      BY <1>1, Zenon DEF Accounted
    <2>2. leaked' = IF q = "refused" THEN leaked + SizeOf(c) ELSE leaked
      BY <1>2
    <2>3. q # "refused" => current_usage <= setting.memory_limit
      BY <1>2
    <2>4. SizeOf(c) \in {1, 2} /\ Given' <= Flying' /\ Given' \in Nat /\ Flying' \in Nat
      BY <1>1, <1>2, <1>4, CallMoves, Zenon
    <2>5. CASE q = "refused"
      BY <1>1, <1>3, <1>6, <2>1, <2>2, <2>4, <2>5, SumsTyped DEF SumsOK, SumsType
    <2>6. CASE q # "refused"
      BY <1>1, <1>3, <1>6, <2>1, <2>2, <2>3, <2>4, <2>6, SumsTyped DEF SumsOK, SumsType
    <2> QED BY <2>5, <2>6
  <1>8. MonitorTyped'
    <2>1. leaked' \in Nat
      BY <1>2, <1>3, <1>5
    <2> QED BY <1>1, <1>3, <1>5, <2>1, Zenon DEF MonitorTyped, Calls
  <1>9. GivesBack'
    <2>1. \A d \in Clients : \/ call'[d] = call[d]
                             \/ call[d] = "cleanup" /\ call'[d] \in {"refused", "account"}
      BY <1>1, <1>2, <1>5, Zenon
    <2> QED BY <1>1, <1>3, <2>1 DEF GivesBack, Clients
  <1>10. PeakFollows'
    <2>1. call[c] # "peak" /\ current_usage' \in Nat /\ current_usage' <= current_usage
      BY <1>1, <1>3
    <2> QED BY <1>1, <1>5, <2>1, PeakKept, Zenon
  <1> QED BY <1>7, <1>8, <1>9, <1>10, MonitorSums, PTL

LEMMA AccountStep ==
  ASSUME MonitorInv, setting' = setting, NEW c \in Clients, Account(c)
  PROVE  MonitorInv'
  <1>1. /\ call[c] = "account" /\ call' = [call EXCEPT ![c] = "ok"]
        /\ component_usage' = [component_usage EXCEPT ![ComponentOf(c)] = @ + SizeOf(c)]
        /\ UNCHANGED <<current_usage, peak_usage, new_usage, frames, leaked>>
    BY Zenon DEF Account
  <1>2. /\ MonitorTyped /\ GivesBack /\ SumsOK /\ component_usage \in Counts
        /\ current_usage \in Nat /\ leaked \in Nat /\ setting.memory_limit \in Nat
    BY MonitorSums DEF MonitorTyped, Setting
  <1>3. "ok" \in Calls
    BY DEF Calls
  <1>4. /\ call' \in [Clients -> Calls] /\ call'[c] = "ok"
        /\ \A d \in Clients : d # c => call'[d] = call[d]
        /\ Flying' = Flying - Weight(call[c] \in {"peak", "cleanup", "account"}, c)
                            + Weight("ok" \in {"peak", "cleanup", "account"}, c)
        /\ Releasing' = Releasing - Weight(call[c] \in {"release"}, c)
                                  + Weight("ok" \in {"release"}, c)
        /\ Given' = Given - Weight(c \in Granted, c)
                    + Weight(\/ "ok" = "account"
                             \/ "ok" = "peak" /\ new_usage[c] <= setting.memory_limit, c)
        /\ SizeOf(c) \in {1, 2}
    BY <1>1, <1>3, CallMoves, Zenon
  <1>5. /\ Releasing' = Releasing /\ Flying' = Flying - SizeOf(c) /\ Given' = Given - SizeOf(c)
    <2>1. /\ call[c] \in {"peak", "cleanup", "account"} /\ ~(call[c] \in {"release"})
          /\ c \in Granted
      BY <1>1 DEF Granted
    <2> QED BY <1>4, <2>1, SumsTyped DEF Weight, SumsType
  <1>6. /\ component_usage' \in Counts
        /\ c = Receiving => /\ component_usage'.protocol = component_usage.protocol + SizeOf(c)
                            /\ component_usage'.transport = component_usage.transport
        /\ c # Receiving => /\ component_usage'.transport = component_usage.transport + SizeOf(c)
                            /\ component_usage'.protocol = component_usage.protocol
    <2>1. CASE c = Receiving
      <3>1. component_usage' = [component_usage EXCEPT !.protocol = @ + SizeOf(c)]
        BY <1>1, <2>1, Zenon DEF ComponentOf
      <3> QED BY <1>2, <1>4, <2>1, <3>1 DEF Counts
    <2>2. CASE c # Receiving
      <3>1. component_usage' = [component_usage EXCEPT !.transport = @ + SizeOf(c)]
        BY <1>1, <2>2, Zenon DEF ComponentOf
      <3> QED BY <1>2, <1>4, <2>2, <3>1 DEF Counts
    <2> QED BY <2>1, <2>2
  <1>7. SumsOK'
    <2>1. Accounted' = Accounted + SizeOf(c)
      BY <1>2, <1>4, <1>6 DEF Accounted, Counts
    <2>2. SizeOf(c) \in {1, 2} /\ Given' \in Nat /\ Flying' \in Nat
      BY <1>1, <1>3, CallMoves, Zenon
    <2>3. current_usage' = current_usage /\ leaked' = leaked
      BY <1>1
    <2> QED BY <1>2, <1>5, <2>1, <2>2, <2>3, SumsTyped DEF SumsOK, SumsType
  <1>8. MonitorTyped'
    BY <1>1, <1>2, <1>4, <1>6, Zenon DEF MonitorTyped, Calls
  <1>9. GivesBack'
    <2>1. \A u \in Users : call'[u] # "release"
      <3>1. \A d \in Clients : call'[d] = call[d] \/ call'[d] = "ok"
        BY <1>4, Zenon
      <3>2. \A u \in Users : u \in Clients /\ call[u] # "release"
        BY <1>2, Zenon DEF GivesBack, Clients
      <3> QED BY <3>1, <3>2, Zenon
    <2>2. CASE c = Receiving
      <3>1. component_usage.protocol = 0
        BY <1>1, <1>2, <2>2 DEF GivesBack
      <3>2. component_usage'.protocol = 2
        BY <1>6, <2>2, <3>1 DEF SizeOf
      <3> QED BY <1>4, <2>1, <2>2, <3>2, Zenon DEF GivesBack
    <2>3. CASE c # Receiving
      <3>1. Receiving \in Clients /\ component_usage'.protocol = component_usage.protocol
        BY <1>6, <2>3 DEF Clients
      <3> QED BY <1>2, <1>4, <2>1, <2>3, <3>1, Zenon DEF GivesBack
    <2> QED BY <2>2, <2>3
  <1>10. PeakFollows'
    <2>1. call[c] # "peak" /\ current_usage' \in Nat /\ current_usage' <= current_usage
      BY <1>1, <1>2
    <2> QED BY <1>1, <1>4, <2>1, PeakKept, Zenon
  <1> QED BY <1>7, <1>8, <1>9, <1>10, MonitorSums, PTL

(* A call that has ended makes room for the next: refused, or a user's that
   was granted. *)
LEMMA CallOverStep ==
  ASSUME MonitorInv, setting' = setting, NEW c \in Clients,
         call[c] = "refused" \/ (call[c] = "ok" /\ c \in Users),
         call' = [call EXCEPT ![c] = "none"],
         UNCHANGED <<current_usage, peak_usage, component_usage, new_usage, frames, leaked>>
  PROVE  MonitorInv'
  <1>1. /\ MonitorTyped /\ GivesBack /\ SumsOK /\ current_usage \in Nat
    BY MonitorSums DEF MonitorTyped
  <1>2. "none" \in Calls
    BY DEF Calls
  <1>3. /\ call' \in [Clients -> Calls] /\ call'[c] = "none"
        /\ \A d \in Clients : d # c => call'[d] = call[d]
        /\ Flying' = Flying - Weight(call[c] \in {"peak", "cleanup", "account"}, c)
                            + Weight("none" \in {"peak", "cleanup", "account"}, c)
        /\ Releasing' = Releasing - Weight(call[c] \in {"release"}, c)
                                  + Weight("none" \in {"release"}, c)
        /\ Given' = Given - Weight(c \in Granted, c)
                    + Weight(\/ "none" = "account"
                             \/ "none" = "peak" /\ new_usage[c] <= setting.memory_limit, c)
        /\ SizeOf(c) \in {1, 2}
    BY <1>2, CallMoves, Zenon
  <1>4. Releasing' = Releasing /\ Flying' = Flying /\ Given' = Given
    <2>1. /\ ~(call[c] \in {"peak", "cleanup", "account"}) /\ ~(call[c] \in {"release"})
          /\ c \notin Granted
      BY DEF Granted
    <2> QED BY <1>3, <2>1, SumsTyped DEF Weight, SumsType
  <1>5. SumsOK'
    <2>1. Accounted' = Accounted
      BY Zenon DEF Accounted
    <2> QED BY <1>1, <1>4, <2>1, Zenon DEF SumsOK
  <1>6. MonitorTyped'
    BY <1>1, <1>3, Zenon DEF MonitorTyped, Calls
  <1>7. GivesBack'
    <2>1. \A u \in Users : call'[u] # "release"
      BY <1>1, <1>3, Zenon DEF GivesBack, Clients
    <2>2. call'[Receiving] \in {"ok", "release"} <=> call[Receiving] \in {"ok", "release"}
      <3>1. Receiving \in Clients
        BY DEF Clients
      <3>2. CASE c = Receiving
        BY <1>3, <3>2, UsersAssumption
      <3>3. CASE c # Receiving
        BY <1>3, <3>1, <3>3
      <3> QED BY <3>2, <3>3
    <2> QED BY <1>1, <2>1, <2>2, Zenon DEF GivesBack
  <1>8. PeakFollows'
    <2>1. call[c] # "peak" /\ current_usage' \in Nat /\ current_usage' <= current_usage
      BY <1>1
    <2> QED BY <1>3, <2>1, PeakKept, Zenon
  <1> QED BY <1>5, <1>6, <1>7, <1>8, MonitorSums, PTL

LEMMA SizesOfNone == Sizes({}) = 0
  <1>1. {} \cap Users = {} /\ Receiving \notin {}
    OBVIOUS
  <1>2. Cardinality({}) = 0
    BY FS_EmptySet, Zenon
  <1>3. Sizes({}) = 0 + 0
    BY <1>1, <1>2, Zenon DEF Sizes
  <1> QED BY <1>3

(* The receiving task gives back what it had. *)
LEMMA NoneReleasing ==
  MonitorInv /\ call[Receiving] # "release" => Releasing = 0
  <1> SUFFICES ASSUME MonitorInv, call[Receiving] # "release" PROVE Releasing = 0
    OBVIOUS
  <1>1. {c \in Clients : call[c] \in {"release"}} = {}
    BY DEF MonitorInv, GivesBack, Clients
  <1>2. Sizes({}) = 0
    BY SizesOfNone
  <1> QED BY <1>1, <1>2, Zenon DEF Releasing, At

LEMMA FetchSubStep ==
  ASSUME MonitorInv, setting' = setting, FetchSub(Receiving)
  PROVE  MonitorInv'
  <1>0. PICK c : c = Receiving
    OBVIOUS
  <1>1. /\ call[c] = "ok" /\ call' = [call EXCEPT ![c] = "release"]
        /\ current_usage' = current_usage - SizeOf(c)
        /\ UNCHANGED <<peak_usage, component_usage, new_usage, frames, leaked>>
    BY <1>0, Zenon DEF FetchSub
  <1>2. /\ MonitorTyped /\ GivesBack /\ SumsOK /\ component_usage \in Counts
        /\ current_usage \in Nat /\ leaked \in Nat /\ setting.memory_limit \in Nat
    BY MonitorSums DEF MonitorTyped, Setting
  <1>3. "release" \in Calls /\ c \in Clients /\ SizeOf(c) = 2
    BY <1>0 DEF Calls, Clients, SizeOf
  <1>4. /\ call' \in [Clients -> Calls] /\ call'[c] = "release"
        /\ \A d \in Clients : d # c => call'[d] = call[d]
        /\ Flying' = Flying - Weight(call[c] \in {"peak", "cleanup", "account"}, c)
                            + Weight("release" \in {"peak", "cleanup", "account"}, c)
        /\ Releasing' = Releasing - Weight(call[c] \in {"release"}, c)
                                  + Weight("release" \in {"release"}, c)
        /\ Given' = Given - Weight(c \in Granted, c)
                    + Weight(\/ "release" = "account"
                             \/ "release" = "peak" /\ new_usage[c] <= setting.memory_limit, c)
    BY <1>1, <1>3, CallMoves, Zenon
  <1>5. /\ Releasing' = Releasing + 2 /\ Flying' = Flying /\ Given' = Given
    <2>1. /\ ~(call[c] \in {"peak", "cleanup", "account"}) /\ ~(call[c] \in {"release"})
          /\ c \notin Granted
      BY <1>1 DEF Granted
    <2> QED BY <1>3, <1>4, <2>1, SumsTyped DEF Weight, SumsType
  <1>6. current_usage >= 2
    <2>1. component_usage.protocol = 2
      BY <1>0, <1>1, <1>2 DEF GivesBack
    <2>2. Accounted >= 2 /\ Accounted \in Nat
      BY <1>2, <2>1 DEF Accounted, Counts
    <2>3. Releasing = 0
      BY <1>0, <1>1, NoneReleasing
    <2> QED BY <1>2, <2>2, <2>3, SumsTyped DEF SumsOK, SumsType
  <1>7. SumsOK'
    <2>1. Accounted' = Accounted /\ current_usage' = current_usage - 2 /\ leaked' = leaked
      BY <1>1, <1>3 DEF Accounted
    <2> QED BY <1>2, <1>5, <1>6, <2>1, SumsTyped DEF SumsOK, SumsType
  <1>8. current_usage' \in Nat /\ current_usage' <= current_usage
    BY <1>1, <1>2, <1>3, <1>6
  <1>9. MonitorTyped'
    BY <1>1, <1>2, <1>4, <1>8, Zenon DEF MonitorTyped, Calls
  <1>10. GivesBack'
    BY <1>0, <1>1, <1>2, <1>3, <1>4, UsersAssumption DEF GivesBack, Clients
  <1>11. PeakFollows'
    <2>1. call[c] # "peak"
      BY <1>1
    <2> QED BY <1>1, <1>3, <1>4, <1>8, <2>1, PeakKept, Zenon
  <1> QED BY <1>7, <1>9, <1>10, <1>11, MonitorSums, PTL

LEMMA ReleaseStep ==
  ASSUME MonitorInv, setting' = setting, Release(Receiving)
  PROVE  MonitorInv'
  <1>0. PICK c : c = Receiving
    OBVIOUS
  <1>1. /\ call[c] = "release" /\ call' = [call EXCEPT ![c] = "none"]
        /\ UNCHANGED <<current_usage, peak_usage, new_usage, frames, leaked>>
    BY <1>0, Zenon DEF Release
  <1>2. /\ MonitorTyped /\ GivesBack /\ SumsOK /\ component_usage \in Counts
        /\ current_usage \in Nat /\ leaked \in Nat /\ setting.memory_limit \in Nat
    BY MonitorSums DEF MonitorTyped, Setting
  <1>3. "none" \in Calls /\ c \in Clients /\ SizeOf(c) = 2
    BY <1>0 DEF Calls, Clients, SizeOf
  <1>4. /\ call' \in [Clients -> Calls] /\ call'[c] = "none"
        /\ \A d \in Clients : d # c => call'[d] = call[d]
        /\ Flying' = Flying - Weight(call[c] \in {"peak", "cleanup", "account"}, c)
                            + Weight("none" \in {"peak", "cleanup", "account"}, c)
        /\ Releasing' = Releasing - Weight(call[c] \in {"release"}, c)
                                  + Weight("none" \in {"release"}, c)
        /\ Given' = Given - Weight(c \in Granted, c)
                    + Weight(\/ "none" = "account"
                             \/ "none" = "peak" /\ new_usage[c] <= setting.memory_limit, c)
    BY <1>1, <1>3, CallMoves, Zenon
  <1>5. /\ Releasing' = Releasing - 2 /\ Flying' = Flying /\ Given' = Given
    <2>1. /\ ~(call[c] \in {"peak", "cleanup", "account"}) /\ call[c] \in {"release"}
          /\ c \notin Granted
      BY <1>1 DEF Granted
    <2>2. /\ Weight(call[c] \in {"peak", "cleanup", "account"}, c) = 0
          /\ Weight("none" \in {"peak", "cleanup", "account"}, c) = 0
          /\ Weight(call[c] \in {"release"}, c) = 2 /\ Weight("none" \in {"release"}, c) = 0
          /\ Weight(c \in Granted, c) = 0
          /\ Weight(\/ "none" = "account"
                    \/ "none" = "peak" /\ new_usage[c] <= setting.memory_limit, c) = 0
      BY <1>3, <2>1 DEF Weight
    <2>3. /\ Flying' = Flying - 0 + 0 /\ Releasing' = Releasing - 2 + 0
          /\ Given' = Given - 0 + 0
      BY <1>4, <2>2, Zenon
    <2> QED BY <2>3, SumsTyped DEF SumsType
  <1>6. /\ component_usage' \in Counts /\ component_usage.protocol = 2
        /\ component_usage'.protocol = 0
        /\ component_usage'.transport = component_usage.transport
    <2>1. component_usage.protocol = 2
      BY <1>0, <1>1, <1>2 DEF GivesBack
    <2>2. component_usage' = [component_usage EXCEPT !.protocol =
                                IF @ > SizeOf(Receiving) THEN @ - SizeOf(Receiving) ELSE 0]
      BY Zenon DEF Release, ComponentOf
    <2> QED BY <1>0, <1>2, <1>3, <2>1, <2>2 DEF Counts
  <1>7. SumsOK'
    <2>1. Accounted' = Accounted - 2 /\ Accounted' \in Nat /\ Accounted \in Nat
      BY <1>2, <1>6 DEF Accounted, Counts
    <2>2. current_usage' = current_usage /\ leaked' = leaked
      BY <1>1
    <2> QED BY <1>2, <1>5, <2>1, <2>2, SumsTyped DEF SumsOK, SumsType
  <1>8. MonitorTyped'
    BY <1>1, <1>2, <1>4, <1>6, Zenon DEF MonitorTyped, Calls
  <1>9. GivesBack'
    BY <1>0, <1>1, <1>2, <1>3, <1>4, <1>6, UsersAssumption DEF GivesBack, Clients
  <1>10. PeakFollows'
    <2>1. call[c] # "peak" /\ current_usage' \in Nat /\ current_usage' <= current_usage
      BY <1>1, <1>2
    <2> QED BY <1>1, <1>3, <1>4, <2>1, PeakKept, Zenon
  <1> QED BY <1>7, <1>8, <1>9, <1>10, MonitorSums, PTL

LEMMA MonitorStays == MonitorInv /\ setting' = setting /\ UNCHANGED monitorVars => MonitorInv'
  <1> SUFFICES ASSUME MonitorInv, setting' = setting, UNCHANGED monitorVars PROVE MonitorInv'
    OBVIOUS
  <1>1. UNCHANGED <<current_usage, peak_usage, component_usage, call, new_usage, frames, leaked>>
    BY DEF monitorVars
  <1>2. MonitorTyped' /\ GivesBack' /\ PeakFollows'
    BY <1>1, Zenon DEF MonitorInv, MonitorTyped, GivesBack, PeakFollows
  <1>3. UsageAccounted'
    BY <1>1, Zenon DEF MonitorInv, UsageAccounted, Accounted, At
  <1>4. GrantedFits'
    BY <1>1, Zenon DEF MonitorInv, GrantedFits, Granted, Accounted, At
  <1> QED BY <1>2, <1>3, <1>4, Zenon DEF MonitorInv

LEMMA MonitorStart == setting \in Setting /\ MonitorInit => MonitorInv
  <1> SUFFICES ASSUME setting \in Setting, MonitorInit PROVE MonitorInv
    OBVIOUS
  <1>1. /\ current_usage = 0 /\ peak_usage = 0 /\ leaked = 0 /\ frames = 0
        /\ component_usage = [transport |-> 0, protocol |-> 0]
        /\ call = [c \in Clients |-> "none"] /\ new_usage = [c \in Clients |-> 0]
        /\ setting.frames \in Nat /\ setting.memory_limit \in Nat
    BY DEF MonitorInit, Setting
  <1>2. \A c \in Clients : call[c] = "none"
    BY <1>1
  <1>3. /\ {c \in Clients : call[c] \in {"peak", "cleanup", "account"}} = {}
        /\ {c \in Clients : call[c] \in {"release"}} = {} /\ Granted = {}
    BY <1>2 DEF Granted
  <1>4. Flying = 0 /\ Releasing = 0 /\ Given = 0
    BY <1>3, SizesOfNone, Zenon DEF Flying, Releasing, Given, At
  <1>5. Accounted = 0
    BY <1>1 DEF Accounted
  <1>6. SumsOK
    BY <1>1, <1>4, <1>5 DEF SumsOK
  <1>7. MonitorTyped
    BY <1>1 DEF MonitorTyped, Counts
  <1>8. GivesBack /\ PeakFollows
    BY <1>1, <1>2 DEF GivesBack, PeakFollows, Clients
  <1> QED BY <1>6, <1>7, <1>8, MonitorSums

LEMMA MonitorMoves ==
  ASSUME MonitorInv, setting' = setting, PoolNext
  PROVE  MonitorInv'
  <1>1. /\ Receiving \in Clients /\ Users \subseteq Clients
        /\ setting.frames \in Nat /\ frames \in 0 .. setting.frames
    BY DEF Clients, MonitorInv, MonitorTyped, Setting
  <1>2. ASSUME NEW u \in Users, Create(u) PROVE MonitorInv'
    <2>1. FetchAdd(u) /\ frames' \in 0 .. setting.frames /\ u \in Clients
      BY <1>1, <1>2 DEF Create
    <2> QED BY <2>1, FetchAddStep
  <1>3. ASSUME NEW u \in Users, AllocateErr(u) \/ PushActive(u) PROVE MonitorInv'
    <2>1. u \in Clients
      BY <1>1
    <2>2. /\ call[u] = "refused" \/ (call[u] = "ok" /\ u \in Users)
          /\ call' = [call EXCEPT ![u] = "none"]
          /\ UNCHANGED <<current_usage, peak_usage, component_usage, new_usage, frames, leaked>>
      BY <1>3, Zenon DEF AllocateErr, PushActive
    <2> QED BY <2>1, <2>2, CallOverStep, Zenon
  <1>4. ASSUME NEW c \in Clients, UpdatePeak(c) \/ Cleanup(c) \/ Account(c) PROVE MonitorInv'
    BY <1>4, UpdatePeakStep, CleanupStep, AccountStep
  <1>5. CASE ReceiveFrame
    <2>1. FetchAdd(Receiving) /\ frames' \in 0 .. setting.frames
      BY <1>1, <1>5 DEF ReceiveFrame
    <2> QED BY <1>1, <2>1, FetchAddStep
  <1>6. CASE DropFrame
    BY <1>1, <1>6, CallOverStep, Zenon DEF DropFrame
  <1>7. CASE FetchSub(Receiving) \/ Release(Receiving)
    BY <1>7, FetchSubStep, ReleaseStep
  <1>8. CASE UNCHANGED monitorVars
    BY <1>8, MonitorStays
  <1> QED BY <1>2, <1>3, <1>4, <1>5, <1>6, <1>7, <1>8, Zenon DEF PoolNext, MonitorNext

(* What the two invariants say of the pool and of the monitor. *)
LEMMA PoolInvSound == PoolInv /\ MonitorInv => PoolSound
  <1> SUFFICES ASSUME PoolInv, MonitorInv PROVE PoolSound
    OBVIOUS
  <1>1. Exclusive
    <2>1. \A u \in Users : user[u].holds \notin Elements(available)
      <3> SUFFICES ASSUME NEW u \in Users PROVE user[u].holds \notin Elements(available)
        OBVIOUS
      <3>1. user[u].pc \in {"idle", "check", "create", "allocate", "held"} /\ Holding(u)
        BY DEF PoolInv, PoolTyped
      <3>2. None \notin Elements(available)
        BY SettingAssumption DEF PoolInv, PoolTyped, ListsApart
      <3> QED BY <3>1, <3>2 DEF Holding
    <2> QED BY <2>1, Zenon DEF Exclusive, PoolInv, ListsApart, UsersApart, Once
  <1>2. HeldIsActive
    BY DEF HeldIsActive, PoolInv, Holding
  <1>3. WithinLimit
    <2>1. /\ {c \in Clients : call[c] \in {"account"}} \in SUBSET Clients
          /\ Granted \in SUBSET Clients
          /\ {c \in Clients : call[c] \in {"account"}} \subseteq Granted
      BY DEF Granted
    <2>2. At({"account"}) \in Nat /\ At({"account"}) <= Given
      BY <2>1, SizesFacts, Zenon DEF At, Given
    <2>3. SumsOK /\ setting.memory_limit \in Nat
      BY MonitorSums DEF MonitorTyped, Setting
    <2>4. Accounted + At({"account"}) <= setting.memory_limit + Releasing
      <3>1. PICK a : a = At({"account"})
        OBVIOUS
      <3> QED BY <2>2, <2>3, <3>1, SumsTyped DEF SumsOK, SumsType
    <2> QED BY <2>4, Zenon DEF WithinLimit, Releasing
  <1>4. PeakKnown
    BY DEF PeakKnown, MonitorInv, PeakFollows
  <1>5. MonitorSound
    BY <1>3, <1>4, Zenon DEF MonitorSound, MonitorInv
  <1>6. MonitorTypeOK
    BY DEF MonitorTypeOK, MonitorInv, MonitorTyped
  <1>7. PoolTypeOK
    <2>1. Elements(available) \cup Elements(active) \subseteq 1 .. created
      BY DEF PoolInv, ListsApart
    <2>2. \A u \in Users : user[u].pc \in {"idle", "check", "create", "allocate", "held"}
      BY DEF PoolInv, PoolTyped
    <2>3. created \in 0 .. setting.connections
      BY DEF PoolInv, PoolTyped, Setting
    <2> QED BY <1>6, <2>1, <2>2, <2>3, Zenon DEF PoolTypeOK
  <1> QED BY <1>1, <1>2, <1>5, <1>7, Zenon DEF PoolSound

-----------------------------------------------------------------------------
(* Beside the rest of the reception. *)
LEMMA PoolStarts == Init => PoolInv /\ MonitorInv
  <1> SUFFICES ASSUME Init PROVE PoolInv /\ MonitorInv
    OBVIOUS
  <1>1. setting \in Setting /\ PoolInit /\ MonitorInit
    BY SettingAssumption DEF Init
  <1> QED BY <1>1, PoolStart, MonitorStart

LEMMA PoolStep == PoolInv /\ MonitorInv /\ [Next]_vars => PoolInv' /\ MonitorInv'
  <1> SUFFICES ASSUME PoolInv, MonitorInv, [Next]_vars PROVE PoolInv' /\ MonitorInv'
    OBVIOUS
  <1>1. setting' = setting
    BY Zenon DEF Next, vars
  <1>2. CASE PoolNext
    BY <1>1, <1>2, PoolMoves, MonitorMoves
  <1>3. CASE UNCHANGED poolVars /\ UNCHANGED monitorVars
    BY <1>1, <1>3, PoolStays, MonitorStays
  <1>4. CASE Process
    BY <1>3, <1>4, Zenon DEF Process
  <1>5. UNCHANGED vars => UNCHANGED poolVars /\ UNCHANGED monitorVars
    BY Zenon DEF vars, system
  <1> QED BY <1>2, <1>3, <1>4, <1>5, Zenon DEF Next

LEMMA PoolAlways == Spec => [](PoolInv /\ MonitorInv)
  BY PoolStarts, PoolStep, PTL DEF Spec

(* Whatever the size of the pool, the number of its users and the limit of
   the memory: a connection is in one place at a time, one in use is on the
   active list, the total and the usage by component differ only by the
   calls in between and by what refused ones left behind, and what was
   granted stays within the limit (get_connection, PooledConnection::drop,
   allocate, deallocate). *)
THEOREM PoolIsSound == Spec => []PoolSound
  BY PoolAlways, PoolInvSound, PTL
=============================================================================
