---------------------------- MODULE HandlerProofs ---------------------------
(***************************************************************************)
(* The callbacks and the reads that wait for them, for any number of       *)
(* callbacks, readers and telegrams.  HandlerInv is inductive: it says     *)
(* what a read that is still waiting has missed so far (nothing), and who  *)
(* has been called for the telegram whose turn it is.                      *)
(***************************************************************************)
EXTENDS EventHandler, TLAPS

(* Removing from a sequence. *)
LEMMA DropAtFacts ==
  ASSUME NEW S, NEW s \in Seq(S), NEW i \in DOMAIN s
  PROVE  /\ DropAt(s, i) \in Seq(S) /\ Len(DropAt(s, i)) = Len(s) - 1
         /\ \A j \in DOMAIN DropAt(s, i) :
              \/ j < i /\ j \in DOMAIN s /\ DropAt(s, i)[j] = s[j]
              \/ j >= i /\ j + 1 \in DOMAIN s /\ DropAt(s, i)[j] = s[j + 1]
  <1>1. /\ Len(s) \in Nat /\ Len(s) >= 1 /\ DOMAIN s = 1 .. Len(s) /\ i \in 1 .. Len(s)
        /\ \A j \in 1 .. Len(s) : s[j] \in S
    OBVIOUS
  <1>2. DropAt(s, i) = [j \in 1 .. Len(s) - 1 |-> IF j < i THEN s[j] ELSE s[j + 1]]
    BY DEF DropAt
  <1>3. \A j \in 1 .. Len(s) - 1 : (IF j < i THEN s[j] ELSE s[j + 1]) \in S
    BY <1>1
  <1> DEFINE n == Len(s) - 1
  <1>4. n \in Nat
    BY <1>1
  <1>5. DropAt(s, i) \in [1 .. n -> S]
    BY <1>2, <1>3
  <1> HIDE DEF n
  <1>6. DropAt(s, i) \in Seq(S) /\ Len(DropAt(s, i)) = n /\ DOMAIN DropAt(s, i) = 1 .. n
    BY <1>4, <1>5
  <1>7. ASSUME NEW j \in 1 .. n
        PROVE  \/ j < i /\ j \in DOMAIN s /\ DropAt(s, i)[j] = s[j]
               \/ j >= i /\ j + 1 \in DOMAIN s /\ DropAt(s, i)[j] = s[j + 1]
    BY <1>1, <1>2, <1>4 DEF n
  <1> QED BY <1>6, <1>7 DEF n

(* What unregister_callback leaves of a list: entries of it, without the one
   of the id, in the same order. *)
LEMMA RemoveFacts ==
  ASSUME NEW S, NEW list \in Seq(S), NEW id,
         \A j, k \in DOMAIN list : list[j].id = list[k].id => j = k
  PROVE  /\ Remove(list, id) \in Seq(S)
         /\ \A j \in DOMAIN Remove(list, id) :
              \E k \in DOMAIN list : Remove(list, id)[j] = list[k]
         /\ \A j \in DOMAIN Remove(list, id) : Remove(list, id)[j].id # id
         /\ \A j, k \in DOMAIN Remove(list, id) :
              Remove(list, id)[j].id = Remove(list, id)[k].id => j = k
  <1>1. CASE \E i \in DOMAIN list : list[i].id = id
    <2>1. PICK i \in DOMAIN list : list[i].id = id /\ Remove(list, id) = DropAt(list, i)
      BY <1>1, Zenon DEF Remove
    <2> DEFINE new == Remove(list, id)
    <2>2. /\ new \in Seq(S) /\ DOMAIN list = 1 .. Len(list) /\ Len(list) \in Nat
          /\ DOMAIN new = 1 .. Len(list) - 1
          /\ \A j \in DOMAIN new :
              \/ j < i /\ j \in DOMAIN list /\ new[j] = list[j]
              \/ j >= i /\ j + 1 \in DOMAIN list /\ new[j] = list[j + 1]
      BY <2>1, DropAtFacts
    <2> HIDE DEF new
    <2> DEFINE at(j) == IF j < i THEN j ELSE j + 1
    <2>3. ASSUME NEW j \in DOMAIN new
          PROVE  at(j) \in DOMAIN list /\ at(j) # i /\ new[j] = list[at(j)]
      BY <2>2
    <2>4. \A j, k \in DOMAIN new : at(j) = at(k) => j = k
      BY <2>2
    <2> HIDE DEF at
    <2>5. /\ \A j \in DOMAIN new : new[j].id # id
          /\ \A j, k \in DOMAIN new : new[j].id = new[k].id => j = k
      BY <2>1, <2>3, <2>4, Zenon
    <2> QED BY <2>2, <2>3, <2>5, Zenon DEF new
  <1>2. CASE ~\E i \in DOMAIN list : list[i].id = id
    <2>1. Remove(list, id) = list
      BY <1>2, Zenon DEF Remove
    <2> QED BY <1>2, <2>1, Zenon
  <1> QED BY <1>1, <1>2
-----------------------------------------------------------------------------
(* The callbacks and the reads that wait for them. *)
Entries == [id : Nat, owner : Readers \cup {"app"}, filter : SUBSET All]

HandlerTyped ==
    /\ telegram_callbacks \in Seq(Entries) /\ connection_callbacks \in Seq([id : Nat])
    /\ next_id \in Nat \ {0} /\ position \in Nat /\ busy \in BOOLEAN
    /\ reader \in [Readers -> ReaderStates]
    /\ first \in [Readers -> Telegrams \cup {None}]
    /\ notifying \in Telegrams \cup {None}

(* Handles are numbered, so that a new one is nobody's. *)
Numbered ==
    /\ \A i \in DOMAIN telegram_callbacks : telegram_callbacks[i].id \in 1 .. next_id - 1
    /\ \A i \in DOMAIN connection_callbacks : connection_callbacks[i].id \in 1 .. next_id - 1
Distinct ==
    /\ \A i, j \in DOMAIN telegram_callbacks :
          telegram_callbacks[i].id = telegram_callbacks[j].id => i = j
    /\ \A i, j \in DOMAIN connection_callbacks :
          connection_callbacks[i].id = connection_callbacks[j].id => i = j
    /\ \A i \in DOMAIN telegram_callbacks, j \in DOMAIN connection_callbacks :
          telegram_callbacks[i].id # connection_callbacks[j].id

(* The i-th callback has not been called yet for the telegram. *)
Pending(i) == i > position \/ (i = position /\ ~busy)

(* The entry of a read is called for every telegram.  Until it has been, the
   read has nothing, and what it should return is the telegram for which
   callbacks are being called. *)
Listens(r) == reader[r].pc \in {"send", "wait"}
ReadInv(r) ==
    /\ reader[r].handle < next_id
    /\ reader[r].pc \in {"idle", "register"} =>
          reader[r].handle = 0 /\ reader[r].rx = None /\ first[r] = None
    /\ reader[r].pc \in {"idle", "register", "send", "wait"} => reader[r].outcome = "none"
    /\ first[r] # None => first[r].destination = reader[r].address
    /\ \A i \in DOMAIN telegram_callbacks :
          telegram_callbacks[i].id = reader[r].handle => telegram_callbacks[i].filter = All
    /\ Listens(r) /\ reader[r].rx # None => reader[r].rx = first[r]
    /\ Listens(r) /\ reader[r].rx = None /\ first[r] # None =>
          \A i \in DOMAIN telegram_callbacks :
             telegram_callbacks[i].id = reader[r].handle =>
                notifying # None /\ first[r] = notifying /\ Pending(i)
    /\ /\ Listens(r) /\ reader[r].rx = None
       /\ notifying # None /\ notifying.destination = reader[r].address
       => first[r] # None
    /\ reader[r].outcome = "value" => reader[r].rx # None /\ reader[r].rx = first[r]

(* An entry of a reader is that of the read it is in. *)
Owned ==
    ~setting.cancels =>
       \A i \in DOMAIN telegram_callbacks :
          LET o == telegram_callbacks[i].owner
          IN  o \in Readers => /\ reader[o].pc \in {"send", "wait", "unregister"}
                              /\ telegram_callbacks[i].id = reader[o].handle

(* So far the callbacks that wanted the telegram have been called, in order. *)
CalledSoFar ==
    \E at \in [DOMAIN called -> DOMAIN meant] :
       /\ Elements(at) = {i \in DOMAIN meant : Matches(meant[i].filter, notifying) /\ ~Pending(i)}
       /\ \A k \in DOMAIN called : called[k] = meant[at[k]].id
       /\ \A k, l \in DOMAIN called : k < l => at[k] < at[l]
CallInv ==
    /\ notifying = None => ~busy
    /\ notifying # None =>
          /\ meant = telegram_callbacks /\ called \in Seq(Nat)
          /\ position \in 1 .. Len(telegram_callbacks) + 1
          /\ busy => position <= Len(telegram_callbacks)
          /\ CalledSoFar

HandlerInv ==
    /\ HandlerTyped /\ Numbered /\ Distinct /\ Owned /\ CallInv
    /\ \A r \in Readers : ReadInv(r)
-----------------------------------------------------------------------------
(* Lists that a handle leaves or a new one enters. *)
ListsTyped ==
    /\ telegram_callbacks \in Seq(Entries) /\ connection_callbacks \in Seq([id : Nat])
    /\ next_id \in Nat \ {0}
ListsInv == ListsTyped /\ Numbered /\ Distinct
(* Every entry was there before. *)
Shrinks ==
    \A i \in DOMAIN telegram_callbacks' :
       \E k \in DOMAIN telegram_callbacks : telegram_callbacks'[i] = telegram_callbacks[k]

LEMMA ListsUnregister ==
  ASSUME ListsInv, NEW id, UnregisterCallback(id)
  PROVE  /\ ListsInv' /\ Shrinks /\ next_id' = next_id
         /\ \A i \in DOMAIN telegram_callbacks' : telegram_callbacks'[i].id # id
  <1>1. /\ telegram_callbacks' = Remove(telegram_callbacks, id)
        /\ connection_callbacks' = Remove(connection_callbacks, id) /\ next_id' = next_id
    BY DEF UnregisterCallback
  <1>2. /\ telegram_callbacks' \in Seq(Entries) /\ Shrinks
        /\ \A i \in DOMAIN telegram_callbacks' : telegram_callbacks'[i].id # id
        /\ \A i, j \in DOMAIN telegram_callbacks' :
              telegram_callbacks'[i].id = telegram_callbacks'[j].id => i = j
    <2>1. /\ telegram_callbacks \in Seq(Entries)
          /\ \A i, j \in DOMAIN telegram_callbacks :
                telegram_callbacks[i].id = telegram_callbacks[j].id => i = j
      BY DEF ListsInv, ListsTyped, Distinct
    <2> QED BY <1>1, <2>1, RemoveFacts DEF Shrinks
  <1>3. /\ connection_callbacks' \in Seq([id : Nat])
        /\ \A i \in DOMAIN connection_callbacks' :
             \E k \in DOMAIN connection_callbacks :
                connection_callbacks'[i] = connection_callbacks[k]
        /\ \A i, j \in DOMAIN connection_callbacks' :
              connection_callbacks'[i].id = connection_callbacks'[j].id => i = j
    <2>1. /\ connection_callbacks \in Seq([id : Nat])
          /\ \A i, j \in DOMAIN connection_callbacks :
                connection_callbacks[i].id = connection_callbacks[j].id => i = j
      BY DEF ListsInv, ListsTyped, Distinct
    <2> QED BY <1>1, <2>1, RemoveFacts
  <1>4. Distinct'
    <2>1. ASSUME NEW i \in DOMAIN telegram_callbacks', NEW j \in DOMAIN connection_callbacks'
          PROVE  telegram_callbacks'[i].id # connection_callbacks'[j].id
      <3>1. PICK k \in DOMAIN telegram_callbacks :
               telegram_callbacks'[i] = telegram_callbacks[k]
        BY <1>2, Zenon DEF Shrinks
      <3>2. PICK l \in DOMAIN connection_callbacks :
               connection_callbacks'[j] = connection_callbacks[l]
        BY <1>3, Zenon
      <3> QED BY <3>1, <3>2, Zenon DEF ListsInv, Distinct
    <2> QED BY <1>2, <1>3, <2>1, Zenon DEF Distinct
  <1>5. Numbered'
    BY <1>1, <1>2, <1>3, Zenon DEF ListsInv, Numbered, Shrinks
  <1> QED BY <1>1, <1>2, <1>3, <1>4, <1>5, Zenon DEF ListsInv, ListsTyped

LEMMA ListsCleared ==
  ASSUME ListsInv, telegram_callbacks' = <<>>, connection_callbacks' = <<>>, next_id' = next_id
  PROVE  ListsInv' /\ Shrinks
  BY DEF ListsInv, ListsTyped, Numbered, Distinct, Shrinks

(* What is appended to a sequence. *)
LEMMA AppendFacts ==
  ASSUME NEW S, NEW s \in Seq(S), NEW x \in S
  PROVE  /\ Append(s, x) \in Seq(S) /\ Len(Append(s, x)) = Len(s) + 1
         /\ DOMAIN s = 1 .. Len(s) /\ DOMAIN Append(s, x) = DOMAIN s \cup {Len(s) + 1}
         /\ Len(s) + 1 \notin DOMAIN s /\ Append(s, x)[Len(s) + 1] = x
         /\ \A i \in DOMAIN s : Append(s, x)[i] = s[i]
  OBVIOUS

LEMMA ListsPush ==
  ASSUME ListsInv, NEW owner \in Readers \cup {"app"}, NEW filter \in SUBSET All,
         PushEntry(owner, filter)
  PROVE  /\ ListsInv' /\ next_id' = next_id + 1
         /\ \A i \in DOMAIN telegram_callbacks' :
              \/ telegram_callbacks'[i] = [id |-> next_id, owner |-> owner, filter |-> filter]
              \/ \E k \in DOMAIN telegram_callbacks :
                    telegram_callbacks'[i] = telegram_callbacks[k]
  <1> DEFINE e == [id |-> next_id, owner |-> owner, filter |-> filter]
             n == Len(telegram_callbacks) + 1
  <1>1. /\ telegram_callbacks' = Append(telegram_callbacks, e) /\ next_id' = next_id + 1
        /\ UNCHANGED connection_callbacks
    BY Zenon DEF PushEntry
  <1>2. e \in Entries /\ e.id = next_id
    BY DEF ListsInv, ListsTyped, Entries
  <1> HIDE DEF e
  <1>3. /\ telegram_callbacks' \in Seq(Entries) /\ n \notin DOMAIN telegram_callbacks
        /\ DOMAIN telegram_callbacks' = DOMAIN telegram_callbacks \cup {n}
        /\ telegram_callbacks'[n] = e
        /\ \A i \in DOMAIN telegram_callbacks : telegram_callbacks'[i] = telegram_callbacks[i]
    BY <1>1, <1>2, AppendFacts DEF ListsInv, ListsTyped
  <1> HIDE DEF n
  <1>4. /\ next_id \in Nat \ {0} /\ next_id \in 1 .. next_id' - 1
        /\ \A k \in 1 .. next_id - 1 : k \in 1 .. next_id' - 1 /\ k # next_id
    BY <1>1 DEF ListsInv, ListsTyped
  <1>5. Numbered'
    BY <1>1, <1>2, <1>3, <1>4, Zenon DEF ListsInv, Numbered
  <1>6. Distinct'
    <2>1. /\ \A i \in DOMAIN telegram_callbacks : telegram_callbacks[i].id # next_id
          /\ \A i \in DOMAIN connection_callbacks : connection_callbacks[i].id # next_id
      BY <1>4, Zenon DEF ListsInv, Numbered
    <2>2. \A i, j \in DOMAIN telegram_callbacks' :
             telegram_callbacks'[i].id = telegram_callbacks'[j].id => i = j
      BY <1>2, <1>3, <2>1 DEF ListsInv, Distinct
    <2>3. \A i \in DOMAIN telegram_callbacks', j \in DOMAIN connection_callbacks :
             telegram_callbacks'[i].id # connection_callbacks[j].id
      BY <1>2, <1>3, <2>1 DEF ListsInv, Distinct
    <2> QED BY <1>1, <2>2, <2>3, Zenon DEF ListsInv, Distinct
  <1>7. next_id' \in Nat \ {0}
    BY <1>1, <1>4
  <1> QED BY <1>1, <1>3, <1>5, <1>6, <1>7, Zenon DEF ListsInv, ListsTyped, e
LEMMA ListsPushConnection ==
  ASSUME ListsInv, UNCHANGED telegram_callbacks, next_id' = next_id + 1,
         connection_callbacks' = Append(connection_callbacks, [id |-> next_id])
  PROVE  ListsInv'
  <1> DEFINE e == [id |-> next_id]
             n == Len(connection_callbacks) + 1
  <1>1. e \in [id : Nat] /\ e.id = next_id
    BY DEF ListsInv, ListsTyped
  <1>2. connection_callbacks' = Append(connection_callbacks, e)
    OBVIOUS
  <1> HIDE DEF e
  <1>3. /\ connection_callbacks' \in Seq([id : Nat]) /\ n \notin DOMAIN connection_callbacks
        /\ DOMAIN connection_callbacks' = DOMAIN connection_callbacks \cup {n}
        /\ connection_callbacks'[n] = e
        /\ \A i \in DOMAIN connection_callbacks :
              connection_callbacks'[i] = connection_callbacks[i]
    BY <1>1, <1>2, AppendFacts DEF ListsInv, ListsTyped
  <1> HIDE DEF n
  <1>4. /\ next_id \in Nat \ {0} /\ next_id \in 1 .. next_id' - 1
        /\ \A k \in 1 .. next_id - 1 : k \in 1 .. next_id' - 1 /\ k # next_id
    BY DEF ListsInv, ListsTyped
  <1>5. Numbered'
    BY <1>1, <1>3, <1>4, Zenon DEF ListsInv, Numbered
  <1>6. Distinct'
    <2>1. /\ \A i \in DOMAIN telegram_callbacks : telegram_callbacks[i].id # next_id
          /\ \A i \in DOMAIN connection_callbacks : connection_callbacks[i].id # next_id
      BY <1>4, Zenon DEF ListsInv, Numbered
    <2>2. \A i, j \in DOMAIN connection_callbacks' :
             connection_callbacks'[i].id = connection_callbacks'[j].id => i = j
      BY <1>1, <1>3, <2>1 DEF ListsInv, Distinct
    <2>3. \A i \in DOMAIN telegram_callbacks, j \in DOMAIN connection_callbacks' :
             telegram_callbacks[i].id # connection_callbacks'[j].id
      BY <1>1, <1>3, <2>1 DEF ListsInv, Distinct
    <2> QED BY <2>2, <2>3, Zenon DEF ListsInv, Distinct
  <1>7. next_id' \in Nat \ {0}
    BY <1>4
  <1> QED BY <1>3, <1>5, <1>6, <1>7, Zenon DEF ListsInv, ListsTyped

(* A read that a step does not touch, while nobody is notified: its entry is
   still its own, and none is new. *)
LEMMA ReadKept ==
  ASSUME HandlerInv, NEW r \in Readers, notifying = None, notifying' = None,
         reader'[r] = reader[r], first'[r] = first[r], next_id' \in {next_id, next_id + 1},
         \A i \in DOMAIN telegram_callbacks' :
            \/ telegram_callbacks'[i].id = next_id
            \/ \E k \in DOMAIN telegram_callbacks :
                  telegram_callbacks'[i] = telegram_callbacks[k]
  PROVE  ReadInv(r)'
  <1>1. /\ ReadInv(r) /\ next_id \in Nat /\ reader[r].handle \in Nat
    BY DEF HandlerInv, HandlerTyped, ReaderStates
  <1>2. reader[r].handle < next_id' /\ reader[r].handle # next_id
    BY <1>1 DEF ReadInv
  <1>3. ASSUME NEW i \in DOMAIN telegram_callbacks',
               telegram_callbacks'[i].id = reader[r].handle
        PROVE  \E k \in DOMAIN telegram_callbacks :
                  telegram_callbacks'[i] = telegram_callbacks[k]
    BY <1>2, <1>3
  <1>4. \A i \in DOMAIN telegram_callbacks' :
           telegram_callbacks'[i].id = reader[r].handle => telegram_callbacks'[i].filter = All
    BY <1>1, <1>3, Zenon DEF ReadInv
  <1>5. Listens(r) /\ reader[r].rx = None /\ first[r] # None =>
           \A i \in DOMAIN telegram_callbacks' : telegram_callbacks'[i].id # reader[r].handle
    BY <1>1, <1>3, Zenon DEF ReadInv
  <1> QED
    BY <1>1, <1>2, <1>4, <1>5, Zenon DEF ReadInv, Listens

(* The application changes the lists. *)
LEMMA AppStep ==
  ASSUME HandlerInv, setting' = setting, UNCHANGED <<notifyVars, reader, first>>,
         notifying = None, ListsInv', next_id' \in {next_id, next_id + 1},
         \A i \in DOMAIN telegram_callbacks' :
            \/ telegram_callbacks'[i].id = next_id /\ telegram_callbacks'[i].owner = "app"
            \/ \E k \in DOMAIN telegram_callbacks :
                  telegram_callbacks'[i] = telegram_callbacks[k]
  PROVE  HandlerInv'
  <1>1. notifying' = None /\ busy' = busy /\ position' = position
    BY DEF notifyVars
  <1>2. \A r \in Readers : ReadInv(r)'
    BY <1>1, ReadKept
  <1>3. Owned'
    <2>1. ASSUME ~setting.cancels, NEW i \in DOMAIN telegram_callbacks',
                 telegram_callbacks'[i].owner \in Readers
          PROVE  LET o == telegram_callbacks'[i].owner
                 IN  /\ reader[o].pc \in {"send", "wait", "unregister"}
                     /\ telegram_callbacks'[i].id = reader[o].handle
      <3>1. PICK k \in DOMAIN telegram_callbacks :
               telegram_callbacks'[i] = telegram_callbacks[k]
        BY <2>1, AppIsNoReader
      <3> QED BY <2>1, <3>1, Zenon DEF HandlerInv, Owned
    <2> QED BY <2>1, Zenon DEF Owned
  <1>4. CallInv'
    BY <1>1 DEF HandlerInv, CallInv
  <1>5. HandlerTyped'
    BY <1>1, Zenon DEF HandlerInv, HandlerTyped, ListsInv, ListsTyped
  <1> QED BY <1>2, <1>3, <1>4, <1>5, Zenon DEF HandlerInv, ListsInv

LEMMA HandlerLists == HandlerInv => ListsInv
  BY DEF HandlerInv, HandlerTyped, ListsInv, ListsTyped

LEMMA ApplicationSteps ==
  ASSUME HandlerInv, setting' = setting,
         \/ \E f \in SUBSET All : RegisterTelegramCallback(f)
         \/ \E id \in Nat : ApplicationUnregisters(id)
         \/ ClearAllCallbacks
  PROVE  HandlerInv'
  <1>0. ListsInv /\ next_id \in Nat
    BY HandlerLists DEF ListsInv, ListsTyped
  <1>1. ASSUME NEW f \in SUBSET All, RegisterTelegramCallback(f) PROVE HandlerInv'
    <2>1. /\ notifying = None /\ PushEntry("app", f) /\ UNCHANGED <<notifyVars, reader, first>>
      BY <1>1, Zenon DEF RegisterTelegramCallback, Unlocked
    <2>2. /\ ListsInv' /\ next_id' = next_id + 1
          /\ \A i \in DOMAIN telegram_callbacks' :
               \/ telegram_callbacks'[i] = [id |-> next_id, owner |-> "app", filter |-> f]
               \/ \E k \in DOMAIN telegram_callbacks :
                     telegram_callbacks'[i] = telegram_callbacks[k]
      BY <1>0, <2>1, ListsPush, Zenon
    <2>3. \A i \in DOMAIN telegram_callbacks' :
             \/ telegram_callbacks'[i].id = next_id /\ telegram_callbacks'[i].owner = "app"
             \/ \E k \in DOMAIN telegram_callbacks :
                   telegram_callbacks'[i] = telegram_callbacks[k]
      BY <2>2
    <2> QED BY <2>1, <2>2, <2>3, AppStep
  <1>2. ASSUME NEW id \in Nat, ApplicationUnregisters(id) PROVE HandlerInv'
    <2>1. /\ notifying = None /\ UnregisterCallback(id)
          /\ UNCHANGED <<notifyVars, reader, first>>
      BY <1>2, Zenon DEF ApplicationUnregisters, Unlocked
    <2> QED BY <1>0, <2>1, ListsUnregister, AppStep, Zenon DEF Shrinks
  <1>3. CASE ClearAllCallbacks
    <2>1. /\ notifying = None /\ UNCHANGED <<notifyVars, reader, first, next_id>>
          /\ telegram_callbacks' = <<>> /\ connection_callbacks' = <<>>
      BY <1>3, Zenon DEF ClearAllCallbacks, Unlocked
    <2> QED BY <1>0, <2>1, ListsCleared, AppStep, Zenon DEF Shrinks
  <1> QED BY <1>1, <1>2, <1>3, Zenon

LEMMA ConnectionStep ==
  ASSUME HandlerInv, setting' = setting, RegisterConnectionCallback
  PROVE  HandlerInv'
  <1>1. /\ connection_callbacks' = Append(connection_callbacks, [id |-> next_id])
        /\ next_id' = next_id + 1 /\ UNCHANGED <<telegram_callbacks, reader, first>>
        /\ UNCHANGED <<notifying, position, busy, called, meant>>
    BY Zenon DEF RegisterConnectionCallback, notifyVars
  <1>2. ListsInv'
    BY <1>1, HandlerLists, ListsPushConnection
  <1>3. ASSUME NEW r \in Readers PROVE reader[r].handle < next_id'
    <2>1. reader[r].handle < next_id /\ reader[r].handle \in Nat /\ next_id \in Nat
      BY DEF HandlerInv, ReadInv, HandlerTyped, ReaderStates
    <2> QED BY <1>1, <2>1
  <1>4. ASSUME NEW r \in Readers PROVE ReadInv(r)'
    <2>1. ReadInv(r)
      BY DEF HandlerInv
    <2> QED BY <1>1, <1>3, <2>1, Zenon DEF ReadInv, Listens, Pending
  <1>5. Owned' /\ CallInv'
    <2>1. CalledSoFar => CalledSoFar'
      BY <1>1 DEF CalledSoFar, Pending
    <2>2. CallInv'
      BY <1>1, <2>1, Zenon DEF HandlerInv, CallInv
    <2> QED BY <1>1, <2>2, Zenon DEF HandlerInv, Owned
  <1>6. HandlerTyped'
    BY <1>1, <1>2, Zenon DEF HandlerInv, HandlerTyped, ListsInv, ListsTyped
  <1> QED BY <1>2, <1>4, <1>5, <1>6, Zenon DEF HandlerInv, ListsInv

(* A read goes on and the lists stay as they are. *)
LEMMA ReadGoesOn ==
  ASSUME HandlerInv, setting' = setting, UNCHANGED <<entryVars, notifyVars>>,
         NEW r \in Readers, NEW s \in ReaderStates, reader' = [reader EXCEPT ![r] = s],
         first' \in [Readers -> Telegrams \cup {None}],
         \A q \in Readers : q # r => first'[q] = first[q],
         ReadInv(r)',
         \/ setting.cancels \/ reader[r].pc \in {"idle", "register"}
         \/ s.pc \in {"send", "wait", "unregister"} /\ s.handle = reader[r].handle
  PROVE  HandlerInv'
  <1>1. /\ UNCHANGED <<telegram_callbacks, connection_callbacks, next_id>>
        /\ UNCHANGED <<notifying, position, busy, called, meant>>
    BY Zenon DEF entryVars, notifyVars
  <1>2. /\ reader' \in [Readers -> ReaderStates] /\ reader'[r] = s
        /\ \A q \in Readers : q # r => reader'[q] = reader[q]
    BY DEF HandlerInv, HandlerTyped
  <1>3. ASSUME NEW q \in Readers, q # r PROVE ReadInv(q)'
    <2>1. ReadInv(q) /\ reader'[q] = reader[q] /\ first'[q] = first[q]
      BY <1>2, <1>3, Zenon DEF HandlerInv
    <2> QED BY <1>1, <2>1, Zenon DEF ReadInv, Listens, Pending
  <1>4. Owned'
    <2>1. ASSUME ~setting.cancels, NEW i \in DOMAIN telegram_callbacks,
                 telegram_callbacks[i].owner \in Readers
          PROVE  LET o == telegram_callbacks[i].owner
                 IN  /\ reader'[o].pc \in {"send", "wait", "unregister"}
                     /\ telegram_callbacks[i].id = reader'[o].handle
      <3>1. /\ reader[telegram_callbacks[i].owner].pc \in {"send", "wait", "unregister"}
            /\ telegram_callbacks[i].id = reader[telegram_callbacks[i].owner].handle
        BY <2>1, Zenon DEF HandlerInv, Owned
      <3>2. CASE telegram_callbacks[i].owner = r
        <4>1. ~(reader[r].pc \in {"idle", "register"})
          BY <3>1, <3>2
        <4> QED BY <1>2, <2>1, <3>1, <3>2, <4>1, Zenon
      <3>3. CASE telegram_callbacks[i].owner # r
        BY <1>2, <2>1, <3>1, <3>3, Zenon
      <3> QED BY <3>2, <3>3
    <2> QED BY <1>1, <2>1, Zenon DEF Owned
  <1>5. CallInv'
    <2>1. CalledSoFar => CalledSoFar'
      BY <1>1 DEF CalledSoFar, Pending
    <2> QED BY <1>1, <2>1, Zenon DEF HandlerInv, CallInv
  <1>6. HandlerTyped'
    BY <1>1, <1>2, Zenon DEF HandlerInv, HandlerTyped
  <1>7. Numbered' /\ Distinct'
    BY <1>1, Zenon DEF HandlerInv, Numbered, Distinct
  <1> QED BY <1>3, <1>4, <1>5, <1>6, <1>7, Zenon DEF HandlerInv

(* A read that has not registered, or is no longer there, waits for nothing. *)
LEMMA ReadBlank ==
  ASSUME HandlerInv, NEW r \in Readers, reader'[r].pc \in {"idle", "register"},
         reader'[r].handle = 0, reader'[r].rx = None, reader'[r].outcome = "none",
         first'[r] = None, ListsInv'
  PROVE  ReadInv(r)'
  <1>1. 0 < next_id' /\ \A i \in DOMAIN telegram_callbacks' : telegram_callbacks'[i].id # 0
    BY DEF ListsInv, ListsTyped, Numbered
  <1>2. ~Listens(r)' /\ reader'[r].outcome # "value"
    BY DEF Listens
  <1> QED BY <1>1, <1>2, Zenon DEF ReadInv

LEMMA ReadBeginStep ==
  ASSUME HandlerInv, setting' = setting, NEW r \in Readers, NEW a \in Groups,
         NEW dpt \in Dpts \cup {None}, ReadBegin(r, a, dpt)
  PROVE  HandlerInv'
  <1> DEFINE s == [Idle EXCEPT !.pc = "register", !.address = a, !.dpt = dpt]
  <1>1. /\ reader[r].pc = "idle" /\ reader' = [reader EXCEPT ![r] = s]
        /\ UNCHANGED <<entryVars, notifyVars, first>>
    BY Zenon DEF ReadBegin
  <1>2. /\ s \in ReaderStates /\ s.pc = "register" /\ s.handle = 0 /\ s.rx = None
        /\ s.outcome = "none"
    BY Zenon DEF Idle, ReaderStates
  <1> HIDE DEF s
  <1>3. /\ reader'[r] = s /\ first'[r] = None /\ first' \in [Readers -> Telegrams \cup {None}]
    BY <1>1 DEF HandlerInv, HandlerTyped, ReadInv
  <1>4. ListsInv'
    BY <1>1, HandlerLists, Zenon DEF entryVars, ListsInv, ListsTyped, Numbered, Distinct
  <1>5. ReadInv(r)'
    BY <1>2, <1>3, <1>4, ReadBlank
  <1> QED BY <1>1, <1>2, <1>3, <1>5, ReadGoesOn, Zenon

LEMMA ReadCancelStep ==
  ASSUME HandlerInv, setting' = setting, NEW r \in Readers, ReadCancel(r)
  PROVE  HandlerInv'
  <1>1. /\ setting.cancels /\ reader' = [reader EXCEPT ![r] = Idle]
        /\ first' = [first EXCEPT ![r] = None] /\ UNCHANGED <<entryVars, notifyVars>>
    BY Zenon DEF ReadCancel
  <1>2. /\ Idle \in ReaderStates /\ Idle.pc = "idle" /\ Idle.handle = 0 /\ Idle.rx = None
        /\ Idle.outcome = "none"
    BY DEF Idle, ReaderStates
  <1>3. /\ reader'[r] = Idle /\ first'[r] = None
        /\ first' \in [Readers -> Telegrams \cup {None}]
        /\ \A q \in Readers : q # r => first'[q] = first[q]
    BY <1>1 DEF HandlerInv, HandlerTyped
  <1>4. ListsInv'
    BY <1>1, HandlerLists, Zenon DEF entryVars, ListsInv, ListsTyped, Numbered, Distinct
  <1>5. ReadInv(r)'
    BY <1>2, <1>3, <1>4, ReadBlank
  <1> QED BY <1>1, <1>2, <1>3, <1>5, ReadGoesOn, Zenon

(* A read that has registered sends, waits, or is about to return. *)
LEMMA ReadMoves ==
  ASSUME HandlerInv, setting' = setting, UNCHANGED <<entryVars, notifyVars, first>>,
         NEW r \in Readers, NEW s \in ReaderStates, reader' = [reader EXCEPT ![r] = s],
         Listens(r), s.handle = reader[r].handle, s.rx = reader[r].rx,
         s.address = reader[r].address,
         \/ s.pc = "wait" /\ s.outcome = "none"
         \/ s.pc = "unregister" /\ (s.outcome = "value" => s.rx # None)
  PROVE  HandlerInv'
  <1>1. /\ UNCHANGED <<telegram_callbacks, connection_callbacks, next_id>>
        /\ UNCHANGED <<notifying, position, busy, called, meant, first>>
    BY Zenon DEF entryVars, notifyVars
  <1>2. reader'[r] = s /\ first \in [Readers -> Telegrams \cup {None}] /\ ReadInv(r)
    BY DEF HandlerInv, HandlerTyped
  <1>3. s.pc \in {"send", "wait", "unregister"} /\ ~(s.pc \in {"idle", "register"})
    OBVIOUS
  <1>4. CASE s.pc = "wait" /\ s.outcome = "none"
    <2>1. s.outcome # "value"
      BY <1>4
    <2>2. ReadInv(r)'
      BY <1>1, <1>2, <1>3, <1>4, <2>1, Zenon DEF ReadInv, Listens, Pending
    <2> QED BY <1>1, <1>2, <1>3, <2>2, ReadGoesOn, Zenon
  <1>5. CASE s.pc = "unregister" /\ (s.outcome = "value" => s.rx # None)
    <2>1. ~(s.pc \in {"idle", "register", "send", "wait"}) /\ ~(s.pc \in {"send", "wait"})
      BY <1>5
    <2>2. s.outcome = "value" => s.rx # None /\ s.rx = first[r]
      BY <1>2, <1>5, Zenon DEF ReadInv
    <2>3. ReadInv(r)'
      BY <1>1, <1>2, <1>3, <2>1, <2>2, Zenon DEF ReadInv, Listens
    <2> QED BY <1>1, <1>2, <1>3, <2>3, ReadGoesOn, Zenon
  <1> QED BY <1>4, <1>5

LEMMA ReadMoveSteps ==
  ASSUME HandlerInv, setting' = setting, NEW r \in Readers,
         ReadSend(r) \/ ReadSendErr(r) \/ ReadEnd(r)
  PROVE  HandlerInv'
  <1>0. /\ reader \in [Readers -> ReaderStates] /\ reader[r] \in ReaderStates /\ ReadInv(r)
    BY DEF HandlerInv, HandlerTyped
  <1>1. CASE ReadSend(r)
    <2> DEFINE s == [reader[r] EXCEPT !.pc = "wait"]
    <2>1. /\ reader' = [reader EXCEPT ![r] = s] /\ Listens(r)
          /\ UNCHANGED <<entryVars, notifyVars, first>>
      BY <1>0, <1>1 DEF ReadSend, Listens
    <2>2. /\ s \in ReaderStates /\ s.handle = reader[r].handle /\ s.rx = reader[r].rx
          /\ s.address = reader[r].address /\ s.pc = "wait" /\ s.outcome = "none"
      BY <1>0, <2>1 DEF ReaderStates, ReadInv, Listens
    <2> HIDE DEF s
    <2> QED BY <2>1, <2>2, ReadMoves, Zenon
  <1>2. CASE ReadSendErr(r)
    <2> DEFINE s == [reader[r] EXCEPT !.pc = "unregister", !.outcome = "error"]
    <2>1. /\ reader' = [reader EXCEPT ![r] = s] /\ Listens(r)
          /\ UNCHANGED <<entryVars, notifyVars, first>>
      BY <1>0, <1>2, Zenon DEF ReadSendErr, Listens
    <2>2. /\ s \in ReaderStates /\ s.handle = reader[r].handle /\ s.rx = reader[r].rx
          /\ s.address = reader[r].address /\ s.pc = "unregister" /\ s.outcome # "value"
      BY <1>0, <2>1, Zenon DEF ReaderStates, ReadInv, Listens
    <2> HIDE DEF s
    <2> QED BY <2>1, <2>2, ReadMoves, Zenon
  <1>3. CASE ReadEnd(r)
    <2> DEFINE s == [reader[r] EXCEPT !.pc = "unregister",
                        !.outcome = IF reader[r].rx = None THEN "timeout" ELSE "value"]
    <2>1. /\ reader' = [reader EXCEPT ![r] = s] /\ Listens(r)
          /\ UNCHANGED <<entryVars, notifyVars, first>>
      BY <1>0, <1>3 DEF ReadEnd, Listens
    <2>2. /\ s \in ReaderStates /\ s.handle = reader[r].handle /\ s.rx = reader[r].rx
          /\ s.address = reader[r].address /\ s.pc = "unregister"
          /\ (s.outcome = "value" => s.rx # None)
      BY <1>0, <2>1, Zenon DEF ReaderStates, ReadInv, Listens
    <2> HIDE DEF s
    <2> QED BY <2>1, <2>2, ReadMoves, Zenon
  <1> QED BY <1>1, <1>2, <1>3

(* Nobody is notified while a read registers or unregisters. *)
LEMMA ReadListStep ==
  ASSUME HandlerInv, setting' = setting, UNCHANGED notifyVars, notifying = None,
         NEW r \in Readers, NEW s \in ReaderStates, reader' = [reader EXCEPT ![r] = s],
         first' \in [Readers -> Telegrams \cup {None}],
         \A q \in Readers : q # r => first'[q] = first[q],
         ListsInv', next_id' \in {next_id, next_id + 1}, ReadInv(r)',
         \A i \in DOMAIN telegram_callbacks' :
            \/ /\ telegram_callbacks'[i].id = next_id /\ telegram_callbacks'[i].owner = r
               /\ s.pc = "send" /\ s.handle = next_id
            \/ \E k \in DOMAIN telegram_callbacks :
                  /\ telegram_callbacks'[i] = telegram_callbacks[k]
                  /\ \/ reader[r].pc \in {"idle", "register"}
                     \/ telegram_callbacks'[i].id # reader[r].handle
  PROVE  HandlerInv'
  <1>1. notifying' = None /\ busy' = busy /\ position' = position
    BY DEF notifyVars
  <1>2. /\ reader' \in [Readers -> ReaderStates] /\ reader'[r] = s
        /\ \A q \in Readers : q # r => reader'[q] = reader[q]
    BY DEF HandlerInv, HandlerTyped
  <1>3. ASSUME NEW q \in Readers, q # r PROVE ReadInv(q)'
    <2>1. \A i \in DOMAIN telegram_callbacks' :
             \/ telegram_callbacks'[i].id = next_id
             \/ \E k \in DOMAIN telegram_callbacks :
                   telegram_callbacks'[i] = telegram_callbacks[k]
      OBVIOUS
    <2> QED BY <1>1, <1>2, <1>3, <2>1, ReadKept, Zenon
  <1>4. Owned'
    <2>1. ASSUME ~setting.cancels, NEW i \in DOMAIN telegram_callbacks',
                 telegram_callbacks'[i].owner \in Readers
          PROVE  LET o == telegram_callbacks'[i].owner
                 IN  /\ reader'[o].pc \in {"send", "wait", "unregister"}
                     /\ telegram_callbacks'[i].id = reader'[o].handle
      <3>1. CASE /\ telegram_callbacks'[i].id = next_id /\ telegram_callbacks'[i].owner = r
                 /\ s.pc = "send" /\ s.handle = next_id
        BY <1>2, <3>1
      <3>2. CASE \E k \in DOMAIN telegram_callbacks :
                    /\ telegram_callbacks'[i] = telegram_callbacks[k]
                    /\ \/ reader[r].pc \in {"idle", "register"}
                       \/ telegram_callbacks'[i].id # reader[r].handle
        <4>1. PICK k \in DOMAIN telegram_callbacks :
                    /\ telegram_callbacks'[i] = telegram_callbacks[k]
                    /\ \/ reader[r].pc \in {"idle", "register"}
                       \/ telegram_callbacks'[i].id # reader[r].handle
          BY <3>2, Zenon
        <4>2. LET o == telegram_callbacks'[i].owner
              IN  /\ reader[o].pc \in {"send", "wait", "unregister"}
                  /\ telegram_callbacks'[i].id = reader[o].handle
          BY <2>1, <4>1, Zenon DEF HandlerInv, Owned
        <4>3. telegram_callbacks'[i].owner # r
          BY <4>1, <4>2
        <4> QED BY <1>2, <2>1, <4>2, <4>3, Zenon
      <3> QED BY <3>1, <3>2, Zenon
    <2> QED BY <2>1, Zenon DEF Owned
  <1>5. CallInv'
    BY <1>1 DEF HandlerInv, CallInv
  <1>6. HandlerTyped'
    BY <1>1, <1>2, Zenon DEF HandlerInv, HandlerTyped, ListsInv, ListsTyped
  <1> QED BY <1>3, <1>4, <1>5, <1>6, Zenon DEF HandlerInv, ListsInv

LEMMA ReadRegisterStep ==
  ASSUME HandlerInv, setting' = setting, NEW r \in Readers, ReadRegister(r)
  PROVE  HandlerInv'
  <1> DEFINE s == [reader[r] EXCEPT !.pc = "send", !.handle = next_id]
  <1>0. /\ reader \in [Readers -> ReaderStates] /\ reader[r] \in ReaderStates /\ ReadInv(r)
        /\ next_id \in Nat /\ first \in [Readers -> Telegrams \cup {None}]
    BY DEF HandlerInv, HandlerTyped
  <1>1. /\ reader[r].pc = "register" /\ notifying = None /\ PushEntry(r, All)
        /\ UNCHANGED notifyVars /\ first' = first
    BY Zenon DEF ReadRegister, Unlocked
  <1>2. reader' = [reader EXCEPT ![r] = s]
    BY <1>0, Zenon DEF ReadRegister
  <1>3. /\ s \in ReaderStates /\ s.pc = "send" /\ s.handle = next_id
        /\ s.rx = None /\ s.outcome = "none" /\ first[r] = None
    BY <1>0, <1>1, Zenon DEF ReaderStates, ReadInv
  <1> HIDE DEF s
  <1>4. /\ ListsInv' /\ next_id' = next_id + 1
        /\ \A i \in DOMAIN telegram_callbacks' :
             \/ telegram_callbacks'[i] = [id |-> next_id, owner |-> r, filter |-> All]
             \/ \E k \in DOMAIN telegram_callbacks :
                   telegram_callbacks'[i] = telegram_callbacks[k]
    BY <1>1, HandlerLists, ListsPush, Zenon
  <1>5. \A k \in DOMAIN telegram_callbacks : telegram_callbacks[k].id # next_id
    BY <1>0 DEF HandlerInv, Numbered
  <1>6. \A i \in DOMAIN telegram_callbacks' :
           \/ telegram_callbacks'[i].id = next_id /\ telegram_callbacks'[i].owner = r
           \/ \E k \in DOMAIN telegram_callbacks :
                 telegram_callbacks'[i] = telegram_callbacks[k]
    BY <1>4
  <1>7. \A i \in DOMAIN telegram_callbacks' :
           telegram_callbacks'[i].id = next_id => telegram_callbacks'[i].filter = All
    BY <1>4, <1>5
  <1>8. ReadInv(r)'
    <2>1. /\ reader'[r] = s /\ s.handle < next_id' /\ s.outcome # "value" /\ first'[r] = None
          /\ ~(s.pc \in {"idle", "register"})
      BY <1>0, <1>1, <1>2, <1>3, <1>4
    <2>2. notifying' = None
      BY <1>1 DEF notifyVars
    <2> QED BY <1>3, <1>7, <2>1, <2>2, Zenon DEF ReadInv
  <1>9. \A i \in DOMAIN telegram_callbacks' :
            \/ /\ telegram_callbacks'[i].id = next_id /\ telegram_callbacks'[i].owner = r
               /\ s.pc = "send" /\ s.handle = next_id
            \/ \E k \in DOMAIN telegram_callbacks :
                  /\ telegram_callbacks'[i] = telegram_callbacks[k]
                  /\ \/ reader[r].pc \in {"idle", "register"}
                     \/ telegram_callbacks'[i].id # reader[r].handle
    BY <1>1, <1>3, <1>6
  <1>10. next_id' \in {next_id, next_id + 1}
    BY <1>4
  <1> QED BY <1>0, <1>1, <1>2, <1>3, <1>4, <1>8, <1>9, <1>10, ReadListStep, Zenon

LEMMA ReadUnregisterStep ==
  ASSUME HandlerInv, setting' = setting, NEW r \in Readers, ReadUnregister(r)
  PROVE  HandlerInv'
  <1>1. /\ notifying = None /\ UnregisterCallback(reader[r].handle)
        /\ reader' = [reader EXCEPT ![r] = Idle] /\ first' = [first EXCEPT ![r] = None]
        /\ UNCHANGED notifyVars
    BY Zenon DEF ReadUnregister, Unlocked
  <1>2. /\ ListsInv' /\ Shrinks /\ next_id' = next_id
        /\ \A i \in DOMAIN telegram_callbacks' : telegram_callbacks'[i].id # reader[r].handle
    BY <1>1, HandlerLists, ListsUnregister, Zenon
  <1>3. /\ Idle \in ReaderStates /\ Idle.pc = "idle" /\ Idle.handle = 0 /\ Idle.rx = None
        /\ Idle.outcome = "none"
    BY DEF Idle, ReaderStates
  <1>4. /\ reader'[r] = Idle /\ first'[r] = None
        /\ first' \in [Readers -> Telegrams \cup {None}]
        /\ \A q \in Readers : q # r => first'[q] = first[q]
    BY <1>1 DEF HandlerInv, HandlerTyped
  <1>5. ReadInv(r)'
    BY <1>2, <1>3, <1>4, ReadBlank
  <1>6. \A i \in DOMAIN telegram_callbacks' :
            \E k \in DOMAIN telegram_callbacks :
               /\ telegram_callbacks'[i] = telegram_callbacks[k]
               /\ \/ reader[r].pc \in {"idle", "register"}
                  \/ telegram_callbacks'[i].id # reader[r].handle
    BY <1>2, Zenon DEF Shrinks
  <1>7. next_id' \in {next_id, next_id + 1}
    BY <1>2
  <1> QED BY <1>1, <1>2, <1>3, <1>4, <1>5, <1>6, <1>7, ReadListStep, Zenon
-----------------------------------------------------------------------------
(* The calls of the callbacks. *)

(* A step of the notification that leaves the lists as they are. *)
LEMMA NotifyKeeps ==
  ASSUME HandlerInv, setting' = setting, UNCHANGED entryVars,
         reader' \in [Readers -> ReaderStates], first' \in [Readers -> Telegrams \cup {None}],
         notifying' \in Telegrams \cup {None}, position' \in Nat, busy' \in BOOLEAN,
         \A r \in Readers : reader'[r].pc = reader[r].pc /\ reader'[r].handle = reader[r].handle,
         \A r \in Readers : ReadInv(r)', CallInv'
  PROVE  HandlerInv'
  <1>1. UNCHANGED <<telegram_callbacks, connection_callbacks, next_id>>
    BY Zenon DEF entryVars
  <1>2. HandlerTyped'
    BY <1>1, Zenon DEF HandlerInv, HandlerTyped
  <1>3. Numbered' /\ Distinct'
    BY <1>1, Zenon DEF HandlerInv, Numbered, Distinct
  <1>4. Owned'
    BY <1>1, Zenon DEF HandlerInv, Owned
  <1> QED BY <1>2, <1>3, <1>4, Zenon DEF HandlerInv

LEMMA NotifyStep ==
  ASSUME HandlerInv, setting' = setting, NEW t \in Telegrams, notifying = None, Notify(t)
  PROVE  HandlerInv'
  <1>1. /\ notifying' = t /\ position' = 1 /\ called' = <<>> /\ meant' = telegram_callbacks
        /\ UNCHANGED <<entryVars, busy, reader>>
        /\ first' = [r \in Readers |->
                   IF /\ reader[r].pc \in {"send", "wait"} /\ first[r] = None
                      /\ t.destination = reader[r].address
                   THEN t ELSE first[r]]
    BY Zenon DEF Notify
  <1>2. /\ UNCHANGED <<telegram_callbacks, connection_callbacks, next_id>>
        /\ telegram_callbacks \in Seq(Entries) /\ busy = FALSE
    BY <1>1 DEF entryVars, HandlerInv, CallInv, HandlerTyped
  <1>3. \A i \in DOMAIN telegram_callbacks : Pending(i)'
    BY <1>1, <1>2 DEF Pending
  <1>4. ASSUME NEW r \in Readers PROVE ReadInv(r)'
    <2>1. ReadInv(r) /\ t # None
      BY NoneIsNoTelegram DEF HandlerInv
    <2>2. CASE /\ Listens(r) /\ first[r] = None /\ t.destination = reader[r].address
      <3>1. first'[r] = t
        BY <1>1, <2>2 DEF Listens
      <3>2. ~(reader[r].pc \in {"idle", "register"}) /\ reader[r].outcome # "value"
        BY <2>1, <2>2 DEF Listens, ReadInv
      <3>3. reader[r].rx = None
        BY <2>1, <2>2, Zenon DEF ReadInv
      <3> QED BY <1>1, <1>2, <1>3, <2>1, <2>2, <3>1, <3>2, <3>3, Zenon DEF ReadInv, Listens
    <2>3. CASE ~(Listens(r) /\ first[r] = None /\ t.destination = reader[r].address)
      <3>1. first'[r] = first[r]
        BY <1>1, <2>3 DEF Listens
      <3> QED BY <1>1, <1>2, <1>3, <2>1, <2>3, <3>1, Zenon DEF ReadInv, Listens
    <2> QED BY <2>2, <2>3
  <1>5. first' \in [Readers -> Telegrams \cup {None}]
    BY <1>1 DEF HandlerInv, HandlerTyped
  <1>6. CallInv'
    <2>1. CalledSoFar'
      <3>1. {i \in DOMAIN meant' : Matches(meant'[i].filter, notifying') /\ ~Pending(i)'} = {}
        BY <1>1, <1>3
      <3>2. <<>> \in [DOMAIN called' -> DOMAIN meant'] /\ Elements(<<>>) = {}
        BY <1>1 DEF Elements
      <3>3. \A k \in DOMAIN called' : FALSE
        BY <1>1
      <3> QED BY <3>1, <3>2, <3>3, Zenon DEF CalledSoFar
    <2>2. 1 \in 1 .. Len(telegram_callbacks) + 1 /\ called' \in Seq(Nat)
      BY <1>1, <1>2
    <2>3. t # None
      BY NoneIsNoTelegram
    <2> QED BY <1>1, <1>2, <2>1, <2>2, <2>3 DEF CallInv
  <1> QED BY <1>1, <1>2, <1>4, <1>5, <1>6, NotifyKeeps DEF HandlerInv, HandlerTyped

LEMMA CallEndStep ==
  ASSUME HandlerInv, setting' = setting, CallEnd
  PROVE  HandlerInv'
  <1>1. /\ busy /\ busy' = FALSE /\ position' = position + 1
        /\ UNCHANGED <<entryVars, notifying, called, meant, reader, first>>
        /\ UNCHANGED <<telegram_callbacks, next_id>>
    BY DEF CallEnd, entryVars
  <1>2. /\ position \in Nat /\ telegram_callbacks \in Seq(Entries) /\ notifying # None
        /\ position <= Len(telegram_callbacks) /\ meant = telegram_callbacks
        /\ called \in Seq(Nat) /\ CalledSoFar
    BY <1>1 DEF HandlerInv, HandlerTyped, CallInv
  <1>3. \A i \in DOMAIN telegram_callbacks : Pending(i)' <=> Pending(i)
    BY <1>1, <1>2 DEF Pending
  <1>4. ASSUME NEW r \in Readers PROVE ReadInv(r)'
    <2>1. ReadInv(r)
      BY DEF HandlerInv
    <2> QED BY <1>1, <1>3, <2>1, Zenon DEF ReadInv, Listens
  <1>5. CallInv'
    <2>1. CalledSoFar'
      BY <1>1, <1>2, <1>3 DEF CalledSoFar
    <2>2. position' \in 1 .. Len(telegram_callbacks) + 1 /\ position' \in Nat
      BY <1>1, <1>2
    <2> QED BY <1>1, <1>2, <2>1, <2>2, Zenon DEF CallInv
  <1>6. position' \in Nat
    BY <1>1, <1>2
  <1>7. busy' \in BOOLEAN
    BY <1>1, Zenon
  <1> QED BY <1>1, <1>4, <1>5, <1>6, <1>7, NotifyKeeps, Zenon DEF HandlerInv, HandlerTyped

LEMMA NotifyEndStep ==
  ASSUME HandlerInv, setting' = setting, NotifyEnd
  PROVE  HandlerInv'
  <1>1. /\ notifying # None /\ ~busy /\ position > Len(telegram_callbacks)
        /\ notifying' = None /\ position' = 0
        /\ UNCHANGED <<entryVars, busy, reader, first>>
        /\ UNCHANGED <<telegram_callbacks, next_id>>
    BY DEF NotifyEnd, entryVars
  <1>2. \A i \in DOMAIN telegram_callbacks : ~Pending(i)
    BY <1>1 DEF HandlerInv, HandlerTyped, Pending
  <1>3. ASSUME NEW r \in Readers PROVE ReadInv(r)'
    <2>1. ReadInv(r)
      BY DEF HandlerInv
    <2> QED BY <1>1, <1>2, <2>1, Zenon DEF ReadInv, Listens
  <1>4. CallInv'
    BY <1>1 DEF CallInv
  <1> QED BY <1>1, <1>3, <1>4, NotifyKeeps DEF HandlerInv, HandlerTyped

(* A callback is skipped: it is none of a read. *)
LEMMA SkipStep ==
  ASSUME HandlerInv, setting' = setting, CallNext,
         ~Matches(telegram_callbacks[position].filter, notifying)
  PROVE  HandlerInv'
  <1>1. /\ notifying # None /\ ~busy /\ position \in DOMAIN telegram_callbacks
        /\ position' = position + 1
        /\ UNCHANGED <<entryVars, notifying, busy, called, meant, reader, first>>
        /\ UNCHANGED <<telegram_callbacks, next_id>>
    BY DEF CallNext, entryVars
  <1>2. /\ position \in Nat /\ telegram_callbacks \in Seq(Entries)
        /\ meant = telegram_callbacks /\ called \in Seq(Nat) /\ CalledSoFar
        /\ notifying \in Telegrams
    BY <1>1 DEF HandlerInv, HandlerTyped, CallInv
  <1>3. \A i \in DOMAIN telegram_callbacks : Pending(i)' <=> Pending(i) /\ i # position
    BY <1>1, <1>2 DEF Pending
  <1>4. telegram_callbacks[position].filter # All
    BY <1>2 DEF Matches, All, Telegrams
  <1>5. ASSUME NEW r \in Readers PROVE ReadInv(r)'
    <2>1. ReadInv(r)
      BY DEF HandlerInv
    <2>2. \A i \in DOMAIN telegram_callbacks :
             telegram_callbacks[i].id = reader[r].handle /\ Pending(i) => Pending(i)'
      BY <1>3, <1>4, <2>1, Zenon DEF ReadInv
    <2> QED BY <1>1, <2>1, <2>2, Zenon DEF ReadInv, Listens
  <1>6. CallInv'
    <2>1. CalledSoFar'
      <3>1. {i \in DOMAIN meant : Matches(meant[i].filter, notifying) /\ ~Pending(i)'}
            = {i \in DOMAIN meant : Matches(meant[i].filter, notifying) /\ ~Pending(i)}
        BY <1>2, <1>3
      <3>2. PICK at \in [DOMAIN called -> DOMAIN meant] :
               /\ Elements(at) = {i \in DOMAIN meant : /\ Matches(meant[i].filter, notifying)
                                                      /\ ~Pending(i)'}
               /\ \A k \in DOMAIN called : called[k] = meant[at[k]].id
               /\ \A k, l \in DOMAIN called : k < l => at[k] < at[l]
        BY <1>2, <3>1, Zenon DEF CalledSoFar
      <3> QED BY <1>1, <3>2, Zenon DEF CalledSoFar
    <2>2. position' \in 1 .. Len(telegram_callbacks) + 1 /\ position' \in Nat
      BY <1>1, <1>2
    <2> QED BY <1>1, <1>2, <2>1, <2>2, Zenon DEF CallInv
  <1>7. position' \in Nat
    BY <1>1, <1>2
  <1>8. busy' \in BOOLEAN
    BY <1>1, Zenon DEF HandlerInv, HandlerTyped
  <1> QED BY <1>1, <1>5, <1>6, <1>7, <1>8, NotifyKeeps, Zenon DEF HandlerInv, HandlerTyped

(* A callback is called: a read that owns it has its telegram. *)
LEMMA CallStep ==
  ASSUME HandlerInv, setting' = setting, CallNext,
         Matches(telegram_callbacks[position].filter, notifying)
  PROVE  HandlerInv'
  <1>1. /\ notifying # None /\ ~busy /\ position \in DOMAIN telegram_callbacks
        /\ called' = Append(called, telegram_callbacks[position].id)
        /\ reader' = Deliver(telegram_callbacks[position].id)
        /\ busy' = TRUE /\ position' = position
        /\ UNCHANGED <<entryVars, notifying, meant, first>>
        /\ UNCHANGED <<telegram_callbacks, next_id>>
    BY DEF CallNext, entryVars
  <1>2. /\ position \in Nat /\ telegram_callbacks \in Seq(Entries)
        /\ meant = telegram_callbacks /\ called \in Seq(Nat) /\ CalledSoFar
        /\ notifying \in Telegrams /\ reader \in [Readers -> ReaderStates]
    BY <1>1 DEF HandlerInv, HandlerTyped, CallInv
  <1>3. \A i \in DOMAIN telegram_callbacks : Pending(i)' <=> Pending(i) /\ i # position
    BY <1>1, <1>2 DEF Pending
  <1>0. telegram_callbacks[position].id \in Nat
    <2>1. telegram_callbacks[position] \in Entries
      BY <1>1, <1>2
    <2> QED BY <2>1 DEF Entries
  <1> DEFINE d(r) == [reader[r] EXCEPT !.rx = notifying]
             Gets(r) == /\ reader[r].handle = telegram_callbacks[position].id
                        /\ notifying.destination = reader[r].address /\ reader[r].rx = None
  <1>4. ASSUME NEW r \in Readers
        PROVE  /\ d(r) \in ReaderStates /\ d(r).pc = reader[r].pc
               /\ d(r).handle = reader[r].handle /\ d(r).address = reader[r].address
               /\ d(r).outcome = reader[r].outcome /\ d(r).rx = notifying
    <2>1. reader[r] \in ReaderStates
      BY <1>2
    <2> QED BY <1>2, <2>1 DEF ReaderStates
  <1> HIDE DEF d
  <1>5. ASSUME NEW r \in Readers PROVE reader'[r] = IF Gets(r) THEN d(r) ELSE reader[r]
    BY <1>1 DEF Deliver, d
  <1>6. /\ reader' \in [Readers -> ReaderStates]
        /\ \A r \in Readers : reader'[r].pc = reader[r].pc /\ reader'[r].handle = reader[r].handle
    <2>1. reader' = [r \in Readers |-> IF Gets(r) THEN d(r) ELSE reader[r]]
      BY <1>1, Zenon DEF Deliver, d
    <2>2. \A r \in Readers : (IF Gets(r) THEN d(r) ELSE reader[r]) \in ReaderStates
      BY <1>2, <1>4
    <2> QED BY <1>4, <1>5, <2>1, <2>2
  <1>7. ASSUME NEW r \in Readers PROVE ReadInv(r)'
    <2>1. ReadInv(r)
      BY DEF HandlerInv
    <2>2. CASE Gets(r)
      <3>1. reader'[r] = d(r)
        BY <1>5, <2>2
      <3>2. reader[r].handle # 0
        BY <1>1, <1>2, <2>2 DEF HandlerInv, Numbered
      <3>3. Listens(r) => first[r] = notifying
        BY <1>1, <2>1, <2>2, Zenon DEF ReadInv
      <3>4. reader[r].outcome # "value" /\ ~(reader[r].pc \in {"idle", "register"})
        BY <2>1, <2>2, <3>2, Zenon DEF ReadInv
      <3> QED BY <1>1, <1>4, <2>1, <3>1, <3>3, <3>4, Zenon DEF ReadInv, Listens
    <2>3. CASE ~Gets(r)
      <3>1. reader'[r] = reader[r]
        BY <1>5, <2>3
      <3>2. Listens(r) /\ reader[r].rx = None /\ first[r] # None =>
               \A i \in DOMAIN telegram_callbacks :
                  telegram_callbacks[i].id = reader[r].handle => Pending(i)'
        BY <1>3, <2>1, <2>3, Zenon DEF ReadInv
      <3> QED BY <1>1, <2>1, <3>1, <3>2, Zenon DEF ReadInv, Listens
    <2> QED BY <2>2, <2>3
  <1>8. CalledSoFar'
    <2> DEFINE n == Len(called)
               S == {i \in DOMAIN meant : Matches(meant[i].filter, notifying) /\ ~Pending(i)}
    <2>1. PICK at \in [DOMAIN called -> DOMAIN meant] :
             /\ Elements(at) = S
             /\ \A k \in DOMAIN called : called[k] = meant[at[k]].id
             /\ \A k, l \in DOMAIN called : k < l => at[k] < at[l]
      BY <1>2, Zenon DEF CalledSoFar
    <2>2. /\ {i \in DOMAIN meant' : Matches(meant'[i].filter, notifying') /\ ~Pending(i)'}
             = S \cup {position}
          /\ \A i \in S : i \in Nat /\ i < position
      BY <1>1, <1>2, <1>3 DEF Pending
    <2> HIDE DEF S
    <2>3. /\ n \in Nat /\ DOMAIN called = 1 .. n /\ DOMAIN called' = 1 .. n + 1
          /\ \A k \in 1 .. n : called'[k] = called[k]
          /\ called'[n + 1] = telegram_callbacks[position].id
      BY <1>1, <1>2, <1>0
    <2> HIDE DEF n
    <2> DEFINE on == [k \in 1 .. n + 1 |-> IF k = n + 1 THEN position ELSE at[k]]
    <2>4. /\ on[n + 1] = position /\ n + 1 \in DOMAIN called'
          /\ \A k \in DOMAIN called : k \in DOMAIN called' /\ on[k] = at[k]
          /\ \A k \in DOMAIN called' : k = n + 1 \/ k \in DOMAIN called
      BY <2>3
    <2>5. DOMAIN on = DOMAIN called' /\ on = [k \in DOMAIN on |-> on[k]]
      BY <2>3
    <2> HIDE DEF on
    <2>6. on \in [DOMAIN called' -> DOMAIN meant']
      BY <1>1, <1>2, <2>4, <2>5
    <2>7. Elements(on) = S \cup {position}
      BY <2>1, <2>4, <2>5 DEF Elements
    <2>8. \A k \in DOMAIN called' : called'[k] = meant'[on[k]].id
      BY <1>1, <1>2, <2>1, <2>3, <2>4
    <2>9. \A k, l \in DOMAIN called' : k < l => on[k] < on[l]
      <3>1. \A k \in DOMAIN called : at[k] < position
        BY <2>1, <2>2 DEF Elements
      <3> QED BY <2>1, <2>3, <2>4, <3>1
    <2> QED BY <2>2, <2>6, <2>7, <2>8, <2>9, Zenon DEF CalledSoFar
  <1>9. CallInv'
    <2>1. /\ position \in 1 .. Len(telegram_callbacks) + 1
          /\ position <= Len(telegram_callbacks) /\ called' \in Seq(Nat)
      BY <1>1, <1>2, <1>0
    <2> QED BY <1>1, <1>2, <1>8, <2>1, Zenon DEF CallInv
  <1>10. busy' \in BOOLEAN
    BY <1>1
  <1> QED BY <1>1, <1>2, <1>6, <1>7, <1>9, <1>10, NotifyKeeps, Zenon DEF HandlerInv, HandlerTyped

-----------------------------------------------------------------------------
LEMMA HandlerStart == HandlerInit => HandlerInv
  <1> SUFFICES ASSUME HandlerInit PROVE HandlerInv
    OBVIOUS
  <1>1. /\ telegram_callbacks = <<>> /\ connection_callbacks = <<>> /\ next_id = 1
        /\ notifying = None /\ position = 0 /\ busy = FALSE
        /\ reader = [r \in Readers |-> Idle] /\ first = [r \in Readers |-> None]
    BY DEF HandlerInit
  <1>2. /\ Idle \in ReaderStates /\ Idle.pc = "idle" /\ Idle.handle = 0 /\ Idle.rx = None
        /\ Idle.outcome = "none"
    BY DEF Idle, ReaderStates
  <1>3. HandlerTyped /\ Numbered /\ Distinct /\ Owned
    <2>1. busy \in BOOLEAN
      BY <1>1, Zenon
    <2>2. /\ telegram_callbacks \in Seq(Entries) /\ connection_callbacks \in Seq([id : Nat])
          /\ next_id \in Nat \ {0} /\ position \in Nat
          /\ \A i \in DOMAIN telegram_callbacks : FALSE
          /\ \A i \in DOMAIN connection_callbacks : FALSE
      BY <1>1
    <2>3. reader \in [Readers -> ReaderStates] /\ first \in [Readers -> Telegrams \cup {None}]
      BY <1>1, <1>2
    <2> QED
      BY <1>1, <2>1, <2>2, <2>3, Zenon DEF HandlerTyped, Numbered, Distinct, Owned
  <1>4. CallInv
    BY <1>1 DEF CallInv
  <1>5. \A r \in Readers : ReadInv(r)
    BY <1>1, <1>2 DEF ReadInv, Listens
  <1> QED BY <1>3, <1>4, <1>5 DEF HandlerInv

LEMMA HandlerStays == HandlerInv /\ setting' = setting /\ UNCHANGED handlerVars => HandlerInv'
  <1> SUFFICES ASSUME HandlerInv, setting' = setting, UNCHANGED handlerVars PROVE HandlerInv'
    OBVIOUS
  <1>1. /\ UNCHANGED <<telegram_callbacks, connection_callbacks, next_id, reader, first>>
        /\ UNCHANGED <<notifying, position, busy, called, meant, entryVars>>
    BY Zenon DEF handlerVars, entryVars, notifyVars
  <1>2. ASSUME NEW r \in Readers PROVE ReadInv(r)'
    <2>1. ReadInv(r)
      BY DEF HandlerInv
    <2> QED BY <1>1, <2>1, Zenon DEF ReadInv, Listens, Pending
  <1>3. CallInv'
    <2>1. CalledSoFar => CalledSoFar'
      BY <1>1 DEF CalledSoFar, Pending
    <2> QED BY <1>1, <2>1, Zenon DEF HandlerInv, CallInv
  <1> QED BY <1>1, <1>2, <1>3, NotifyKeeps, Zenon DEF HandlerInv, HandlerTyped

LEMMA HandlerMoves ==
  ASSUME HandlerInv, setting' = setting, HandlerNext
  PROVE  HandlerInv'
  <1>0. /\ telegram_callbacks \in Seq(Entries) /\ connection_callbacks \in Seq([id : Nat])
    BY DEF HandlerInv, HandlerTyped
  <1>1. CASE \E f \in (SUBSET (setting.destinations \cap Groups)) \cup {All} :
                RegisterTelegramCallback(f)
    <2>1. (SUBSET (setting.destinations \cap Groups)) \cup {All} \subseteq SUBSET All
      BY DEF All
    <2> QED BY <1>1, <2>1, ApplicationSteps
  <1>2. CASE \E i \in DOMAIN telegram_callbacks :
                ApplicationUnregisters(telegram_callbacks[i].id)
    <2>1. PICK i \in DOMAIN telegram_callbacks :
             ApplicationUnregisters(telegram_callbacks[i].id)
      BY <1>2
    <2>2. telegram_callbacks[i] \in Entries
      BY <1>0
    <2>3. telegram_callbacks[i].id \in Nat
      BY <2>2 DEF Entries
    <2> QED BY <2>1, <2>3, ApplicationSteps, Zenon
  <1>3. CASE \E i \in DOMAIN connection_callbacks :
                ApplicationUnregisters(connection_callbacks[i].id)
    <2>1. PICK i \in DOMAIN connection_callbacks :
             ApplicationUnregisters(connection_callbacks[i].id)
      BY <1>3
    <2>2. connection_callbacks[i].id \in 1 .. next_id - 1 /\ next_id \in Nat
      BY Zenon DEF HandlerInv, HandlerTyped, Numbered
    <2>3. connection_callbacks[i].id \in Nat
      BY <2>2
    <2> QED BY <2>1, <2>3, ApplicationSteps, Zenon
  <1>4. CASE RegisterConnectionCallback \/ ClearAllCallbacks
    BY <1>4, ConnectionStep, ApplicationSteps
  <1>5. CASE NotifySteps \/ CallReturn
    BY <1>5, CallStep, SkipStep, CallEndStep, NotifyEndStep, Zenon
       DEF NotifySteps, CallReturn, CallTimeout
  <1>6. CASE \E r \in Readers : \E a \in setting.destinations \cap Groups : ReadBegin(r, a, None)
    BY <1>6, ReadBeginStep
  <1>7. CASE \E r \in Readers : ReadSteps(r) \/ ReadCancel(r)
    BY <1>7, ReadRegisterStep, ReadMoveSteps, ReadUnregisterStep, ReadCancelStep, Zenon
       DEF ReadSteps
  <1> QED BY <1>1, <1>2, <1>3, <1>4, <1>5, <1>6, <1>7, Zenon DEF HandlerNext

(* What the invariant says of reads and of notifications. *)
LEMMA HandlerInvReads == HandlerInv => ReadsSound /\ HandlerTypeOK
  <1> SUFFICES ASSUME HandlerInv PROVE ReadsSound /\ HandlerTypeOK
    OBVIOUS
  <1>1. ReadReturnsFirst
    BY Zenon DEF ReadReturnsFirst, HandlerInv, ReadInv
  <1>2. NoCallbackLeaks
    BY DEF NoCallbackLeaks, HandlerInv, Owned
  <1>3. HandlesDistinct
    <2> DEFINE all == telegram_callbacks \o connection_callbacks
               n == Len(telegram_callbacks)
    <2>1. /\ telegram_callbacks \in Seq(Entries) /\ connection_callbacks \in Seq([id : Nat])
          /\ n \in Nat
      BY DEF HandlerInv, HandlerTyped
    <2>2. ASSUME NEW i \in DOMAIN all
          PROVE  \/ /\ i \in DOMAIN telegram_callbacks /\ all[i] = telegram_callbacks[i]
                    /\ i \in Nat
                 \/ /\ i - n \in DOMAIN connection_callbacks
                    /\ all[i] = connection_callbacks[i - n] /\ i \in Nat
      BY <2>1
    <2> HIDE DEF all, n
    <2>3. ASSUME NEW i \in DOMAIN all, NEW j \in DOMAIN all, all[i].id = all[j].id
          PROVE  i = j
      <3> DEFINE First(k) == /\ k \in DOMAIN telegram_callbacks
                             /\ all[k] = telegram_callbacks[k]
                 Second(k) == /\ k - n \in DOMAIN connection_callbacks
                              /\ all[k] = connection_callbacks[k - n]
      <3>1. (First(i) \/ Second(i)) /\ (First(j) \/ Second(j)) /\ i \in Nat /\ j \in Nat
        BY <2>2
      <3>2. CASE First(i) /\ First(j)
        BY <2>3, <3>2, Zenon DEF HandlerInv, Distinct
      <3>3. CASE Second(i) /\ Second(j)
        <4>1. i - n = j - n
          BY <2>3, <3>3, Zenon DEF HandlerInv, Distinct
        <4> QED BY <2>1, <3>1, <4>1
      <3>4. CASE (First(i) /\ Second(j)) \/ (Second(i) /\ First(j))
        BY <2>3, <3>4, Zenon DEF HandlerInv, Distinct
      <3> QED BY <3>1, <3>2, <3>3, <3>4, Zenon
    <2> QED BY <2>3 DEF HandlesDistinct, all
  <1>4. HandlerTypeOK
    <2>1. telegram_callbacks \in Seq(Entries)
      BY DEF HandlerInv, HandlerTyped
    <2>2. \A i \in DOMAIN telegram_callbacks : telegram_callbacks[i].owner \in Readers \cup {"app"}
      <3>1. \A i \in DOMAIN telegram_callbacks : telegram_callbacks[i] \in Entries
        BY <2>1
      <3> QED BY <3>1 DEF Entries
    <2> QED BY <2>2, Zenon DEF HandlerInv, HandlerTyped, Numbered, HandlerTypeOK
  <1> QED BY <1>1, <1>2, <1>3, <1>4 DEF ReadsSound

LEMMA HandlerInvCalls == HandlerInv => EveryoneIsCalled
  <1> SUFFICES ASSUME HandlerInv, notifying # None, ~busy, position > Len(telegram_callbacks)
               PROVE  EveryoneIsCalled
    BY Zenon DEF EveryoneIsCalled
  <1>1. /\ telegram_callbacks \in Seq(Entries) /\ position \in Nat
        /\ meant = telegram_callbacks /\ CalledSoFar
    BY DEF HandlerInv, HandlerTyped, CallInv
  <1>2. {i \in DOMAIN meant : Matches(meant[i].filter, notifying) /\ ~Pending(i)}
        = {i \in DOMAIN meant : Matches(meant[i].filter, notifying)}
    BY <1>1 DEF Pending
  <1> QED BY <1>1, <1>2, Zenon DEF CalledSoFar, EveryoneIsCalled
=============================================================================
