---------------------------- MODULE EventHandler ----------------------------
(***************************************************************************)
(* The callbacks (application/callbacks.rs) and the call that is built on  *)
(* them, Knx::read_group_value.  When connection callbacks are called is   *)
(* part of KnxLifecycle.                                                   *)
(*                                                                         *)
(* notify_telegram_received holds the read lock from the first callback to *)
(* the last, so whoever registers or unregisters waits for the write lock  *)
(* until it is done; a callback that does so itself waits for the          *)
(* notification it is part of, until its own time-out ends it.             *)
(***************************************************************************)
EXTENDS ReceptionSetting

ASSUME AppIsNoReader == "app" \notin Readers

VARIABLES
    telegram_callbacks,  \* the entries: id, owner, and the filter
    connection_callbacks, \* their entries: id
    next_id,
    notifying,           \* the telegram callbacks are being called for, or None
    position,            \* the entry whose turn it is
    busy,                \* its callback is running
    called,              \* history: ids called for this telegram
    meant,               \* history: the entries when it began
    reader,              \* reader[r]: pc, handle, address, the DPT to decode
                         \* with (None if the caller wants bytes), rx, outcome
    first,               \* history: first[r]: the telegram r should return
    reads, churn, sendErrors

entryVars == <<telegram_callbacks, connection_callbacks, next_id>>
notifyVars == <<notifying, position, busy, called, meant>>
handlerVars == <<entryVars, notifyVars, reader, first, reads, churn, sendErrors>>

ReaderStates ==
    [pc : {"idle", "register", "send", "wait", "unregister"}, handle : Nat,
     address : Groups \cup {None}, dpt : Dpts \cup {None}, rx : Telegrams \cup {None},
     outcome : {"none", "value", "timeout", "error"}]
Idle == [pc |-> "idle", handle |-> 0, address |-> None, dpt |-> None, rx |-> None,
         outcome |-> "none"]

HandlerInit ==
    /\ telegram_callbacks = <<>> /\ connection_callbacks = <<>> /\ next_id = 1
    /\ notifying = None /\ position = 0 /\ busy = FALSE /\ called = <<>> /\ meant = <<>>
    /\ reader = [r \in Readers |-> Idle] /\ first = [r \in Readers |-> None]
    /\ reads = 0 /\ churn = 0 /\ sendErrors = 0

(* The write lock is free. *)
UnlockedAlways == TRUE
Unlocked == notifying = None

(* TelegramFilter::matches, a filter being the set of the destinations it
   lets through: some group addresses, those of a range, or all.  Telegrams
   that come in are never "outgoing". *)
All == Groups \cup {Individual}
Matches(filter, telegram) == telegram.destination \in filter

PushEntry(owner, filter) ==
    /\ telegram_callbacks' = Append(telegram_callbacks,
                                    [id |-> next_id, owner |-> owner, filter |-> filter])
    /\ next_id' = next_id + 1
    /\ UNCHANGED connection_callbacks

(* unregister_callback tries both lists: the entry at the position of the
   id, if there is one, is removed. *)
Remove(list, id) ==
    IF \E i \in DOMAIN list : list[i].id = id
    THEN LET i == CHOOSE i \in DOMAIN list : list[i].id = id
         IN  DropAt(list, i)
    ELSE list
UnregisterCallback(id) ==
    /\ telegram_callbacks' = Remove(telegram_callbacks, id)
    /\ connection_callbacks' = Remove(connection_callbacks, id)
    /\ UNCHANGED next_id

-----------------------------------------------------------------------------
(* The application. *)
RegisterTelegramCallback(filter) ==
    /\ Unlocked /\ churn < setting.churn
    /\ churn' = churn + 1
    /\ PushEntry("app", filter)
    /\ UNCHANGED <<notifyVars, reader, first, reads, sendErrors>>

RegisterConnectionCallback ==
    /\ churn < setting.churn
    /\ churn' = churn + 1
    /\ connection_callbacks' = Append(connection_callbacks, [id |-> next_id])
    /\ next_id' = next_id + 1
    /\ UNCHANGED <<telegram_callbacks, notifyVars, reader, first, reads, sendErrors>>

ApplicationUnregisters(id) ==
    /\ Unlocked
    /\ UnregisterCallback(id)
    /\ UNCHANGED <<notifyVars, reader, first, reads, churn, sendErrors>>

ClearAllCallbacks ==
    /\ Unlocked /\ churn < setting.churn
    /\ churn' = churn + 1
    /\ telegram_callbacks' = <<>> /\ connection_callbacks' = <<>>
    /\ UNCHANGED <<next_id, notifyVars, reader, first, reads, sendErrors>>

-----------------------------------------------------------------------------
(* notify_telegram_received. *)
Notify(telegram) ==
    /\ notifying' = telegram
    /\ position' = 1
    /\ called' = <<>>
    /\ meant' = telegram_callbacks
    /\ first' = [r \in Readers |->
                   IF /\ reader[r].pc \in {"send", "wait"} /\ first[r] = None
                      /\ telegram.destination = reader[r].address
                   THEN telegram ELSE first[r]]
    /\ UNCHANGED <<entryVars, busy, reader, reads, churn, sendErrors>>

(* GroupValueReadCallback: any telegram to the address has a payload, for
   parse_cemi_to_telegram gives a GroupValueRead the byte of its APCI.  The
   channel has room for one. *)
Deliver(id) ==
    [r \in Readers |->
       IF /\ reader[r].handle = id /\ notifying.destination = reader[r].address
          /\ reader[r].rx = None
       THEN [reader[r] EXCEPT !.rx = notifying] ELSE reader[r]]

(* The next entry is skipped or its callback called. *)
CallNext ==
    /\ notifying # None /\ ~busy /\ position \in DOMAIN telegram_callbacks
    /\ LET e == telegram_callbacks[position]
       IN  \/ /\ Matches(e.filter, notifying)
              /\ called' = Append(called, e.id)
              /\ reader' = Deliver(e.id)
              /\ busy' = TRUE
              /\ UNCHANGED position
           \/ /\ ~Matches(e.filter, notifying)
              /\ position' = position + 1
              /\ UNCHANGED <<called, reader, busy>>
    /\ UNCHANGED <<entryVars, notifying, meant, first, reads,
                   churn, sendErrors>>

(* It returns, unless it waits for the lock. *)
CallEnd ==
    /\ busy /\ busy' = FALSE
    /\ position' = position + 1
    /\ UNCHANGED <<entryVars, notifying, called, meant, reader,
                   first, reads, churn, sendErrors>>
CallReturn ==
    /\ busy
    /\ ~(setting.reentrant /\ telegram_callbacks[position].owner = "app")
    /\ CallEnd

(* It is cut off after 50 ms. *)
CallTimeoutMissing == FALSE
CallTimeout == CallEnd

NotifyEnd ==
    /\ notifying # None /\ ~busy /\ position > Len(telegram_callbacks)
    /\ notifying' = None /\ position' = 0 /\ called' = <<>> /\ meant' = <<>>
    /\ UNCHANGED <<entryVars, busy, reader, first, reads, churn,
                   sendErrors>>

-----------------------------------------------------------------------------
(* read_group_value: register, send, wait, unregister.  It is called with an
   address, or by TypedGroupAddress::read, which then decodes the bytes. *)
ReadBegin(r, address, dpt) ==
    /\ reader[r].pc = "idle" /\ reads < setting.reads
    /\ reads' = reads + 1
    /\ reader' = [reader EXCEPT ![r] = [Idle EXCEPT !.pc = "register", !.address = address,
                                                    !.dpt = dpt]]
    /\ UNCHANGED <<entryVars, notifyVars, first, churn, sendErrors>>

ReadRegister(r) ==
    /\ reader[r].pc = "register" /\ Unlocked
    /\ PushEntry(r, All)
    /\ reader' = [reader EXCEPT ![r].pc = "send", ![r].handle = next_id]
    /\ UNCHANGED <<notifyVars, first, reads, churn, sendErrors>>

ReadSend(r) ==
    /\ reader[r].pc = "send"
    /\ reader' = [reader EXCEPT ![r].pc = "wait"]
    /\ UNCHANGED <<entryVars, notifyVars, first, reads, churn,
                   sendErrors>>

ReadSendErr(r) ==
    /\ reader[r].pc = "send" /\ sendErrors < setting.sendErrors
    /\ sendErrors' = sendErrors + 1
    /\ reader' = [reader EXCEPT ![r].pc = "unregister", ![r].outcome = "error"]
    /\ UNCHANGED <<entryVars, notifyVars, first, reads, churn>>

(* The time-out looks into the channel first. *)
ReadEndEarly(r) ==
    /\ reader[r].pc = "wait"
    /\ reader' = [reader EXCEPT ![r] =
                    [@ EXCEPT !.pc = IF reader[r].rx = None THEN "idle" ELSE "unregister",
                              !.outcome = IF reader[r].rx = None THEN "timeout" ELSE "value"]]
    /\ UNCHANGED <<entryVars, notifyVars, first, reads, churn,
                   sendErrors>>
ReadEnd(r) ==
    /\ reader[r].pc = "wait"
    /\ reader' = [reader EXCEPT ![r] =
                    [@ EXCEPT !.pc = "unregister",
                              !.outcome = IF reader[r].rx = None THEN "timeout" ELSE "value"]]
    /\ UNCHANGED <<entryVars, notifyVars, first, reads, churn,
                   sendErrors>>

ReadUnregister(r) ==
    /\ reader[r].pc = "unregister" /\ Unlocked
    /\ UnregisterCallback(reader[r].handle)
    /\ reader' = [reader EXCEPT ![r] = Idle]
    /\ first' = [first EXCEPT ![r] = None]
    /\ UNCHANGED <<notifyVars, reads, churn, sendErrors>>

(* The caller drops the future: nothing runs that would unregister. *)
ReadCancel(r) ==
    /\ setting.cancels /\ reader[r].pc # "idle"
    /\ reader' = [reader EXCEPT ![r] = Idle]
    /\ first' = [first EXCEPT ![r] = None]
    /\ UNCHANGED <<entryVars, notifyVars, reads, churn,
                   sendErrors>>

ReadSteps(r) ==
    \/ ReadRegister(r) \/ ReadSend(r) \/ ReadSendErr(r)
    \/ ReadEnd(r) \/ ReadUnregister(r)

NotifySteps == CallNext \/ CallTimeout \/ NotifyEnd

HandlerNext ==
    \/ \E f \in (SUBSET (setting.destinations \cap Groups)) \cup {All} :
          RegisterTelegramCallback(f)
    \/ \E i \in DOMAIN telegram_callbacks :
          /\ telegram_callbacks[i].owner = "app"
          /\ ApplicationUnregisters(telegram_callbacks[i].id)
    \/ \E i \in DOMAIN connection_callbacks : ApplicationUnregisters(connection_callbacks[i].id)
    \/ RegisterConnectionCallback \/ ClearAllCallbacks \/ NotifySteps \/ CallReturn
    \/ \E r \in Readers : \/ \E a \in setting.destinations \cap Groups : ReadBegin(r, a, None)
                          \/ ReadSteps(r) \/ ReadCancel(r)

(* Tasks are polled; a call of a callback is done or cut off. *)
HandlerFairness ==
    /\ WF_handlerVars(NotifySteps \/ CallReturn)
    /\ \A r \in Readers : WF_handlerVars(ReadSteps(r))

-----------------------------------------------------------------------------
HandlerTypeOK ==
    /\ next_id \in Nat \ {0}
    /\ \A i \in DOMAIN telegram_callbacks :
          /\ telegram_callbacks[i].id \in 1 .. next_id - 1
          /\ telegram_callbacks[i].owner \in Readers \cup {"app"}
    /\ reader \in [Readers -> ReaderStates]
    /\ notifying \in Telegrams \cup {None}

(* Every callback that was registered when the notification began is called
   once, in the order of registration, however the application registers
   and unregisters meanwhile ("in registration order",
   notify_telegram_received). *)
EveryoneIsCalled ==
    notifying # None /\ ~busy /\ position > Len(telegram_callbacks)
       => \E at \in [DOMAIN called -> DOMAIN meant] :
            /\ Elements(at) = {i \in DOMAIN meant : Matches(meant[i].filter, notifying)}
            /\ \A k \in DOMAIN called : called[k] = meant[at[k]].id
            /\ \A k, l \in DOMAIN called : k < l => at[k] < at[l]

(* The value a read returns is that of the first telegram to its address
   that was delivered after it began; later ones do not replace it.  (What
   kind of telegram that was, read_group_value does not ask.) *)
ReadReturnsFirst ==
    \A r \in Readers :
       reader[r].outcome = "value" => reader[r].rx = first[r]

(* A read that has returned leaves no callback behind, whether it returned a
   value, an error or a time-out; one whose future is dropped does. *)
NoCallbackLeaks ==
    ~setting.cancels =>
       \A i \in DOMAIN telegram_callbacks :
          LET o == telegram_callbacks[i].owner
          IN  o \in Readers => reader[o].pc # "idle"

(* A handle names one callback of the two lists together, so that a read
   that unregisters its own takes nobody else's away. *)
HandlesDistinct ==
    \A i, j \in DOMAIN (telegram_callbacks \o connection_callbacks) :
       LET all == telegram_callbacks \o connection_callbacks
       IN  all[i].id = all[j].id => i = j

(* A read gives its caller the right value and leaves the handler as it was
   (read_group_value). *)
ReadsSound == ReadReturnsFirst /\ NoCallbackLeaks /\ HandlesDistinct

(* Every read returns, although it needs a lock that notifications hold. *)
ReadsReturn == \A r \in Readers : [](reader[r].pc # "idle" => <>(reader[r].pc = "idle"))

(* The doc comment of read_group_value: "wait for the matching
   `GroupValueResponse` payload" (knx.rs:1365). *)
ReadReturnsResponse ==
    \A r \in Readers :
       reader[r].outcome = "value" => reader[r].rx.kind = "Response"
=============================================================================
