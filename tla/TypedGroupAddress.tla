------------------------- MODULE TypedGroupAddress -------------------------
(***************************************************************************)
(* Handles that tie a group address to a data point type (Knx::group_      *)
(* address, TypedGroupAddress in application/knx.rs).                      *)
(*                                                                         *)
(* A handle outlives the binding it was made from.  So read, write and     *)
(* decode first ask the registry whether the binding is still the          *)
(* handle's; read and write then await, and do not ask again.              *)
(***************************************************************************)
EXTENDS EventHandler, GroupRegistry

ASSUME WriteIsNoReader == "write" \notin Readers

VARIABLES
    handles,    \* the handles that were given out: address, dpt
    writing,    \* the handle whose write is between check and send, or None
    sent,       \* history: what handles have written: address, dpt
    writes,     \* writes so far
    undone      \* history: the calls in progress (readers, "write") whose
                \* address has been unregistered since they began

typedVars == <<handles, writing, sent, writes, undone>>

TypedInit == handles = {} /\ writing = None /\ sent = {} /\ writes = 0 /\ undone = {}

Handle(a, dpt) == [address |-> a, dpt |-> dpt]

(* check_dpt_current. *)
CheckBound(h) == Bound(h.address)
CheckDptCurrent(h) == BoundTo(h.address, h.dpt)

(* group_address: registers the address unless it is bound already, which
   must be to the same DPT. *)
GroupAddress(a, dpt) ==
    /\ Cardinality(handles) < setting.handles
    /\ \/ Register(a, dpt)
       \/ BoundTo(a, dpt) /\ UNCHANGED registryVars
    /\ handles' = handles \cup {Handle(a, dpt)}
    /\ UNCHANGED <<handlerVars, writing, sent, writes, undone>>

(* read: the check, then read_group_value, whose last step decodes. *)
TypedRead(r, h) ==
    /\ CheckDptCurrent(h)
    /\ ReadBegin(r, h.address, h.dpt)
    /\ undone' = undone \ {r}
    /\ UNCHANGED <<registryVars, handles, writing, sent, writes>>

(* write: the check, then send_telegram. *)
TypedWrite(h) ==
    /\ writing = None /\ writes < setting.writes
    /\ CheckDptCurrent(h)
    /\ writing' = h /\ writes' = writes + 1
    /\ undone' = undone \ {"write"}
    /\ UNCHANGED <<handlerVars, registryVars, handles, sent>>
WriteSend ==
    /\ writing # None
    /\ writing' = None
    /\ sent' = sent \cup {writing}
    /\ UNCHANGED <<handlerVars, registryVars, handles, writes, undone>>

(* unregister_group_address, as the calls in progress see it. *)
UnregisterGroupAddress(a) ==
    /\ Unregister(a)
    /\ undone' = undone \cup {r \in Readers : reader[r].address = a}
                        \cup {c \in {"write"} : writing # None /\ writing.address = a}
    /\ UNCHANGED <<handlerVars, handles, writing, sent, writes>>

TypedNext ==
    \/ \E a \in setting.registered, dpt \in setting.dpts : GroupAddress(a, dpt)
    \/ \E h \in handles : TypedWrite(h) \/ \E r \in Readers : TypedRead(r, h)
    \/ WriteSend
    \/ \E a \in Groups : UnregisterGroupAddress(a)

-----------------------------------------------------------------------------
TypedTypeOK ==
    /\ handles \subseteq [address : Groups, dpt : Dpts]
    /\ writing \in handles \cup {None} /\ sent \subseteq handles
    /\ undone \subseteq Readers \cup {"write"}

(* decode: of a telegram to another address, of a question, or through a
   handle that is not current there is no value. *)
Decodes(h, telegram) ==
    /\ telegram.destination = h.address /\ telegram.kind # "Read"
    /\ CheckDptCurrent(h)

(* A typed read or write that is in progress, up to the moment in which it
   decodes or sends, uses the DPT its address is bound to, unless the
   address has been unregistered since the call began.  So a handle that was
   stale before the call gives an error, and only a rebinding that falls
   into the await of read or write goes unnoticed ("error rather than
   silently using their original DPT if `address` is rebound to a different
   one", Knx::unregister_group_address). *)
HandlesAreCurrent ==
    /\ \A r \in Readers \ undone :
          reader[r].dpt # None => BoundTo(reader[r].address, reader[r].dpt)
    /\ writing # None /\ "write" \notin undone => BoundTo(writing.address, writing.dpt)

(* decode_group_value: the DPT with which it decodes a telegram, or None. *)
DecodeGroupValue(telegram) ==
    IF /\ telegram.destination \in Groups /\ telegram.kind # "Read"
       /\ Bound(telegram.destination)
    THEN entries[telegram.destination].dpt ELSE None

(* Callbacks that decode the same telegram, each with a handle of its own or
   through decode_group_value, take it for a value of the same DPT, whenever
   the handles were made. *)
OneMeaning ==
    notifying # None =>
       \A h \in handles : Decodes(h, notifying) => DecodeGroupValue(notifying) = h.dpt

(* A handle never works with a DPT its address had lost before the call
   (TypedGroupAddress::read, write, decode). *)
HandlesSound == HandlesAreCurrent /\ OneMeaning
=============================================================================
