------------------------------- MODULE Tunnel -------------------------------
(***************************************************************************)
(* The client's tunnel (transport/tunnel.rs): connect, connect_secure,     *)
(* disconnect and close; the registry of individual addresses that several *)
(* tunnels share (address_registry.rs); and the probe that looks for a     *)
(* free address on the bus (address_probe.rs).  A connected tunnel runs    *)
(* the heartbeat (Heartbeat), a secure one makes itself known              *)
(* (SecureHandshake) and wraps its frames (SecureSession).                 *)
(*                                                                         *)
(* connect and disconnect take the tunnel exclusively, so each tunnel has  *)
(* one program counter; different tunnels interleave at every await.       *)
(***************************************************************************)
EXTENDS Heartbeat, SecureSession, SecureHandshake

VARIABLES
    state,               \* state[t]: ConnectionState
    pc,                  \* pc[t]: where the running call of t waits
    channel_id,          \* channel_id[t]: 0 if there is none
    secure_session,      \* secure_session[t]: the key of the session, 0 if there is none
    individual_address,  \* individual_address[t]
    address,             \* address[t]: the address connect means to claim
    source,              \* source[t]: where that address came from
    tried,               \* tried[t]: candidates auto_select_address has passed
    answering,           \* answering[t]: a device is about to answer the probe
    claimed,             \* the registry
    connects, strays     \* calls of connect, and signals from elsewhere, so far

tunnelVars == <<state, pc, channel_id, secure_session, individual_address,
                address, source, tried, answering, claimed, connects, strays>>
system == <<tunnelVars, hbVars, ssVars, shVars>>
vars == <<setting, system>>

ProbeState == <<tried, answering, strays>>

Init ==
    /\ setting \in Settings
    /\ HbInit /\ SsInit /\ ShInit
    /\ state = [t \in Tunnels |-> "Disconnected"]
    /\ pc = [t \in Tunnels |-> "idle"]
    /\ channel_id = [t \in Tunnels |-> 0]
    /\ secure_session = [t \in Tunnels |-> 0]
    /\ individual_address = [t \in Tunnels |-> NoAddress]
    /\ address = [t \in Tunnels |-> NoAddress]
    /\ source = [t \in Tunnels |-> "none"]
    /\ tried = [t \in Tunnels |-> {}]
    /\ answering = [t \in Tunnels |-> FALSE]
    /\ claimed = {} /\ connects = 0 /\ strays = 0

(* AddressRegistry::is_available. *)
IsAvailable(a) == a \notin claimed /\ a \notin setting.occupied

(* The running call of t goes on at place p. *)
Goto(t, p) == pc' = [pc EXCEPT ![t] = p]
Become(t, s) == state' = [state EXCEPT ![t] = s]

-----------------------------------------------------------------------------
(* connect() says Connecting at once, connect_secure() only when the secure
   session stands. *)
Connect(t) ==
    /\ pc[t] = "idle" /\ connects < setting.connects
    /\ setting.tidy => state[t] # "Connected"
    /\ connects' = connects + 1
    /\ Goto(t, "transport")
    /\ IF setting.secure THEN UNCHANGED state ELSE Become(t, "Connecting")
    /\ UNCHANGED <<channel_id, secure_session, individual_address, address,
                   source, ProbeState, claimed>>

EstablishTransport(t) ==
    /\ pc[t] = "transport"
    /\ IF setting.secure
       THEN Goto(t, "session") /\ SessionRequest
       ELSE Goto(t, "check") /\ UNCHANGED shVars
    /\ UNCHANGED <<state, channel_id, secure_session, individual_address,
                   address, source, ProbeState, claimed, connects, ssVars>>

(* connect_secure: the session stands, and replaces the one of an earlier
   connect_secure. *)
SessionStands(t, m) ==
    /\ pc[t] = "session"
    /\ CompleteAuthentication(m)
    /\ secure_session' = [secure_session EXCEPT ![t] = derived]
    /\ SsRenew
    /\ Become(t, "Connecting")
    /\ Goto(t, "check")
    /\ UNCHANGED <<channel_id, individual_address, address, source, ProbeState,
                   claimed, connects>>

(* The handshake fails: the state and the old session stay as they are. *)
SessionFails(t) ==
    /\ pc[t] = "session"
    /\ HandshakeTimeout \/ \E m \in mail : HandshakeRefused(m)
    /\ Goto(t, "idle")
    /\ UNCHANGED <<state, channel_id, secure_session, individual_address, address,
                   source, ProbeState, claimed, connects, ssVars>>

SecureSteps(t) ==
    \/ EstablishTransport(t)
    \/ \E m \in mail : SessionStands(t, m)
    \/ SessionFails(t)

(* A configured address is looked up before it is asked for. *)
MayAsk(t) ==
    setting.managed /\ setting.configured[t] # NoAddress
        => IsAvailable(setting.configured[t])
SendConnectRequest(t) ==
    /\ pc[t] = "check"
    /\ MayAsk(t)
    /\ Goto(t, "request")
    /\ UNCHANGED <<state, channel_id, secure_session, individual_address,
                   address, source, ProbeState, claimed, connects>>

(* A time-out, an error, a refusal, an unavailable configured address, a
   frame that is not the answer.  An error of connect_secure before the
   secure session stands leaves the state as it was. *)
ConnectErr(t) ==
    /\ \/ pc[t] \in {"transport", "request"}
       \/ pc[t] = "check" /\ ~MayAsk(t)
    /\ IF setting.secure /\ pc[t] = "transport"
       THEN UNCHANGED state ELSE Become(t, "Failed")
    /\ Goto(t, "idle")
    /\ UNCHANGED <<channel_id, secure_session, individual_address, address,
                   source, ProbeState, claimed, connects>>

(* finish_connect: Connected from here on, whatever becomes of the address. *)
AddressStep(a) ==
    IF ~setting.managed THEN "idle" ELSE IF a # NoAddress THEN "claim" ELSE "select"
ConnectResponse(t, assigned) ==
    LET own == setting.configured[t]
        a == IF own # NoAddress THEN own ELSE assigned
    IN  /\ pc[t] = "request"
        /\ channel_id' = [channel_id EXCEPT ![t] = 1]
        /\ Become(t, "Connected")
        /\ address' = [address EXCEPT ![t] = a]
        /\ source' = [source EXCEPT ![t] = IF own # NoAddress THEN "configured"
                                           ELSE "gateway"]
        /\ tried' = [tried EXCEPT ![t] = {}]
        /\ Goto(t, AddressStep(a))
        /\ UNCHANGED <<secure_session, individual_address, answering, strays,
                       claimed, connects>>

-----------------------------------------------------------------------------
(* auto_select_address goes through the candidates in order. *)
RemainingButLast(t) ==
    {c \in setting.candidates : c \notin tried[t]
                                /\ \E d \in setting.candidates : d > c}
Remaining(t) == setting.candidates \ tried[t]
NextCandidate(t, c) ==
    c \in Remaining(t) /\ \A d \in Remaining(t) : c <= d

SkipCandidate(t, c) ==
    /\ pc[t] = "select" /\ NextCandidate(t, c)
    /\ ~IsAvailable(c)
    /\ tried' = [tried EXCEPT ![t] = @ \cup {c}]
    /\ UNCHANGED <<state, pc, channel_id, secure_session, individual_address,
                   address, source, answering, strays, claimed, connects>>

(* probe_address: T_Connect and DeviceDescriptorRead go out. *)
Probe(t, c) ==
    /\ pc[t] = "select" /\ NextCandidate(t, c)
    /\ IsAvailable(c)
    /\ tried' = [tried EXCEPT ![t] = @ \cup {c}]
    /\ address' = [address EXCEPT ![t] = c]
    /\ source' = [source EXCEPT ![t] = "probe"]
    /\ answering' = [answering EXCEPT ![t] = c \in setting.devices]
    /\ Goto(t, "probe")
    /\ UNCHANGED <<state, channel_id, secure_session, individual_address, strays,
                   claimed, connects>>

(* A descriptor or a T_Disconnect: the address is taken.  classify_cemi does
   not ask where the signal comes from. *)
ProbeSignal(t) ==
    /\ pc[t] = "probe"
    /\ \/ answering[t] /\ UNCHANGED strays
       \/ strays < setting.strays /\ strays' = strays + 1
    /\ answering' = [answering EXCEPT ![t] = FALSE]
    /\ Goto(t, "select")
    /\ UNCHANGED <<state, channel_id, secure_session, individual_address,
                   address, source, tried, claimed, connects>>

(* PROBE_TIMEOUT without a signal: the address is free.  Devices answer
   within it. *)
ProbeTimeoutMissing(t) == FALSE
ProbeTimeout(t) ==
    /\ pc[t] = "probe" /\ ~answering[t]
    /\ Goto(t, "claim")
    /\ UNCHANGED <<state, channel_id, secure_session, individual_address,
                   address, source, ProbeState, claimed, connects>>

(* No candidate is left, or the transport fails: connect returns an error,
   and the tunnel remains connected without an address. *)
Exhausted(t) ==
    /\ pc[t] = "select" /\ Remaining(t) = {}
    /\ source' = [source EXCEPT ![t] = "exhausted"]
    /\ Goto(t, "idle")
    /\ UNCHANGED <<state, channel_id, secure_session, individual_address,
                   address, ProbeState, claimed, connects>>
ProbeErr(t) ==
    /\ pc[t] = "probe"
    /\ source' = [source EXCEPT ![t] = "error"]
    /\ Goto(t, "idle")
    /\ UNCHANGED <<state, channel_id, secure_session, individual_address,
                   address, ProbeState, claimed, connects>>

(* AddressRegistry::claim; a collision is an error of connect. *)
CollidesNever(a) == FALSE
Collides(a) == a \in claimed
Claim(t) ==
    /\ pc[t] = "claim"
    /\ \/ Collides(address[t]) /\ UNCHANGED <<claimed, individual_address>>
       \/ /\ ~Collides(address[t])
          /\ claimed' = claimed \cup {address[t]}
          /\ individual_address' = [individual_address EXCEPT ![t] = address[t]]
    /\ Goto(t, "idle")
    /\ UNCHANGED <<state, channel_id, secure_session, address, source, ProbeState,
                   connects>>

-----------------------------------------------------------------------------
(* disconnect() waits for the response and then forgets everything. *)
Disconnect(t) ==
    /\ pc[t] = "idle"
    /\ Become(t, "Disconnecting")
    /\ Goto(t, "disconnect")
    /\ UNCHANGED <<channel_id, secure_session, individual_address, address,
                   source, ProbeState, claimed, connects>>

Released(t) == claimed \ {individual_address[t]}
DisconnectEnd(t) ==
    /\ pc[t] = "disconnect"
    /\ Become(t, "Disconnected")
    /\ channel_id' = [channel_id EXCEPT ![t] = 0]
    /\ claimed' = IF setting.managed THEN Released(t) ELSE claimed
    /\ individual_address' = [individual_address EXCEPT ![t] = NoAddress]
    /\ Goto(t, "idle")
    /\ UNCHANGED <<secure_session, address, source, ProbeState, connects>>

(* Connection::close sends a DisconnectRequest and touches nothing; the
   tunnel is dropped and another one built in its place. *)
CloseAndDrop(t) ==
    /\ setting.drops /\ pc[t] = "idle" /\ state[t] # "Disconnected"
    /\ Become(t, "Disconnected")
    /\ channel_id' = [channel_id EXCEPT ![t] = 0]
    /\ secure_session' = [secure_session EXCEPT ![t] = 0]
    /\ individual_address' = [individual_address EXCEPT ![t] = NoAddress]
    /\ UNCHANGED <<pc, address, source, ProbeState, claimed, connects>>

-----------------------------------------------------------------------------
(* What a call does before it returns; a transport error of a probe is not
   counted on. *)
CallSteps(t) ==
    \/ SendConnectRequest(t)
    \/ ConnectErr(t) \/ \E a \in setting.assigned : ConnectResponse(t, a)
    \/ \E c \in setting.candidates : SkipCandidate(t, c) \/ Probe(t, c)
    \/ ProbeSignal(t) \/ ProbeTimeout(t) \/ Exhausted(t) \/ Claim(t)
    \/ DisconnectEnd(t)

TunnelNext ==
    \E t \in setting.users :
       \/ Connect(t) \/ CallSteps(t) \/ ProbeErr(t)
       \/ Disconnect(t) \/ CloseAndDrop(t)

HeartbeatNext ==
    /\ setting.beats
    /\ hb = "none" => \E t \in setting.users : state[t] = "Connected"
    /\ HbNext

(* Frames that are wrapped with another key than the server's are refused. *)
SecureNext == (\E t \in setting.users : Agreed(secure_session[t])) /\ SsNext

Next ==
    /\ UNCHANGED setting
    /\ \/ TunnelNext /\ UNCHANGED <<hbVars, ssVars, shVars>>
       \/ (\E t \in setting.users : SecureSteps(t)) /\ UNCHANGED hbVars
       \/ ShNext /\ UNCHANGED <<tunnelVars, hbVars, ssVars>>
       \/ HeartbeatNext /\ UNCHANGED <<tunnelVars, ssVars, shVars>>
       \/ SecureNext /\ UNCHANGED <<tunnelVars, hbVars, shVars>>

Spec == Init /\ [][Next]_vars

(* Every await of a call has a time-out, and ready tasks are polled. *)
FairSpec ==
    /\ Spec /\ HbFairness
    /\ \A t \in Tunnels :
          WF_system(\/ SecureSteps(t) /\ UNCHANGED hbVars
                    \/ CallSteps(t) /\ UNCHANGED <<hbVars, ssVars, shVars>>)

-----------------------------------------------------------------------------
TunnelTypeOK ==
    /\ state \in [Tunnels -> {"Connecting", "Connected", "Disconnecting",
                              "Disconnected", "Failed"}]
    /\ pc \in [Tunnels -> {"idle", "transport", "session", "check", "request",
                           "select", "probe", "claim", "disconnect"}]
    /\ channel_id \in [Tunnels -> {0, 1}]
    /\ secure_session \in [Tunnels -> Nat]
    /\ individual_address \in [Tunnels -> Addresses \cup {NoAddress}]
    /\ address \in [Tunnels -> Addresses \cup {NoAddress}]
    /\ source \in [Tunnels -> {"none", "configured", "gateway", "probe",
                               "exhausted", "error"}]
    /\ tried \in [Tunnels -> SUBSET setting.candidates]
    /\ answering \in [Tunnels -> BOOLEAN]
    /\ claimed \subseteq Addresses
    /\ connects \in 0 .. setting.connects /\ strays \in 0 .. setting.strays
TypeOK == HbTypeOK /\ SsTypeOK /\ ShTypeOK /\ TunnelTypeOK

(* A client that believes its session stands shares both passwords with the
   server, and the server has authenticated the session of this very key
   (connect_secure, handle_session_authenticate), unless the client took the
   second copy of a SessionResponse for a status it cannot tell from
   STATUS_OK. *)
StandingIsVerified ==
    NoIdLooksFine
        => \A t \in Tunnels :
             secure_session[t] # 0
                => /\ secure_session[t] \in verified
                   /\ setting.device /\ setting.password

(* As long as no frame of a handshake has come twice, the server holds every
   session its clients believe in, under the same key.  (A SessionRequest
   that comes twice replaces the session behind the client's back.) *)
StandingIsAgreed ==
    repeats = 0
        => \A t \in Tunnels : secure_session[t] # 0 => Agreed(secure_session[t])

(* A secure session is the one both ends have agreed on, and accepts each
   frame once. *)
SessionSound == StandingIsVerified /\ StandingIsAgreed /\ ReplayCheckExact

(* Two tunnels never use one individual address, although they look it up
   and claim it in different steps, with the network in between ("This
   prevents two connections from claiming the same address",
   address_registry.rs). *)
AddressesDistinct ==
    \A t, u \in Tunnels :
       t # u /\ individual_address[t] # NoAddress
          => individual_address[t] # individual_address[u]

(* The registry knows every address in use, so that no one else can claim
   it. *)
UsedIsClaimed ==
    \A t \in Tunnels :
       individual_address[t] # NoAddress => individual_address[t] \in claimed

(* No address stays claimed without a tunnel that uses it, as long as the
   application disconnects its tunnels; close() and a second connect() on a
   connected tunnel leak one. *)
NoClaimLeaks ==
    setting.tidy /\ ~setting.drops
        => \A a \in claimed : \E t \in Tunnels : individual_address[t] = a

(* The registry and the tunnels agree on who uses which address. *)
AddressesAgree == TypeOK /\ AddressesDistinct /\ UsedIsClaimed /\ NoClaimLeaks

(* An address that was probed for is not in use on the bus and not known to
   be occupied, even when signals of other devices are taken for answers. *)
SelectedIsFree ==
    \A t \in Tunnels :
       source[t] = "probe" /\ individual_address[t] = address[t]
          => individual_address[t] \notin setting.devices \cup setting.occupied

(* The search gives up only when no candidate is free: for a tunnel alone
   on the registry, which leaks no address, each one is occupied or in use on
   the bus, the first and the last of the range included
   (candidate_addresses). *)
Alone == \A t, u \in setting.users : t = u
GivesUpWhenFull ==
    setting.strays = 0 /\ Alone /\ setting.tidy /\ ~setting.drops
        => \A t \in setting.users :
             source[t] = "exhausted"
                => setting.candidates \subseteq setting.devices \cup setting.occupied

(* auto_select_address finds a free address exactly when there is one. *)
SearchSound == SelectedIsFree /\ GivesUpWhenFull

(* Every call of connect, connect_secure or disconnect returns. *)
CallsReturn == \A t \in Tunnels : [](pc[t] # "idle" => <>(pc[t] = "idle"))
=============================================================================
