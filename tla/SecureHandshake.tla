-------------------------- MODULE SecureHandshake --------------------------
(***************************************************************************)
(* The handshake of KNX IP Secure, from both ends: connect_secure of the   *)
(* client (transport/tunnel.rs), the session handlers of the server        *)
(* (transport/server.rs), and what they do to their SecureSession.         *)
(*                                                                         *)
(* Every attempt of the client has a socket and a key pair of its own, so  *)
(* its number stands for both.  The server makes a key pair and takes a    *)
(* session id for every SessionRequest; one number stands for those two.   *)
(* A MAC is what it binds together: both keys and a password.              *)
(*                                                                         *)
(* The client waits for a frame, not for a kind of frame.  At most one     *)
(* frame is under way on a stream, because both ends take turns.           *)
(***************************************************************************)
EXTENDS TunnelSetting

VARIABLES
    attempt,   \* handshakes the client has begun
    awaiting,  \* what connect_secure waits for: "none", "response", "status"
    derived,   \* the server's key the client's new session is derived from
    mail,      \* frames under way
    entry,     \* entry[a]: what secure_sessions holds for attempt a
    keys,      \* next_secure_session_id, unwrapped: the key last given out
    verified,  \* keys of the sessions the server has taken for authenticated
    repeats    \* frames the network has duplicated

shVars == <<attempt, awaiting, derived, mail, entry, keys, verified, repeats>>

NoEntry == [key |-> 0, authenticated |-> FALSE]

(* Every frame of the handshake: its kind, the client's key, the server's,
   and whether it is good news.  Requests know no key of the server. *)
Frame(kind, a, k, ok) == [kind |-> kind, attempt |-> a, key |-> k, ok |-> ok]
ToClient == {"response", "status"}

(* Frames that arrive at the client's present socket; what is sent to the
   socket of an earlier attempt is lost. *)
Arrived(m) == m.kind \in ToClient /\ m.attempt = attempt

ShInit ==
    /\ attempt = 0 /\ awaiting = "none" /\ derived = 0 /\ mail = {}
    /\ entry = [a \in 1 .. setting.connects |-> NoEntry]
    /\ keys = setting.issued /\ verified = {} /\ repeats = 0

(* A frame arrives and is answered; a datagram may arrive again later. *)
Take(m, answers) ==
    \/ mail' = (mail \ {m}) \cup answers /\ UNCHANGED repeats
    \/ /\ ~setting.fifo /\ repeats < setting.repeats
       /\ repeats' = repeats + 1
       /\ mail' = mail \cup answers

(* A datagram is lost. *)
ShLose(m) ==
    /\ ~setting.fifo
    /\ mail' = mail \ {m}
    /\ UNCHANGED <<attempt, awaiting, derived, entry, keys, verified, repeats>>

-----------------------------------------------------------------------------
(* initialize, and the SessionRequest. *)
SessionRequest ==
    /\ attempt' = attempt + 1
    /\ awaiting' = "response" /\ derived' = 0
    /\ mail' = {m \in mail : m.kind \notin ToClient}
               \cup {Frame("request", attempt + 1, 0, TRUE)}
    /\ UNCHANGED <<entry, keys, verified, repeats>>

(* process_session_request: the MAC shows that the device knows its password. *)
ProcessSessionRequest(a, k) == Frame("response", a, k, setting.device)

(* handle_session_request: a new session replaces whatever this client had. *)
HandleSessionRequest(m) ==
    /\ m.kind = "request"
    /\ keys' = keys + 1
    /\ entry' = [entry EXCEPT ![m.attempt] = [key |-> keys + 1, authenticated |-> FALSE]]
    /\ Take(m, {ProcessSessionRequest(m.attempt, keys + 1)})
    /\ UNCHANGED <<attempt, awaiting, derived, verified>>

(* generate_authenticate_mac. *)
GenerateAuthenticateMac(k) == Frame("authenticate", attempt, k, setting.password)

(* process_session_response: the device has to know its password. *)
ProcessSessionResponse(m) ==
    /\ awaiting = "response" /\ Arrived(m) /\ m.kind = "response"
    /\ m.ok
    /\ derived' = m.key
    /\ awaiting' = "status"
    /\ Take(m, {GenerateAuthenticateMac(m.key)})
    /\ UNCHANGED <<attempt, entry, keys, verified>>

(* verify_authenticate_mac: the password, and the keys of both ends. *)
VerifyAnyKey(m) == m.ok
VerifyAuthenticateMac(m) == m.ok /\ m.key = entry[m.attempt].key

(* handle_session_authenticate: failing costs the session; without one there
   is no answer. *)
HandleSessionAuthenticate(m) ==
    LET ok == VerifyAuthenticateMac(m)
        known == entry[m.attempt] # NoEntry
    IN  /\ m.kind = "authenticate"
        /\ entry' = [entry EXCEPT ![m.attempt] =
                       IF ok /\ known THEN [key |-> @.key, authenticated |-> TRUE] ELSE NoEntry]
        /\ verified' = IF ok /\ known THEN verified \cup {entry[m.attempt].key}
                        ELSE verified
        /\ Take(m, IF known THEN {Frame("status", m.attempt, 0, ok)} ELSE {})
        /\ UNCHANGED <<attempt, awaiting, derived, keys>>

(* The byte connect_secure takes for the status: the status of a
   SessionStatus, the low byte of the session id of a SessionResponse. *)
StatusByte(m) ==
    IF m.kind = "status" THEN IF m.ok THEN 0 ELSE 1 ELSE m.key % 256
StatusSeen(m) == awaiting = "status" /\ Arrived(m)

(* complete_authentication. *)
CompleteAuthentication(m) ==
    /\ StatusSeen(m) /\ StatusByte(m) = 0
    /\ awaiting' = "none"
    /\ Take(m, {})
    /\ UNCHANGED <<attempt, derived, entry, keys, verified>>

(* A frame that ends the attempt: the device does not know its password, or
   the status is an error. *)
HandshakeRefused(m) ==
    /\ \/ awaiting = "response" /\ Arrived(m) /\ m.kind = "response" /\ ~m.ok
       \/ StatusSeen(m) /\ StatusByte(m) # 0
    /\ awaiting' = "none"
    /\ Take(m, {})
    /\ UNCHANGED <<attempt, derived, entry, keys, verified>>

(* No frame within connection_timeout, or an error of the transport. *)
HandshakeTimeout ==
    /\ awaiting' = "none"
    /\ UNCHANGED <<attempt, derived, mail, entry, keys, verified, repeats>>

(* What the server, the network and the client's middle step do. *)
ShNext ==
    \E m \in mail :
       \/ HandleSessionRequest(m) \/ HandleSessionAuthenticate(m)
       \/ ProcessSessionResponse(m) \/ ShLose(m)

-----------------------------------------------------------------------------
ShFrame ==
    [kind : {"request", "response", "authenticate", "status"},
     attempt : 1 .. setting.connects, key : Nat, ok : BOOLEAN]

ShTypeOK ==
    /\ attempt \in 0 .. setting.connects
    /\ awaiting \in {"none", "response", "status"}
    /\ derived \in Nat /\ keys \in Nat
    /\ mail \subseteq ShFrame
    /\ entry \in [1 .. setting.connects -> [key : Nat, authenticated : BOOLEAN]]
    /\ verified \subseteq Nat
    /\ repeats \in 0 .. setting.repeats

(* The session of key k stands at the server too. *)
Agreed(k) ==
    \E a \in DOMAIN entry : entry[a] = [key |-> k, authenticated |-> TRUE]

(* The low byte of none of the session ids given out so far is 0. *)
NoIdLooksFine == \A k \in setting.issued + 1 .. keys : k % 256 # 0
=============================================================================
