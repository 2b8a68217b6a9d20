---------------------------- MODULE TunnelServer ----------------------------
(***************************************************************************)
(* The session table of the tunnelling server (transport/server.rs): the   *)
(* UDP dispatch loop and one task for each TCP stream connect, refresh and *)
(* disconnect clients; the sweep loop and failed sends remove them.        *)
(*                                                                         *)
(* The program refers to a session by its channel id, and an id that is    *)
(* freed is given out again.  To tell apart the sessions that held one id, *)
(* every session has a serial number, and every reference carries the      *)
(* serial of the session it was taken from.  Serials are history: no guard *)
(* of the program reads one.                                               *)
(***************************************************************************)
EXTENDS Integers, FiniteSets

CONSTANTS
    UdpPeers, TcpPeers,  \* client addresses; a TCP peer is one stream
    MaxChannel,          \* channel ids are 1 .. 255 in the code
    SecureRequired,      \* secure_config is present
    MaxSessions          \* bound: sessions created in a behaviour

Peers == UdpPeers \cup TcpPeers
Channels == 1 .. MaxChannel

ASSUME ServerAssumption ==
    /\ UdpPeers \cap TcpPeers = {}
    /\ MaxChannel \in Nat /\ MaxSessions \in Nat
    /\ SecureRequired \in BOOLEAN

VARIABLES
    sessions,   \* the table: a set of [channel, serial, peer]
    expired,    \* serials without a heartbeat for CLIENT_TIMEOUT
    secure,     \* secure[p]: the entry of p in secure_sessions
    stream,     \* stream[p]: the life of the TCP stream of p
    assigned,   \* assigned[p]: the channel the stream's task will clean up
    told,       \* what clients were told: a set of [peer, channel, serial]
    sends,      \* sessions a running send() has yet to try
    failed,     \* sessions whose send failed and which it will remove
    sweep,      \* channels the sweep found stale and will remove
    serial,     \* sessions created so far
    used,       \* channels given out so far
    firsts,     \* serials of the first session on a channel
    removal     \* the last removal: whom it meant and whom it hit

table == <<sessions, expired, serial, used, firsts>>
refs == <<told, sends, failed, sweep>>
links == <<stream, assigned>>
vars == <<table, refs, links, secure, removal>>

-----------------------------------------------------------------------------
Serials == 1 .. MaxSessions
Session == [channel : Channels, serial : Serials, peer : Peers]
Ref == [channel : Channels, serial : Serials]
NoRef == [channel |-> 0, serial |-> 0]
RefTo(s) == [channel |-> s.channel, serial |-> s.serial]

HitAbove(channels) == {s \in sessions : s.channel - 1 \in channels}
Hit(channels) == {s \in sessions : s.channel \in channels}
SerialsOf(set) == {s.serial : s \in set}

(* HashMap::remove(&id) for each id: it removes whoever holds the id now. *)
Remove(channels, meant, why) ==
    LET got == SerialsOf(Hit(channels))
    IN  /\ sessions' = sessions \ Hit(channels)
        /\ expired' = expired \ got
        /\ removal' = [why |-> why, meant |-> meant, got |-> got]

(* dispatch_plain_frame and the authentication check before it. *)
MayDispatchKeyed(p) ==
    /\ p \in TcpPeers => stream[p] = "open"
    /\ SecureRequired => secure[p] # "none"
MayDispatch(p) ==
    /\ p \in TcpPeers => stream[p] = "open"
    /\ SecureRequired => secure[p] = "authenticated"

Init ==
    /\ sessions = {} /\ expired = {}
    /\ secure = [p \in Peers |-> "none"]
    /\ stream = [p \in TcpPeers |-> "new"]
    /\ assigned = [p \in TcpPeers |-> NoRef]
    /\ told = {} /\ sends = {} /\ failed = {} /\ sweep = {}
    /\ serial = 0 /\ used = {} /\ firsts = {}
    /\ removal = [why |-> "none", meant |-> {}, got |-> {}]

-----------------------------------------------------------------------------
(* handle_session_request: a new entry replaces whatever the peer had. *)
SessionRequest(p) ==
    /\ SecureRequired
    /\ p \in TcpPeers => stream[p] = "open"
    /\ secure' = [secure EXCEPT ![p] = "keyed"]
    /\ UNCHANGED <<table, refs, links, removal>>

(* handle_session_authenticate: a MAC that does not verify costs the entry. *)
SessionAuthenticate(p, ok) ==
    /\ secure[p] # "none"
    /\ p \in TcpPeers => stream[p] = "open"
    /\ secure' = [secure EXCEPT ![p] = IF ok THEN "authenticated" ELSE "none"]
    /\ UNCHANGED <<table, refs, links, removal>>

(* The range allocate_channel_id goes through. *)
CandidatesFromZero == 0 .. MaxChannel
Candidates == 1 .. MaxChannel
Free == Candidates \ {s.channel : s \in sessions}

(* allocate_channel_id: the lowest id that is free. *)
AllocateChannelId(id) == id \in Free /\ \A j \in Free : id <= j

(* handle_connect_request.  A retransmitted request gets a second session.
   When the reply cannot be sent the session stays, and the stream's task
   does not learn its id. *)
Connect(p, replied) ==
    /\ MayDispatch(p)
    /\ serial < MaxSessions
    /\ \E id \in Candidates :
         LET s == [channel |-> id, serial |-> serial + 1, peer |-> p]
         IN  /\ AllocateChannelId(id)
             /\ sessions' = sessions \cup {s}
             /\ used' = used \cup {id}
             /\ firsts' = IF id \in used THEN firsts ELSE firsts \cup {serial + 1}
             /\ told' = IF replied
                        THEN told \cup {[channel |-> id, serial |-> serial + 1,
                                         peer |-> p]}
                        ELSE told
             /\ assigned' = IF replied /\ p \in TcpPeers
                            THEN [assigned EXCEPT ![p] = RefTo(s)] ELSE assigned
    /\ serial' = serial + 1
    /\ UNCHANGED <<expired, sends, failed, sweep, stream, secure, removal>>

(* The table is full: STATUS_ERROR_NO_MORE_CONNECTIONS. *)
ConnectRefused(p) ==
    /\ MayDispatch(p)
    /\ Free = {}
    /\ UNCHANGED vars

(* handle_connectionstate_request, and the lookup of a TunnellingRequest: the
   session that holds the channel now is touched, and it gets the answer. *)
Heartbeat(p, c) ==
    /\ MayDispatch(p)
    /\ expired' = expired \ SerialsOf(Hit({c}))
    /\ UNCHANGED <<sessions, serial, used, firsts, refs, links, secure, removal>>

(* handle_disconnect_request: the secure entry goes before the reply. *)
Disconnect(t) ==
    /\ MayDispatch(t.peer)
    /\ Remove({t.channel}, {t.serial}, "disconnect")
    /\ \E q \in IF Hit({t.channel}) = {} THEN {t.peer}
                ELSE {s.peer : s \in Hit({t.channel})} :
         secure' = [secure EXCEPT ![q] = "none"]
    /\ UNCHANGED <<serial, used, firsts, refs, links>>

-----------------------------------------------------------------------------
(* The TCP accept loop and the task of one stream. *)
Accept(p) ==
    /\ stream[p] = "new"
    /\ stream' = [stream EXCEPT ![p] = "open"]
    /\ UNCHANGED <<table, refs, assigned, secure, removal>>

(* recv_frame fails: the stream was closed. *)
StreamEnds(p) ==
    /\ stream[p] = "open"
    /\ stream' = [stream EXCEPT ![p] = "ended"]
    /\ UNCHANGED <<table, refs, assigned, secure, removal>>

(* What the task does after its loop. *)
StreamCleanUp(p) ==
    /\ stream[p] = "ended"
    /\ stream' = [stream EXCEPT ![p] = "done"]
    /\ Remove({assigned[p].channel}, {assigned[p].serial}, "stream")
    /\ secure' = [secure EXCEPT ![p] = "none"]
    /\ UNCHANGED <<serial, used, firsts, refs, assigned>>

-----------------------------------------------------------------------------
(* TunnelServer::send.  The table is copied under the read lock; sessions
   are tried one by one; TunnelLink says how a try ends. *)
SendStart ==
    /\ sessions # {} /\ sends = {} /\ failed = {}
    /\ sends' = {RefTo(s) : s \in sessions}
    /\ UNCHANGED <<table, told, failed, sweep, links, secure, removal>>

SendTry(r, ok) ==
    /\ r \in sends
    /\ failed = {}
    /\ sends' = sends \ {r}
    /\ failed' = IF ok THEN {} ELSE {r}
    /\ UNCHANGED <<table, told, sweep, links, secure, removal>>

SendRemoveFailed(r) ==
    /\ r \in failed
    /\ failed' = {}
    /\ Remove({r.channel}, {r.serial}, "send")
    /\ UNCHANGED <<serial, used, firsts, told, sends, sweep, links,
                   secure>>

(* CLIENT_TIMEOUT passes without a heartbeat. *)
GoStale(s) ==
    /\ s \in sessions
    /\ s.serial \notin expired
    /\ expired' = expired \cup {s.serial}
    /\ UNCHANGED <<sessions, serial, used, firsts, refs, links, secure, removal>>

(* The sweep collects under the read lock and removes under the write lock. *)
StaleUdp == {s \in sessions : s.serial \in expired /\ s.peer \in UdpPeers}
Stale == {s \in sessions : s.serial \in expired}
SweepCollect ==
    /\ sweep = {}
    /\ Stale # {}
    /\ sweep' = {RefTo(s) : s \in Stale}
    /\ UNCHANGED <<table, told, sends, failed, links, secure, removal>>

SweepRemove ==
    /\ sweep # {}
    /\ sweep' = {}
    /\ Remove({r.channel : r \in sweep}, {r.serial : r \in sweep}, "sweep")
    /\ UNCHANGED <<serial, used, firsts, told, sends, failed, links,
                   secure>>

Next ==
    \/ \E p \in Peers : SessionRequest(p)
    \/ \E p \in Peers, ok \in BOOLEAN : SessionAuthenticate(p, ok)
    \/ \E p \in Peers, replied \in BOOLEAN : Connect(p, replied)
    \/ \E p \in Peers : ConnectRefused(p)
    \/ \E t \in told : Heartbeat(t.peer, t.channel)
    \/ \E t \in told : Disconnect(t)
    \/ \E p \in TcpPeers : Accept(p)
    \/ \E p \in TcpPeers : StreamEnds(p)
    \/ \E p \in TcpPeers : StreamCleanUp(p)
    \/ SendStart
    \/ \E r \in sends, ok \in BOOLEAN : SendTry(r, ok)
    \/ \E r \in failed : SendRemoveFailed(r)
    \/ \E s \in sessions : GoStale(s)
    \/ SweepCollect
    \/ SweepRemove

Spec == Init /\ [][Next]_vars

-----------------------------------------------------------------------------
TypeOK ==
    /\ sessions \subseteq Session
    /\ expired \subseteq Serials /\ firsts \subseteq Serials
    /\ secure \in [Peers -> {"none", "keyed", "authenticated"}]
    /\ stream \in [TcpPeers -> {"new", "open", "ended", "done"}]
    /\ assigned \in [TcpPeers -> Ref \cup {NoRef}]
    /\ told \subseteq [channel : Channels, serial : Serials, peer : Peers]
    /\ sends \subseteq Ref /\ failed \subseteq Ref /\ sweep \subseteq Ref
    /\ serial \in 0 .. MaxSessions
    /\ used \subseteq Channels

(* No two sessions in the table share a channel id: TCP tasks and the UDP
   loop allocate from one pool (allocate_channel_id under the write lock). *)
ChannelsDistinct ==
    \A s, t \in sessions : s.channel = t.channel => s = t

(* A session that is the first on its channel is removed only by a removal
   that meant it: its own disconnect, the end of its own stream, the
   failure of a send to it, or its own staleness.  Whatever hits the wrong
   client therefore needs an id that has been given out again. *)
FirstHolderSafe == removal.got \cap firsts \subseteq removal.meant

(* A secure endpoint opens a channel only for a peer whose password has been
   verified: agreeing on a key is not enough, and a later handshake takes
   the right away again (handle_frame). *)
OnlyAuthenticatedConnect ==
    [][\A s \in sessions' \ sessions :
          SecureRequired => secure[s.peer] = "authenticated"]_vars
=============================================================================
