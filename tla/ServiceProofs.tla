--------------------------- MODULE ServiceProofs ---------------------------
(***************************************************************************)
(* The session table and the loops around it, for any number of clients,   *)
(* channels and sessions.                                                  *)
(*                                                                         *)
(* For FirstHolderSafe it has to be known that every reference that is     *)
(* held anywhere (told, sends, failed, sweep, assigned) names, on a        *)
(* channel whose present session is the first one there, that session.     *)
(* That is Consistent; it survives a Connect because a channel that a      *)
(* reference names has been given out before, so the session that takes it *)
(* next is not the first.                                                  *)
(*                                                                         *)
(* The loops implement the session table (LoopsSpec => Spec) and the       *)
(* service runs the loops and the traffic of a session, so what is shown   *)
(* of each of them holds of the service.                                   *)
(***************************************************************************)
EXTENDS TunnelService, LinkProofs

Consistent(r) ==
    /\ r.channel \in used
    /\ \A s \in sessions :
         s.channel = r.channel /\ s.serial \in firsts => s.serial = r.serial

RefsConsistent ==
    /\ \A r \in told : Consistent(r)
    /\ \A r \in sends : Consistent(r)
    /\ \A r \in failed : Consistent(r)
    /\ \A r \in sweep : Consistent(r)
    /\ \A p \in TcpPeers : assigned[p] = NoRef \/ Consistent(assigned[p])

Numbered ==
    /\ \A s \in sessions : s.channel \in used /\ s.serial <= serial
    /\ \A n \in firsts : n <= serial
    /\ removal.got \subseteq Serials
    /\ \A n \in removal.got : n <= serial

IInv ==
    /\ TypeOK
    /\ ChannelsDistinct
    /\ Numbered
    /\ RefsConsistent
    /\ FirstHolderSafe

-----------------------------------------------------------------------------
(* The initial state satisfies the invariant. *)
LEMMA InitInv == Init => IInv
  BY ServerAssumption
     DEF Init, IInv, TypeOK, ChannelsDistinct, Numbered, RefsConsistent,
         FirstHolderSafe

(* A reference stays consistent while the table only shrinks. *)
LEMMA ShrinkKeepsConsistent ==
  ASSUME NEW r, Consistent(r), sessions' \subseteq sessions,
         UNCHANGED <<used, firsts>>
  PROVE  r.channel \in used'
         /\ \A s \in sessions' :
              s.channel = r.channel /\ s.serial \in firsts' => s.serial = r.serial
  BY DEF Consistent

(* Removing by the channel of one consistent reference keeps the invariant:
   the session it hits, if it is a first one, is the one that was meant. *)
LEMMA RemoveOne ==
  ASSUME IInv, NEW r, NEW why, Consistent(r),
         Remove({r.channel}, {r.serial}, why),
         UNCHANGED <<used, firsts, serial>>
  PROVE  /\ sessions' \subseteq sessions
         /\ expired' \subseteq Serials
         /\ ChannelsDistinct' /\ Numbered' /\ FirstHolderSafe'
  <1>1. sessions' \subseteq sessions /\ expired' \subseteq Serials
    BY DEF Remove, IInv, TypeOK
  <1>2. ChannelsDistinct'
    BY <1>1 DEF ChannelsDistinct, IInv
  <1>3. Numbered'
    <2>1. /\ removal'.got \subseteq Serials
          /\ \A n \in removal'.got : n <= serial
      BY DEF Remove, SerialsOf, Hit, IInv, TypeOK, Session, Numbered
    <2> QED BY <1>1, <2>1 DEF Numbered, IInv
  <1>4. FirstHolderSafe'
    BY DEF FirstHolderSafe, Remove, Consistent, SerialsOf, Hit
  <1> QED BY <1>1, <1>2, <1>3, <1>4

(* The same for the set of references the sweep has collected. *)
LEMMA RemoveMany ==
  ASSUME IInv, NEW R, NEW why, \A r \in R : Consistent(r),
         Remove({r.channel : r \in R}, {r.serial : r \in R}, why),
         UNCHANGED <<used, firsts, serial>>
  PROVE  /\ sessions' \subseteq sessions
         /\ expired' \subseteq Serials
         /\ ChannelsDistinct' /\ Numbered' /\ FirstHolderSafe'
  <1>1. sessions' \subseteq sessions /\ expired' \subseteq Serials
    BY DEF Remove, IInv, TypeOK
  <1>2. ChannelsDistinct'
    BY <1>1 DEF ChannelsDistinct, IInv
  <1>3. Numbered'
    <2>1. /\ removal'.got \subseteq Serials
          /\ \A n \in removal'.got : n <= serial
      BY DEF Remove, SerialsOf, Hit, IInv, TypeOK, Session, Numbered
    <2> QED BY <1>1, <2>1 DEF Numbered, IInv
  <1>4. FirstHolderSafe'
    BY DEF FirstHolderSafe, Remove, Consistent, SerialsOf, Hit
  <1> QED BY <1>1, <1>2, <1>3, <1>4

(* With the table, the channels and the sets of references unchanged or
   smaller, every reference stays consistent. *)
LEMMA RefsKept ==
  ASSUME RefsConsistent, sessions' \subseteq sessions,
         UNCHANGED <<used, firsts>>,
         told' \subseteq told, sends' \subseteq sends, failed' \subseteq failed,
         sweep' \subseteq sweep, assigned' = assigned
  PROVE  RefsConsistent'
  BY DEF RefsConsistent, Consistent

(* A reference taken from the table is consistent. *)
LEMMA RefToConsistent ==
  ASSUME IInv, NEW s \in sessions
  PROVE  /\ RefTo(s) \in Ref
         /\ Consistent(RefTo(s))
  <1>1. RefTo(s) \in Ref
    BY DEF RefTo, Ref, IInv, TypeOK, Session
  <1>2. Consistent(RefTo(s))
    BY DEF RefTo, Consistent, IInv, Numbered, ChannelsDistinct
  <1> QED BY <1>1, <1>2

-----------------------------------------------------------------------------
(* A new session takes a channel nobody holds. *)
LEMMA ConnectKeepsInv ==
  ASSUME IInv, NEW p \in Peers, NEW replied \in BOOLEAN, Connect(p, replied)
  PROVE  IInv'
  <1>0. PICK id \in Channels :
          /\ AllocateChannelId(id)
          /\ sessions' = sessions \cup
               {[channel |-> id, serial |-> serial + 1, peer |-> p]}
          /\ used' = used \cup {id}
          /\ firsts' = IF id \in used THEN firsts ELSE firsts \cup {serial + 1}
          /\ told' = IF replied
                     THEN told \cup {[channel |-> id, serial |-> serial + 1,
                                      peer |-> p]}
                     ELSE told
          /\ assigned' = IF replied /\ p \in TcpPeers
                         THEN [assigned EXCEPT ![p] =
                                 [channel |-> id, serial |-> serial + 1]]
                         ELSE assigned
    BY Zenon DEF Connect, RefTo, Candidates, Channels
  <1> DEFINE new == [channel |-> id, serial |-> serial + 1, peer |-> p]
             ref == [channel |-> id, serial |-> serial + 1]
  <1>1. /\ serial' = serial + 1 /\ serial' \in 1 .. MaxSessions
        /\ serial + 1 \in Serials
        /\ UNCHANGED <<expired, sends, failed, sweep, stream, secure, removal>>
    BY ServerAssumption DEF Connect, IInv, TypeOK, Serials
  <1>2. new \in Session /\ ref \in Ref
    BY <1>1 DEF Session, Ref
  <1>3. id \notin {s.channel : s \in sessions}
    BY <1>0 DEF AllocateChannelId, Free
  <1>4. serial + 1 \notin firsts /\ \A s \in sessions : s.serial # serial + 1
    BY ServerAssumption DEF IInv, Numbered, TypeOK, Session, Serials
  <1>5. TypeOK'
    <2>1. sessions' \subseteq Session
      BY <1>0, <1>2 DEF IInv, TypeOK
    <2>2. firsts' \subseteq Serials
      BY <1>0, <1>1 DEF IInv, TypeOK
    <2>3. told' \subseteq [channel : Channels, serial : Serials, peer : Peers]
      BY <1>0, <1>2 DEF IInv, TypeOK, Session
    <2>4. assigned' \in [TcpPeers -> Ref \cup {NoRef}]
      BY <1>0, <1>2 DEF IInv, TypeOK
    <2>5. used' \subseteq Channels
      BY <1>0 DEF IInv, TypeOK
    <2>6. serial' \in 0 .. MaxSessions
      BY <1>1
    <2> QED BY <1>1, <2>1, <2>2, <2>3, <2>4, <2>5, <2>6 DEF IInv, TypeOK
  <1>6. ChannelsDistinct'
    BY <1>0, <1>3 DEF ChannelsDistinct, IInv
  <1>7. Numbered'
    <2>1. \A s \in sessions : s.serial <= serial + 1
      BY ServerAssumption DEF IInv, Numbered, TypeOK, Session, Serials
    <2>2. \A n \in firsts : n <= serial + 1
      BY ServerAssumption DEF IInv, Numbered, TypeOK, Serials
    <2>3. \A s \in sessions' : s.channel \in used' /\ s.serial <= serial'
      BY <1>0, <1>1, <2>1 DEF IInv, Numbered
    <2>4. \A n \in firsts' : n <= serial'
      BY <1>0, <1>1, <2>2
    <2>5. /\ removal'.got \subseteq Serials
          /\ \A n \in removal'.got : n <= serial'
      BY ServerAssumption, <1>1 DEF IInv, Numbered, TypeOK, Serials
    <2> QED BY <2>3, <2>4, <2>5 DEF Numbered
  <1>8. ASSUME NEW r, Consistent(r)
        PROVE  Consistent(r)'
    BY <1>0, <1>4, <1>8 DEF Consistent
  <1>9. ASSUME NEW r, r.channel = id, r.serial = serial + 1
        PROVE  Consistent(r)'
    BY <1>0, <1>3, <1>9 DEF Consistent
  <1>10. RefsConsistent'
    <2>1. \A r \in told' : Consistent(r)'
      <3>1. \A r \in told' : r \in told \/ (r.channel = id /\ r.serial = serial + 1)
        BY <1>0
      <3> QED BY <3>1, <1>8, <1>9 DEF IInv, RefsConsistent
    <2>2. /\ \A r \in sends' : Consistent(r)'
          /\ \A r \in failed' : Consistent(r)'
          /\ \A r \in sweep' : Consistent(r)'
      BY <1>1, <1>8 DEF IInv, RefsConsistent
    <2>3. ASSUME NEW q \in TcpPeers
          PROVE  assigned'[q] = NoRef \/ Consistent(assigned[q])'
      <3>1. assigned'[q] = assigned[q] \/ assigned'[q] = ref
        BY <1>0 DEF IInv, TypeOK
      <3>2. CASE assigned'[q] = ref
        <4>1. assigned'[q].channel = id /\ assigned'[q].serial = serial + 1
          BY <3>2
        <4> QED BY <4>1, <1>9 DEF Consistent
      <3>3. CASE assigned'[q] = assigned[q]
        BY <1>8, <3>3 DEF IInv, RefsConsistent, Consistent
      <3> QED BY <3>1, <3>2, <3>3
    <2> QED BY <2>1, <2>2, <2>3 DEF RefsConsistent
  <1>11. FirstHolderSafe'
    <2>1. serial + 1 \notin removal.got
      BY ServerAssumption DEF IInv, Numbered, TypeOK, Serials
    <2>2. removal.got \cap firsts' \subseteq removal.meant
      BY <1>0, <2>1 DEF IInv, FirstHolderSafe
    <2> QED BY <1>1, <2>2 DEF FirstHolderSafe
  <1> QED BY <1>5, <1>6, <1>7, <1>10, <1>11 DEF IInv

(* Every other step removes by references it holds, takes references from
   the table, or leaves the table alone. *)
LEMMA NextKeepsInv == IInv /\ [Next]_vars => IInv'
  <1> SUFFICES ASSUME IInv, [Next]_vars PROVE IInv'
    OBVIOUS
  <1> USE DEF table, refs, links
  <1>1. ASSUME NEW p \in Peers, SessionRequest(p) PROVE IInv'
    <2>1. secure' \in [Peers -> {"none", "keyed", "authenticated"}]
      BY <1>1 DEF SessionRequest, IInv, TypeOK
    <2> QED BY <1>1, <2>1 DEF SessionRequest, IInv, TypeOK, ChannelsDistinct, Numbered,
              RefsConsistent, Consistent, FirstHolderSafe
  <1>2. ASSUME NEW p \in Peers, NEW ok \in BOOLEAN, SessionAuthenticate(p, ok)
        PROVE  IInv'
    <2>1. secure' \in [Peers -> {"none", "keyed", "authenticated"}]
      BY <1>2 DEF SessionAuthenticate, IInv, TypeOK
    <2> QED BY <1>2, <2>1 DEF SessionAuthenticate, IInv, TypeOK, ChannelsDistinct, Numbered,
              RefsConsistent, Consistent, FirstHolderSafe
  <1>3. ASSUME NEW p \in Peers, NEW replied \in BOOLEAN, Connect(p, replied)
        PROVE  IInv'
    BY <1>3, ConnectKeepsInv
  <1>4. ASSUME NEW p \in Peers, ConnectRefused(p) PROVE IInv'
    BY <1>4, Zenon DEF ConnectRefused, vars, IInv, TypeOK, ChannelsDistinct, Numbered,
              RefsConsistent, Consistent, FirstHolderSafe
  <1>5. ASSUME NEW t \in told, Heartbeat(t.peer, t.channel) PROVE IInv'
    <2>1. expired' \subseteq Serials
      BY <1>5 DEF Heartbeat, IInv, TypeOK
    <2> QED BY <1>5, <2>1 DEF Heartbeat, IInv, TypeOK, ChannelsDistinct, Numbered,
              RefsConsistent, Consistent, FirstHolderSafe
  <1>6. ASSUME NEW t \in told, Disconnect(t) PROVE IInv'
    <2>0. /\ Remove({t.channel}, {t.serial}, "disconnect") /\ Consistent(t)
          /\ UNCHANGED <<serial, used, firsts, refs, links>>
      BY <1>6 DEF Disconnect, IInv, RefsConsistent
    <2>1. /\ sessions' \subseteq sessions /\ expired' \subseteq Serials
          /\ ChannelsDistinct' /\ Numbered' /\ FirstHolderSafe'
      BY <2>0, RemoveOne, Zenon
    <2>2. secure' \in [Peers -> {"none", "keyed", "authenticated"}]
      BY <1>6, Zenon DEF Disconnect, IInv, TypeOK
    <2>3. TypeOK'
      BY <2>0, <2>1, <2>2 DEF IInv, TypeOK
    <2>4. RefsConsistent'
      BY <2>0, <2>1, RefsKept DEF IInv
    <2> QED BY <2>1, <2>3, <2>4 DEF IInv
  <1>7. ASSUME NEW p \in TcpPeers, Accept(p) \/ StreamEnds(p) PROVE IInv'
    <2>1. stream' \in [TcpPeers -> {"new", "open", "ended", "done"}]
      BY <1>7 DEF Accept, StreamEnds, IInv, TypeOK
    <2>2. UNCHANGED <<table, refs, assigned, secure, removal>>
      BY <1>7 DEF Accept, StreamEnds
    <2> QED BY <2>1, <2>2 DEF IInv, TypeOK, ChannelsDistinct, Numbered,
              RefsConsistent, Consistent, FirstHolderSafe
  <1>8. ASSUME NEW p \in TcpPeers, StreamCleanUp(p) PROVE IInv'
    <2>0. /\ Remove({assigned[p].channel}, {assigned[p].serial}, "stream")
          /\ UNCHANGED <<serial, used, firsts, refs, assigned>>
      BY <1>8 DEF StreamCleanUp
    <2>1. /\ sessions' \subseteq sessions /\ expired' \subseteq Serials
          /\ ChannelsDistinct' /\ Numbered' /\ FirstHolderSafe'
      <3>1. CASE Consistent(assigned[p])
        BY <2>0, <3>1, RemoveOne
      <3>2. CASE assigned[p] = NoRef
        <4>1. Hit({assigned[p].channel}) = {}
          BY <3>2 DEF NoRef, Hit, IInv, TypeOK, Session, Channels
        <4>2. /\ sessions' = sessions /\ expired' = expired
              /\ removal'.got = {}
          BY <2>0, <4>1 DEF Remove, SerialsOf
        <4> QED BY <2>0, <4>2
                DEF IInv, TypeOK, ChannelsDistinct, Numbered, FirstHolderSafe
      <3> QED BY <3>1, <3>2 DEF IInv, RefsConsistent
    <2>2. secure' \in [Peers -> {"none", "keyed", "authenticated"}]
      BY <1>8, Zenon DEF StreamCleanUp, IInv, TypeOK
    <2>3. stream' \in [TcpPeers -> {"new", "open", "ended", "done"}]
      BY <1>8 DEF StreamCleanUp, IInv, TypeOK
    <2>4. TypeOK'
      BY <2>0, <2>1, <2>2, <2>3 DEF IInv, TypeOK
    <2>5. RefsConsistent'
      BY <2>0, <2>1, RefsKept DEF IInv
    <2> QED BY <2>1, <2>4, <2>5 DEF IInv
  <1>9. CASE SendStart
    <2>1. \A r \in sends' : r \in Ref /\ Consistent(r)
      BY <1>9, RefToConsistent DEF SendStart
    <2>2. UNCHANGED <<table, told, failed, sweep, links, secure, removal>>
      BY <1>9 DEF SendStart
    <2>3. RefsConsistent'
      BY <2>1, <2>2 DEF IInv, RefsConsistent, Consistent
    <2> QED BY <2>1, <2>2, <2>3
            DEF IInv, TypeOK, ChannelsDistinct, Numbered, FirstHolderSafe
  <1>10. ASSUME NEW r \in sends, NEW ok \in BOOLEAN, SendTry(r, ok)
         PROVE  IInv'
    <2>1. /\ sends' \subseteq sends /\ failed' \subseteq {r}
          /\ UNCHANGED <<table, told, sweep, links, secure, removal>>
      BY <1>10 DEF SendTry
    <2>2. RefsConsistent'
      BY <2>1 DEF IInv, RefsConsistent, Consistent
    <2> QED BY <2>1, <2>2
            DEF IInv, TypeOK, ChannelsDistinct, Numbered, FirstHolderSafe
  <1>11. ASSUME NEW r \in failed, SendRemoveFailed(r) PROVE IInv'
    <2>0. /\ Remove({r.channel}, {r.serial}, "send") /\ Consistent(r)
          /\ failed' = {}
          /\ UNCHANGED <<serial, used, firsts, told, sends, sweep, links, secure>>
      BY <1>11 DEF SendRemoveFailed, IInv, RefsConsistent
    <2>1. /\ sessions' \subseteq sessions /\ expired' \subseteq Serials
          /\ ChannelsDistinct' /\ Numbered' /\ FirstHolderSafe'
      BY <2>0, RemoveOne
    <2>2. TypeOK'
      BY <2>0, <2>1 DEF IInv, TypeOK
    <2>3. RefsConsistent'
      BY <2>0, <2>1, RefsKept DEF IInv
    <2> QED BY <2>1, <2>2, <2>3 DEF IInv
  <1>12. ASSUME NEW s \in sessions, GoStale(s) PROVE IInv'
    <2>1. expired' \subseteq Serials
      BY <1>12 DEF GoStale, IInv, TypeOK, Session
    <2> QED BY <1>12, <2>1, Zenon DEF GoStale, IInv, TypeOK, ChannelsDistinct, Numbered,
              RefsConsistent, Consistent, FirstHolderSafe
  <1>13. CASE SweepCollect
    <2>1. \A r \in sweep' : r \in Ref /\ Consistent(r)
      BY <1>13, RefToConsistent, Zenon DEF SweepCollect, Stale
    <2>2. UNCHANGED <<table, told, sends, failed, links, secure, removal>>
      BY <1>13 DEF SweepCollect
    <2>3. RefsConsistent'
      BY <2>1, <2>2 DEF IInv, RefsConsistent, Consistent
    <2> QED BY <2>1, <2>2, <2>3, Zenon DEF IInv, TypeOK, ChannelsDistinct, Numbered, FirstHolderSafe
  <1>14. CASE SweepRemove
    <2>0. /\ Remove({r.channel : r \in sweep}, {r.serial : r \in sweep}, "sweep")
          /\ \A r \in sweep : Consistent(r)
          /\ sweep' = {}
          /\ UNCHANGED <<serial, used, firsts, told, sends, failed, links, secure>>
      BY <1>14 DEF SweepRemove, IInv, RefsConsistent
    <2>1. /\ sessions' \subseteq sessions /\ expired' \subseteq Serials
          /\ ChannelsDistinct' /\ Numbered' /\ FirstHolderSafe'
      BY <2>0, RemoveMany, Zenon
    <2>2. TypeOK'
      BY <2>0, <2>1 DEF IInv, TypeOK
    <2>3. RefsConsistent'
      BY <2>0, <2>1, RefsKept DEF IInv
    <2> QED BY <2>1, <2>2, <2>3 DEF IInv
  <1>15. CASE UNCHANGED vars
    BY <1>15 DEF vars, IInv, TypeOK, ChannelsDistinct, Numbered, RefsConsistent,
              Consistent, FirstHolderSafe
  <1> QED
    BY <1>1, <1>2, <1>3, <1>4, <1>5, <1>6, <1>7, <1>8, <1>9, <1>10, <1>11,
       <1>12, <1>13, <1>14, <1>15 DEF Next

-----------------------------------------------------------------------------
(* Every reachable state satisfies the inductive invariant. *)
THEOREM Invariant == Spec => []IInv
  BY InitInv, NextKeepsInv, PTL DEF Spec

(* Every field keeps its type, whatever the number of clients. *)
THEOREM TypeCorrect == Spec => []TypeOK
  <1>1. IInv => TypeOK
    BY DEF IInv
  <1> QED BY Invariant, <1>1, PTL

(* handle_connect_request never gives a channel to two sessions at a time. *)
THEOREM ChannelsDistinctHolds == Spec => []ChannelsDistinct
  <1>1. IInv => ChannelsDistinct
    BY DEF IInv
  <1> QED BY Invariant, <1>1, PTL

(* The first session on a channel is removed only by a removal that meant
   it, although every removal goes by channel id. *)
THEOREM FirstHolderSafeHolds == Spec => []FirstHolderSafe
  <1>1. IInv => FirstHolderSafe
    BY DEF IInv
  <1> QED BY Invariant, <1>1, PTL

(* A secure endpoint opens channels for authenticated peers only. *)
THEOREM OnlyAuthenticatedConnectHolds == Spec => OnlyAuthenticatedConnect
  <1>1. [Next]_vars =>
          [\A s \in sessions' \ sessions :
              SecureRequired => secure[s.peer] = "authenticated"]_vars
    <2> SUFFICES ASSUME Next, NEW s \in sessions' \ sessions, SecureRequired
                 PROVE  secure[s.peer] = "authenticated"
      OBVIOUS
    <2>1. ~(sessions' \subseteq sessions)
      OBVIOUS
    <2>2. PICK p \in Peers, replied \in BOOLEAN : Connect(p, replied)
      BY <2>1, Zenon DEF Next, SessionRequest, SessionAuthenticate, ConnectRefused,
           Heartbeat, Disconnect, Accept, StreamEnds, StreamCleanUp, SendStart,
           SendTry, SendRemoveFailed, GoStale, SweepCollect, SweepRemove, Remove,
           table, vars
    <2>3. s.peer = p
      BY <2>2 DEF Connect
    <2> QED BY <2>2, <2>3, Zenon DEF Connect, MayDispatch
  <1> QED BY <1>1, PTL DEF Spec, OnlyAuthenticatedConnect

-----------------------------------------------------------------------------
(* Every step of a loop is a step of the table or leaves it alone. *)
LEMMA LoopsStep == LoopsNext => [Next]_vars
  <1> SUFFICES ASSUME LoopsNext PROVE [Next]_vars
    OBVIOUS
  <1>1. CASE \E p \in Peers : HandleFrame(p)
    <2>1. PICK p \in Peers : HandleFrame(p)
      BY <1>1
    <2>2. CASE \E t \in told : t.peer = p /\ Heartbeat(p, t.channel)
      BY <2>2, Zenon DEF Next
    <2>3. CASE \/ SessionRequest(p) \/ \E ok \in BOOLEAN : SessionAuthenticate(p, ok)
               \/ \E replied \in BOOLEAN : Connect(p, replied)
               \/ ConnectRefused(p)
               \/ \E t \in told : Disconnect(t)
      BY <2>3, Zenon DEF Next
    <2> QED BY <2>1, <2>2, <2>3, Zenon DEF HandleFrame
  <1>2. CASE \E p \in TcpPeers : AcceptStream(p) \/ StreamFails(p)
    BY <1>2, Zenon DEF AcceptStream, StreamFails, Next
  <1>3. CASE \E l \in Loops : LoopStep(l)
    <2>1. PICK l \in Loops : LoopStep(l)
      BY <1>3
    <2>2. CASE Check(l)
      BY <2>2, Zenon DEF Check, Next
    <2>3. CASE Select(l) \/ Woken(l)
      BY <2>3, Zenon DEF Select, Woken
    <2> QED BY <2>1, <2>2, <2>3 DEF LoopStep
  <1>4. CASE ShutdownStore \/ ShutdownNotify \/ SweepWakes \/ SweepFindsNone
    BY <1>4, Zenon DEF ShutdownStore, ShutdownNotify, SweepWakes, SweepFindsNone
  <1>5. CASE SweepStep
    BY <1>5, Zenon DEF SweepStep, SweepCollects, SweepRemoves, Next
  <1>6. CASE Others
    BY <1>6, Zenon DEF Others, Next
  <1> QED
    BY <1>1, <1>2, <1>3, <1>4, <1>5, <1>6, Zenon DEF LoopsNext

LoopsSpec == LoopsInit /\ [][LoopsNext]_loopVars

(* The loops implement the session table. *)
THEOREM LoopsImplementServer == LoopsSpec => Spec
  <1>1. LoopsInit => Init
    BY DEF LoopsInit
  <1>2. [LoopsNext]_loopVars => [Next]_vars
    BY LoopsStep DEF loopVars
  <1> QED BY <1>1, <1>2, PTL DEF LoopsSpec, Spec

-----------------------------------------------------------------------------
(* The shutdown.  A loop that has handled an event since the flag was raised
   is on its way to the flag: it does not wait again, except for the sweep,
   whose wait leads to the flag and not to the table. *)
Heading ==
    \A l \in Loops :
       after[l] = 1 => IF l = "sweep" THEN at[l] # "body" ELSE at[l] \in {"check", "ended"}
StreamsEnded ==
    \A p \in TcpPeers :
       shutdown # "no" /\ stream[p] \in {"ended", "done"} => at[p] = "ended"
ShutInv ==
    /\ at \in [Loops -> Places] /\ after \in [Loops -> {0, 1}]
    /\ stream \in [TcpPeers -> {"new", "open", "ended", "done"}]
    /\ shutdown = "no" => \A l \in Loops : at[l] = "running" /\ after[l] = 0
    /\ Heading /\ StreamsEnded

LEMMA ShutInit == LoopsInit => ShutInv
  <1> SUFFICES ASSUME LoopsInit PROVE ShutInv
    OBVIOUS
  <1>1. /\ at = [l \in Loops |-> "running"] /\ after = [l \in Loops |-> 0]
        /\ shutdown = "no" /\ stream = [p \in TcpPeers |-> "new"]
    BY DEF LoopsInit, Init
  <1> QED BY <1>1 DEF ShutInv, Heading, StreamsEnded, Places

(* One loop moves, and handles an event or not. *)
LEMMA MoveKeeps ==
  ASSUME ShutInv, NEW l \in Loops, NEW place \in Places,
         at' = [at EXCEPT ![l] = place], stream' = stream, shutdown' = shutdown,
         \/ after' = after
         \/ after' = [after EXCEPT ![l] = @ + 1] /\ after[l] = 0,
         shutdown # "no",
         after'[l] = 1 => IF l = "sweep" THEN place # "body" ELSE place \in {"check", "ended"},
         l \in TcpPeers /\ stream[l] \in {"ended", "done"} => place = "ended"
  PROVE  ShutInv'
  <1>1. /\ at' \in [Loops -> Places] /\ at'[l] = place
        /\ \A k \in Loops : k # l => at'[k] = at[k]
    BY DEF ShutInv
  <1>2. /\ after' \in [Loops -> {0, 1}]
        /\ \A k \in Loops : k # l => after'[k] = after[k]
    BY DEF ShutInv
  <1>3. Heading'
    BY <1>1, <1>2 DEF ShutInv, Heading
  <1>4. StreamsEnded'
    BY <1>1 DEF ShutInv, StreamsEnded, Loops
  <1> QED BY <1>1, <1>2, <1>3, <1>4 DEF ShutInv

(* What leaves the loops where they are. *)
LEMMA StayKeeps ==
  ASSUME ShutInv, UNCHANGED <<shutdown, at, after>>,
         stream' \in [TcpPeers -> {"new", "open", "ended", "done"}],
         \A p \in TcpPeers : stream'[p] \in {"ended", "done"}
                              => shutdown = "no" \/ at[p] = "ended"
  PROVE  ShutInv'
  BY DEF ShutInv, Heading, StreamsEnded

LEMMA HandleFrameKeeps ==
  ASSUME ShutInv, NEW p \in Peers, HandleFrame(p)
  PROVE  ShutInv'
  <1>1. stream' = stream
    BY Zenon DEF HandleFrame, SessionRequest, SessionAuthenticate, Connect, ConnectRefused,
                 Heartbeat, Disconnect, links, vars
  <1>2. /\ LoopOf(p) \in Loops /\ LoopOf(p) # "sweep"
        /\ LoopOf(p) \in TcpPeers => stream[LoopOf(p)] = "open"
    BY LoopsAssumption DEF HandleFrame, LoopOf, Loops, Selecting
  <1>3. GoesOn(LoopOf(p), "check") /\ Reaches(LoopOf(p))
    BY Zenon DEF HandleFrame
  <1>4. CASE shutdown = "no"
    <2>1. UNCHANGED <<shutdown, at, after>>
      BY <1>3, <1>4 DEF GoesOn, shut
    <2> QED BY <1>1, <1>4, <2>1, StayKeeps DEF ShutInv
  <1>5. CASE shutdown # "no"
    <2>1. /\ at' = [at EXCEPT ![LoopOf(p)] = "check"] /\ shutdown' = shutdown
          /\ after' = [after EXCEPT ![LoopOf(p)] = @ + 1]
          /\ at[LoopOf(p)] \in {"wait", "woken"}
      BY <1>3, <1>5 DEF GoesOn, Reaches
    <2>2. after[LoopOf(p)] = 0
      BY <1>2, <2>1 DEF ShutInv, Heading
    <2>3. "check" \in Places
      BY DEF Places
    <2> QED BY <1>1, <1>2, <1>5, <2>1, <2>2, <2>3, MoveKeeps, Zenon
  <1> QED BY <1>4, <1>5

LEMMA AcceptKeeps ==
  ASSUME ShutInv, NEW p \in TcpPeers, AcceptStream(p)
  PROVE  ShutInv'
  <1>1. /\ stream[p] = "new" /\ stream' = [stream EXCEPT ![p] = "open"]
        /\ Reaches("accept")
    BY Zenon DEF AcceptStream, Accept
  <1>2. /\ stream' \in [TcpPeers -> {"new", "open", "ended", "done"}]
        /\ stream'[p] = "open" /\ \A q \in TcpPeers : q # p => stream'[q] = stream[q]
    BY <1>1 DEF ShutInv
  <1>3. CASE shutdown = "no"
    <2>1. UNCHANGED <<shutdown, at, after>>
      BY <1>3, Zenon DEF AcceptStream, shut
    <2> QED BY <1>2, <1>3, <2>1, StayKeeps
  <1>4. CASE shutdown # "no"
    <2>1. /\ at' = [at EXCEPT !["accept"] = "check", ![p] = "check"]
          /\ after' = [after EXCEPT !["accept"] = @ + 1] /\ shutdown' = shutdown
          /\ at["accept"] \in {"wait", "woken"}
      BY <1>1, <1>4 DEF AcceptStream, Reaches
    <2>2. /\ "accept" \in Loops /\ p \in Loops /\ p # "accept" /\ p # "sweep"
          /\ "accept" \notin TcpPeers
      BY LoopsAssumption DEF Loops, Selecting
    <2>3. after["accept"] = 0
      BY <2>1, <2>2 DEF ShutInv, Heading
    <2>4. /\ at' \in [Loops -> Places] /\ at'["accept"] = "check" /\ at'[p] = "check"
          /\ \A k \in Loops : k # p /\ k # "accept" => at'[k] = at[k]
      BY <2>1, <2>2 DEF ShutInv, Places
    <2>5. /\ after' \in [Loops -> {0, 1}]
          /\ \A k \in Loops : k # "accept" => after'[k] = after[k]
      BY <2>1, <2>2, <2>3 DEF ShutInv
    <2>6. Heading'
      BY <2>2, <2>4, <2>5 DEF ShutInv, Heading
    <2>7. StreamsEnded'
      BY <1>2, <2>1, <2>2, <2>4 DEF ShutInv, StreamsEnded, Loops
    <2> QED BY <1>2, <1>4, <2>1, <2>4, <2>5, <2>6, <2>7 DEF ShutInv
  <1> QED BY <1>3, <1>4

(* The loop of a stream ends, and with it the stream. *)
LEMMA EndKeeps ==
  ASSUME ShutInv, NEW p \in TcpPeers, shutdown # "no", UNCHANGED <<shutdown, after>>,
         at' = [at EXCEPT ![p] = "ended"],
         stream' = [stream EXCEPT ![p] = "ended"]
  PROVE  ShutInv'
  <1>1. p \in Loops /\ p # "sweep"
    BY LoopsAssumption DEF Loops, Selecting
  <1>2. /\ at' \in [Loops -> Places] /\ at'[p] = "ended"
        /\ \A k \in Loops : k # p => at'[k] = at[k]
    BY <1>1 DEF ShutInv, Places
  <1>3. /\ stream' \in [TcpPeers -> {"new", "open", "ended", "done"}]
        /\ \A q \in TcpPeers : q # p => stream'[q] = stream[q]
    BY DEF ShutInv
  <1>4. Heading'
    BY <1>1, <1>2 DEF ShutInv, Heading
  <1>5. StreamsEnded'
    BY <1>2, <1>3 DEF ShutInv, StreamsEnded, Loops
  <1> QED BY <1>2, <1>3, <1>4, <1>5 DEF ShutInv

LEMMA StreamFailsKeeps ==
  ASSUME ShutInv, NEW p \in TcpPeers, StreamFails(p)
  PROVE  ShutInv'
  <1>1. stream' = [stream EXCEPT ![p] = "ended"] /\ UNCHANGED <<shutdown, after>>
    BY Zenon DEF StreamFails, StreamEnds
  <1>2. CASE shutdown = "no"
    <2>1. at' = at
      BY <1>2, Zenon DEF StreamFails
    <2>2. stream' \in [TcpPeers -> {"new", "open", "ended", "done"}]
      BY <1>1 DEF ShutInv
    <2> QED BY <1>1, <1>2, <2>1, <2>2, StayKeeps
  <1>3. CASE shutdown # "no"
    <2>1. at' = [at EXCEPT ![p] = "ended"]
      BY <1>3, Zenon DEF StreamFails
    <2> QED BY <1>1, <1>3, <2>1, EndKeeps, Zenon
  <1> QED BY <1>2, <1>3

LEMMA LoopStepKeeps ==
  ASSUME ShutInv, NEW l \in Loops, LoopStep(l)
  PROVE  ShutInv'
  <1>0. shutdown # "no" /\ UNCHANGED <<shutdown, after>>
    BY DEF LoopStep, Check, Select, Woken, ShutInv
  <1>1. CASE Check(l)
    <2>1. at' = [at EXCEPT ![l] = "ended"]
      BY <1>1, Zenon DEF Check, AfterCheck
    <2>2. CASE l \in TcpPeers
      <3>1. stream' = [stream EXCEPT ![l] = "ended"]
        BY <1>1, <2>2, Zenon DEF Check, AfterCheck, StreamEnds
      <3> QED BY <1>0, <2>1, <2>2, <3>1, EndKeeps, Zenon
    <2>3. CASE l \notin TcpPeers
      <3>1. stream' = stream
        BY <1>1, <2>3, Zenon DEF Check, vars, links
      <3>2. "ended" \in Places
        BY DEF Places
      <3> QED BY <1>0, <2>1, <2>3, <3>1, <3>2, MoveKeeps, Zenon
    <2> QED BY <2>2, <2>3
  <1>2. CASE Select(l)
    <2>1. /\ at[l] = "select" /\ at' = [at EXCEPT ![l] = "wait"] /\ stream' = stream
          /\ "wait" \in Places
      BY <1>2 DEF Select, vars, links, Places
    <2>2. /\ after[l] = 1 => l = "sweep"
          /\ l \in TcpPeers => stream[l] \notin {"ended", "done"}
      BY <1>0, <2>1 DEF ShutInv, Heading, StreamsEnded
    <2> QED BY <1>0, <2>1, <2>2, MoveKeeps, Zenon
  <1>3. CASE Woken(l)
    <2>1. at' = [at EXCEPT ![l] = "ended"] /\ stream' = stream /\ "ended" \in Places
      BY <1>3 DEF Woken, vars, links, Places
    <2> QED BY <1>0, <2>1, MoveKeeps, Zenon
  <1> QED BY <1>1, <1>2, <1>3 DEF LoopStep

LEMMA SweepKeeps ==
  ASSUME ShutInv, SweepWakes \/ SweepFindsNone \/ SweepStep
  PROVE  ShutInv'
  <1>0. /\ "sweep" \in Loops /\ "sweep" \notin TcpPeers
        /\ {"check", "select"} \subseteq Places
    BY LoopsAssumption DEF Loops, Selecting, Places
  <1>1. ASSUME NEW place \in {"check", "select"}, at' = [at EXCEPT !["sweep"] = place],
               stream' = stream, shutdown' = shutdown, shutdown # "no",
               \/ after' = after
               \/ after' = [after EXCEPT !["sweep"] = @ + 1] /\ after["sweep"] = 0
        PROVE  ShutInv'
    BY <1>0, <1>1, MoveKeeps, Zenon
  <1>2. CASE SweepWakes \/ SweepFindsNone
    <2>1. /\ at["sweep"] # "running" /\ UNCHANGED <<stream, shutdown, after>>
          /\ \E place \in {"check", "select"} : at' = [at EXCEPT !["sweep"] = place]
      BY <1>2 DEF SweepWakes, SweepFindsNone, vars, links
    <2>2. shutdown # "no"
      BY <1>0, <2>1 DEF ShutInv
    <2> QED BY <1>1, <2>1, <2>2, Zenon
  <1>3. CASE SweepCollects
    <2>1. UNCHANGED <<shutdown, at, after, stream>>
      BY <1>3, Zenon DEF SweepCollects, SweepCollect, shut, links
    <2> QED BY <2>1, StayKeeps DEF ShutInv, StreamsEnded
  <1>4. CASE SweepRemoves
    <2>1. stream' = stream /\ Sweeping /\ GoesOn("sweep", "select")
      BY <1>4, Zenon DEF SweepRemoves, SweepRemove, links
    <2>2. CASE shutdown = "no"
      <3>1. UNCHANGED <<shutdown, at, after>>
        BY <2>1, <2>2 DEF GoesOn, shut
      <3> QED BY <2>1, <2>2, <3>1, StayKeeps DEF ShutInv
    <2>3. CASE shutdown # "no"
      <3>1. /\ at["sweep"] = "body" /\ at' = [at EXCEPT !["sweep"] = "select"]
            /\ after' = [after EXCEPT !["sweep"] = @ + 1] /\ shutdown' = shutdown
        BY <2>1, <2>3 DEF Sweeping, GoesOn
      <3>2. after["sweep"] = 0
        BY <1>0, <3>1 DEF ShutInv, Heading
      <3> QED BY <1>1, <2>1, <2>3, <3>1, <3>2
    <2> QED BY <2>2, <2>3
  <1> QED BY <1>2, <1>3, <1>4 DEF SweepStep

LEMMA ShutdownKeeps ==
  ASSUME ShutInv, ShutdownStore \/ ShutdownNotify
  PROVE  ShutInv'
  <1>1. stream' = stream /\ after' = after
    BY Zenon DEF ShutdownStore, ShutdownNotify, vars, links
  <1>2. CASE ShutdownStore
    <2>1. /\ shutdown = "no" /\ shutdown' = "stored" /\ at' \in [Loops -> Places]
          /\ \A l \in Loops : at'[l] \in PlacesOf(l)
      BY <1>2 DEF ShutdownStore
    <2>2. \A l \in Loops : after[l] = 0
      BY <2>1 DEF ShutInv
    <2>3. ASSUME NEW p \in TcpPeers, stream[p] \in {"ended", "done"} PROVE at'[p] = "ended"
      <3>1. p \in Loops /\ p \notin {"dispatch", "accept"} /\ p # "sweep"
        BY LoopsAssumption DEF Loops
      <3>2. PlacesOf(p) = {"ended"}
        BY <2>3, <3>1 DEF PlacesOf
      <3> QED BY <2>1, <3>1, <3>2
    <2> QED BY <1>1, <2>1, <2>2, <2>3 DEF ShutInv, Heading, StreamsEnded
  <1>3. CASE ShutdownNotify
    <2>1. /\ shutdown = "stored" /\ shutdown' = "notified"
          /\ at' = [l \in Loops |-> IF l \in Selecting /\ at[l] = "wait" THEN "woken"
                                   ELSE at[l]]
      BY <1>3 DEF ShutdownNotify
    <2>2. /\ at' \in [Loops -> Places]
          /\ \A l \in Loops : at'[l] = at[l] \/ (at[l] = "wait" /\ at'[l] = "woken")
          /\ \A p \in TcpPeers : at'[p] = at[p]
      BY <2>1, LoopsAssumption DEF ShutInv, Places, Loops, Selecting
    <2>3. Heading'
      BY <1>1, <2>2 DEF ShutInv, Heading
    <2>4. StreamsEnded'
      BY <1>1, <2>1, <2>2 DEF ShutInv, StreamsEnded
    <2> QED BY <1>1, <2>1, <2>2, <2>3, <2>4 DEF ShutInv
  <1> QED BY <1>2, <1>3

LEMMA OthersKeep ==
  ASSUME ShutInv, Others
  PROVE  ShutInv'
  <1>0. UNCHANGED <<shutdown, at, after>>
    BY Zenon DEF Others, shut
  <1>1. CASE \E p \in TcpPeers : StreamCleanUp(p)
    <2>1. PICK p \in TcpPeers : stream[p] = "ended" /\ stream' = [stream EXCEPT ![p] = "done"]
      BY <1>1, Zenon DEF StreamCleanUp
    <2>2. /\ stream' \in [TcpPeers -> {"new", "open", "ended", "done"}]
          /\ \A q \in TcpPeers : q # p => stream'[q] = stream[q]
      BY <2>1 DEF ShutInv
    <2> QED BY <1>0, <2>1, <2>2, StayKeeps DEF ShutInv, StreamsEnded
  <1>2. CASE stream' = stream
    BY <1>0, <1>2, StayKeeps DEF ShutInv, StreamsEnded
  <1> QED
    BY <1>1, <1>2, Zenon DEF Others, SendStart, SendTry, SendRemoveFailed, GoStale, links

LEMMA ShutInvariant == LoopsSpec => []ShutInv
  <1>1. ShutInv /\ [LoopsNext]_loopVars => ShutInv'
    <2> SUFFICES ASSUME ShutInv, [LoopsNext]_loopVars PROVE ShutInv'
      OBVIOUS
    <2>1. CASE LoopsNext
      BY <2>1, ShutdownKeeps, HandleFrameKeeps, AcceptKeeps, StreamFailsKeeps,
         LoopStepKeeps, SweepKeeps, OthersKeep, Zenon DEF LoopsNext
    <2>2. CASE UNCHANGED loopVars
      BY <2>2 DEF loopVars, vars, links, shut, ShutInv, Heading, StreamsEnded
    <2> QED BY <2>1, <2>2
  <1> QED BY ShutInit, <1>1, PTL DEF LoopsSpec

(* A loop handles at most one event after the flag was raised, and a stream
   that has ended has no loop any more, whatever the number of streams and
   wherever the loops are when shutdown is called. *)
THEOREM LoopsShutdown == LoopsSpec => []ShutdownTakesHold
  <1>1. ShutInv => ShutdownTakesHold
    BY DEF ShutInv, StreamsEnded, ShutdownTakesHold
  <1> QED BY ShutInvariant, <1>1, PTL

(* The variables of the loops have their types. *)
THEOREM LoopsTypeCorrect == LoopsSpec => []LoopsTypeOK
  <1> DEFINE T == usage \in Usage /\ shutdown \in {"no", "stored", "notified"}
  <1>1. LoopsInit => T
    BY LoopsAssumption DEF LoopsInit
  <1>2. T /\ [LoopsNext]_loopVars => T'
    <2> SUFFICES ASSUME T, [LoopsNext]_loopVars PROVE T'
      OBVIOUS
    <2>1. usage' = usage /\ shutdown' \in {shutdown, "stored", "notified"}
      BY Zenon DEF LoopsNext, loopVars, shut, ShutdownStore, ShutdownNotify, HandleFrame, GoesOn,
         AcceptStream, StreamFails, LoopStep, Check, Select, Woken, SweepWakes, SweepFindsNone,
         SweepStep, SweepCollects, SweepRemoves, Others
    <2> QED BY <2>1
  <1>3. T /\ ShutInv /\ TypeOK => LoopsTypeOK
    BY DEF ShutInv, LoopsTypeOK
  <1>4. LoopsSpec => []TypeOK
    BY LoopsImplementServer, TypeCorrect, PTL
  <1>5. LoopsSpec => []T
    BY <1>1, <1>2, PTL DEF LoopsSpec
  <1> QED BY <1>3, <1>4, <1>5, ShutInvariant, PTL

-----------------------------------------------------------------------------
(* Beside the traffic the loops do what they do alone. *)
LEMMA ServiceRunsLoops == ServiceSpec => LoopsSpec
  <1>1. ServiceInit => LoopsInit
    BY DEF ServiceInit
  <1>2. [ServiceNext]_<<loopVars, linkVars>> => [LoopsNext]_loopVars
    BY DEF ServiceNext
  <1> QED BY <1>1, <1>2, PTL DEF ServiceSpec, LoopsSpec

(* The loops, and the traffic beside them, implement the session table. *)
THEOREM ServiceImplementsServer == ServiceSpec => Spec
  BY ServiceRunsLoops, LoopsImplementServer, PTL

(* So the first session on a channel is safe from whatever is not meant for
   it also while the loops shut down. *)
THEOREM ServiceFirstHolderSafe == ServiceSpec => []FirstHolderSafe
  BY ServiceImplementsServer, FirstHolderSafeHolds, PTL

(* And a loop that has not yet seen the flag opens no channel for a peer
   whose password was not verified. *)
THEOREM ServiceOnlyAuthenticated == ServiceSpec => OnlyAuthenticatedConnect
  BY ServiceImplementsServer, OnlyAuthenticatedConnectHolds, PTL

(* A loop handles at most one event after the flag was raised, and a stream
   that has ended has no loop any more, whatever the number of streams and
   wherever the loops are when shutdown is called. *)
THEOREM ShutdownHolds == ServiceSpec => []ShutdownTakesHold
  BY ServiceRunsLoops, LoopsShutdown, PTL

(* And the traffic beside the loops is that of a session alone. *)
LEMMA ServiceRunsLink == ServiceSpec => LinkSpec
  <1>1. ServiceInit => LinkInit
    BY DEF ServiceInit
  <1>2. [ServiceNext]_<<loopVars, linkVars>> => [LinkNext]_linkVars
    BY DEF ServiceNext
  <1> QED BY <1>1, <1>2, PTL DEF ServiceSpec, LinkSpec

(* The variables of the loops and of the traffic have their types: the
   channels are those of the pool, the sequence numbers are in range, and
   every datagram under way carries a telegram that was sent. *)
THEOREM ServiceTypeCorrect == ServiceSpec => []ServiceTypeOK
  <1>1. LoopsTypeOK /\ LinkTypeOK => ServiceTypeOK
    BY DEF ServiceTypeOK
  <1> QED
    BY <1>1, ServiceRunsLoops, LoopsTypeCorrect, ServiceRunsLink, LinkTypeCorrect, PTL

(* The i-th telegram the server hands on has a number congruent to i,
   whatever is lost, duplicated or reordered and however long the traffic
   goes on (validate_recv_seq, build_outgoing_frame_for_connection). *)
THEOREM BroadcastHolds == ServiceSpec => []BroadcastKeepsStep
  BY ServiceRunsLink, LinkBroadcast, PTL

(* The client hands each telegram on at most once and in order, however the
   network loses, repeats and reorders and however late the acks come, as
   long as no request outlives a turn of the sequence counter
   (validate_sequence_number; the counter is a u8). *)
THEOREM DeliveredInOrder == ServiceSpec /\ []NoneOutlivesATurn => []DeliveredOnceInOrder
  BY ServiceRunsLink, LinkDeliveredInOrder, PTL

(* A session that sends fewer telegrams than the counter's range needs no
   such premise. *)
THEOREM ShortSessionInOrder ==
  ASSUME \A s \in Settings : s.toClient < SeqMod
  PROVE  ServiceSpec => []DeliveredOnceInOrder
  BY ServiceRunsLink, LinkShortSessionInOrder, PTL

(* When acks come in time, get through and come once, a telegram whose send
   returned Ok has been handed on, the ends agree between two sends, and a
   session survives the loss of one datagram: for any number of telegrams,
   calls and losses (send_to_session, handle_tunnelling_ack). *)
THEOREM RetryWorksHolds == ServiceSpec => []RetryWorks
  BY ServiceRunsLink, LinkRetryWorks, PTL
=============================================================================
