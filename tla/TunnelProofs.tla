---------------------------- MODULE TunnelProofs ----------------------------
(***************************************************************************)
(* A client's tunnels, for any number of them, any range of addresses and  *)
(* whatever the network does.  First what runs beside a client's calls,    *)
(* for any number of frames, requests and repetitions: the numbers of a    *)
(* secure session, its handshake and the heartbeat.  Then addresses, the   *)
(* search for a free one, and all of it together.                          *)
(***************************************************************************)
EXTENDS Tunnel, TLAPS

LEMMA SessionBounds ==
  ASSUME setting \in Settings
  PROVE  setting.frames \in Nat /\ setting.senders \in Nat /\ setting.duplicates \in Nat
  BY SettingAssumption, Zenon DEF Setting

LEMMA HandshakeBounds ==
  ASSUME setting \in Settings
  PROVE  /\ setting.connects \in Nat /\ setting.repeats \in Nat /\ setting.issued \in Nat
         /\ setting.device \in BOOLEAN /\ setting.password \in BOOLEAN
  BY SettingAssumption, Zenon DEF Setting

LEMMA HeartbeatBounds ==
  ASSUME setting \in Settings
  PROVE  setting.replies \in Nat /\ setting.sendErrors \in Nat
  BY SettingAssumption, Zenon DEF Setting

-----------------------------------------------------------------------------
(* The handshake.  What the frames under way say of the client's present
   attempt; and, as long as none has come twice, that each attempt has at most
   one, so that nothing can touch the server's entry of an attempt that is
   complete. *)
Entry(k) == [key |-> k, authenticated |-> TRUE]
Says(m) ==
    /\ m.attempt <= attempt
    /\ m.kind = "response" => m.key \in setting.issued + 1 .. keys /\ (m.ok => setting.device)
    /\ m.kind = "authenticate" /\ m.ok => setting.password
    /\ m.kind = "authenticate" /\ m.attempt = attempt => m.key = derived /\ setting.device
    /\ m.kind = "status" /\ m.ok /\ m.attempt = attempt
          => derived \in verified /\ setting.device /\ setting.password
    /\ m.attempt = attempt /\ awaiting = "response" => m.kind \in {"request", "response"}
Single(m) ==
    /\ \A n \in mail : m.attempt = n.attempt => m = n
    /\ awaiting = "status" /\ m.attempt = attempt => m.kind \in {"authenticate", "status"}
    /\ m.kind = "status" /\ m.ok /\ m.attempt = attempt => entry[attempt] = Entry(derived)
Held(k) ==
    \E a \in 1 .. attempt : entry[a] = Entry(k) /\ \A m \in mail : m.attempt # a

ShInv ==
    /\ ShTypeOK /\ setting.issued <= keys
    /\ \A m \in mail : Says(m)
    /\ repeats = 0 => \A m \in mail : Single(m)

LEMMA ShInitial == ASSUME setting \in Settings, ShInit PROVE ShInv
  <1>1. ShTypeOK
    BY HandshakeBounds DEF ShInit, ShTypeOK, NoEntry
  <1> QED BY <1>1, HandshakeBounds DEF ShInit, ShInv

(* A frame is taken, and perhaps answered. *)
LEMMA TakeFacts ==
  ASSUME setting \in Settings, ShInv, UNCHANGED setting, NEW m \in mail, NEW answers, Take(m, answers)
  PROVE  /\ mail' \subseteq mail \cup answers
         /\ repeats' \in 0 .. setting.repeats
         /\ repeats' = 0 => repeats = 0 /\ mail' = (mail \ {m}) \cup answers
  BY HandshakeBounds DEF Take, ShInv, ShTypeOK

(* What every step of the handshake keeps. *)
ShKept ==
    /\ ShInv'
    /\ keys <= keys' /\ verified \subseteq verified'
    /\ repeats' = 0 => repeats = 0 /\ \A k : Held(k) => Held(k)'

LEMMA Requested ==
  ASSUME setting \in Settings, ShInv, UNCHANGED setting, SessionRequest, attempt < setting.connects
  PROVE  ShKept
  <1> DEFINE new == Frame("request", attempt + 1, 0, TRUE)
  <1>1. /\ attempt' = attempt + 1 /\ awaiting' = "response" /\ derived' = 0
        /\ mail' = {m \in mail : m.kind \notin ToClient} \cup {new}
        /\ UNCHANGED <<entry, keys, verified, repeats>>
    BY Zenon DEF SessionRequest
  <1>2. new \in ShFrame /\ new.attempt = attempt + 1 /\ new.kind = "request"
    BY HandshakeBounds DEF ShInv, ShTypeOK, ShFrame, Frame
  <1> HIDE DEF new
  <1>3. /\ attempt \in Nat /\ keys \in Nat
        /\ \A m \in mail : m.attempt \in Nat /\ m.attempt <= attempt
    BY DEF ShInv, ShTypeOK, ShFrame, Says
  <1>4. ShTypeOK'
    BY <1>1, <1>2, HandshakeBounds DEF ShInv, ShTypeOK, ShFrame
  <1>5. \A m \in mail' : Says(m)'
    BY <1>1, <1>2, <1>3 DEF ShInv, Says
  <1>6. repeats' = 0 => \A m \in mail' : Single(m)'
    BY <1>1, <1>2, <1>3 DEF ShInv, Single
  <1>7. \A k : Held(k) => Held(k)'
    BY <1>1, <1>2, <1>3 DEF Held
  <1> QED BY <1>1, <1>3, <1>4, <1>5, <1>6, <1>7 DEF ShKept, ShInv

LEMMA RequestHandled ==
  ASSUME setting \in Settings, ShInv, UNCHANGED setting, NEW m \in mail, HandleSessionRequest(m)
  PROVE  ShKept
  <1> DEFINE new == Frame("response", m.attempt, keys + 1, setting.device)
  <1>1. /\ m.kind = "request" /\ keys' = keys + 1
        /\ entry' = [entry EXCEPT ![m.attempt] = [key |-> keys + 1, authenticated |-> FALSE]]
        /\ Take(m, {new}) /\ UNCHANGED <<attempt, awaiting, derived, verified>>
    BY Zenon DEF HandleSessionRequest, ProcessSessionRequest
  <1>2. /\ m \in ShFrame /\ m.attempt \in 1 .. setting.connects /\ m.attempt <= attempt
        /\ keys \in Nat /\ attempt \in Nat /\ setting.issued <= keys
    BY DEF ShInv, ShTypeOK, ShFrame, Says
  <1>3. /\ new \in ShFrame /\ new.attempt = m.attempt /\ new.kind = "response"
        /\ new.key = keys + 1 /\ new.ok = setting.device
    BY <1>2, HandshakeBounds DEF ShFrame, Frame
  <1> HIDE DEF new
  <1>4. /\ mail' \subseteq mail \cup {new} /\ repeats' \in 0 .. setting.repeats
        /\ repeats' = 0 => repeats = 0 /\ mail' = (mail \ {m}) \cup {new}
    BY <1>1, TakeFacts, Zenon
  <1>5. ShTypeOK'
    <2>1. [key |-> keys + 1, authenticated |-> FALSE] \in [key : Nat, authenticated : BOOLEAN]
      BY <1>2
    <2>2. entry' \in [1 .. setting.connects -> [key : Nat, authenticated : BOOLEAN]]
      BY <1>1, <1>2, <2>1, Zenon DEF ShInv, ShTypeOK
    <2> QED BY <1>1, <1>2, <1>3, <1>4, <2>2 DEF ShInv, ShTypeOK, ShFrame
  <1>6. \A n \in mail' : Says(n)'
    BY <1>1, <1>2, <1>3, <1>4, HandshakeBounds DEF ShInv, Says
  <1>7. repeats' = 0 => \A n \in mail' : Single(n)'
    BY <1>1, <1>2, <1>3, <1>4 DEF ShInv, ShTypeOK, Says, Single
  <1>8. repeats' = 0 => \A k : Held(k) => Held(k)'
    BY <1>1, <1>2, <1>3, <1>4 DEF ShInv, ShTypeOK, Held
  <1> QED BY <1>1, <1>2, <1>4, <1>5, <1>6, <1>7, <1>8, HandshakeBounds DEF ShKept, ShInv

LEMMA AuthenticateHandled ==
  ASSUME setting \in Settings, ShInv, UNCHANGED setting, NEW m \in mail,
         HandleSessionAuthenticate(m)
  PROVE  ShKept
  <1> DEFINE ok == VerifyAuthenticateMac(m)
             known == entry[m.attempt] # NoEntry
             new == Frame("status", m.attempt, 0, ok)
             e == IF ok /\ known THEN Entry(entry[m.attempt].key) ELSE NoEntry
  <1>1. /\ m.kind = "authenticate" /\ entry' = [entry EXCEPT ![m.attempt] = e]
        /\ verified' = IF ok /\ known THEN verified \cup {entry[m.attempt].key} ELSE verified
        /\ Take(m, IF known THEN {new} ELSE {})
        /\ UNCHANGED <<attempt, awaiting, derived, keys>>
    BY Zenon DEF HandleSessionAuthenticate, Entry
  <1>2. /\ m \in ShFrame /\ m.attempt \in 1 .. setting.connects /\ m.attempt <= attempt
        /\ keys \in Nat /\ attempt \in Nat /\ setting.issued <= keys
        /\ entry[m.attempt].key \in Nat
    BY DEF ShInv, ShTypeOK, ShFrame, Says
  <1>3. ok \in BOOLEAN /\ (ok => m.ok /\ m.key = entry[m.attempt].key)
    BY <1>2, Zenon DEF VerifyAuthenticateMac, ShFrame
  <1>4. ok /\ known => e = Entry(m.key)
    BY <1>3, Zenon
  <1> HIDE DEF ok
  <1>5. /\ new \in ShFrame /\ new.attempt = m.attempt /\ new.kind = "status" /\ new.ok = ok
    BY <1>2, <1>3, Zenon DEF ShFrame, Frame
  <1>6. e \in [key : Nat, authenticated : BOOLEAN]
    BY <1>2, Zenon DEF Entry, NoEntry
  <1> HIDE DEF new, e
  <1>7. /\ mail' \subseteq mail \cup {new} /\ repeats' \in 0 .. setting.repeats
        /\ ~known => mail' \subseteq mail
        /\ repeats' = 0 => repeats = 0 /\ mail' \subseteq (mail \ {m}) \cup {new}
    BY <1>1, TakeFacts
  <1> HIDE DEF known
  <1>8. ShTypeOK'
    <2>1. entry' \in [1 .. setting.connects -> [key : Nat, authenticated : BOOLEAN]]
      BY <1>1, <1>2, <1>6, Zenon DEF ShInv, ShTypeOK
    <2>2. verified' \subseteq Nat
      BY <1>1, <1>2, Zenon DEF ShInv, ShTypeOK
    <2> QED BY <1>1, <1>2, <1>5, <1>7, <2>1, <2>2, Zenon DEF ShInv, ShTypeOK, ShFrame
  <1>9. verified \subseteq verified' /\ (ok /\ known => m.key \in verified')
    BY <1>1, <1>3, Zenon
  <1>10. ASSUME NEW n \in mail' PROVE Says(n)'
    <2>1. CASE n \in mail
      BY <1>1, <1>9, <2>1, Zenon DEF ShInv, Says
    <2>2. CASE n = new /\ known
      BY <1>1, <1>2, <1>3, <1>5, <1>9, <2>2, Zenon DEF ShInv, Says
    <2> QED BY <1>7, <2>1, <2>2, Zenon
  <1>11. ASSUME repeats' = 0, NEW n \in mail' PROVE Single(n)'
    <2>1. CASE n \in mail /\ n # m
      BY <1>1, <1>2, <1>5, <1>7, <1>11, <2>1 DEF ShInv, ShTypeOK, Single
    <2>2. CASE n = new /\ known
      <3>1. \A q \in mail' : n.attempt = q.attempt => n = q
        BY <1>5, <1>7, <1>11, <2>2, Zenon DEF ShInv, Single
      <3>2. n.ok /\ n.attempt = attempt => entry'[attempt] = Entry(derived)
        BY <1>1, <1>2, <1>3, <1>4, <1>5, <2>2, Zenon DEF ShInv, ShTypeOK, Says
      <3> QED BY <1>1, <1>5, <2>2, <3>1, <3>2, Zenon DEF Single, Entry
    <2>3. CASE n = m /\ n # new
      BY <1>7, <1>11, <2>3, Zenon
    <2> QED BY <1>1, <1>5, <1>7, <1>11, <2>1, <2>2, <2>3, Zenon
  <1>12. repeats' = 0 => \A k : Held(k) => Held(k)'
    BY <1>1, <1>2, <1>5, <1>7 DEF ShInv, ShTypeOK, Held, Entry
  <1> QED BY <1>1, <1>2, <1>7, <1>8, <1>9, <1>10, <1>11, <1>12 DEF ShKept, ShInv

LEMMA ResponseProcessed ==
  ASSUME setting \in Settings, ShInv, UNCHANGED setting, NEW m \in mail, ProcessSessionResponse(m)
  PROVE  ShKept
  <1> DEFINE new == Frame("authenticate", attempt, m.key, setting.password)
  <1>1. /\ awaiting = "response" /\ m.attempt = attempt /\ m.kind = "response" /\ m.ok
        /\ derived' = m.key /\ awaiting' = "status"
        /\ Take(m, {new}) /\ UNCHANGED <<attempt, entry, keys, verified>>
    BY Zenon DEF ProcessSessionResponse, GenerateAuthenticateMac, Arrived
  <1>2. /\ m \in ShFrame /\ m.attempt \in 1 .. setting.connects /\ m.key \in Nat
        /\ keys \in Nat /\ attempt \in Nat /\ setting.issued <= keys /\ setting.device
    BY <1>1 DEF ShInv, ShTypeOK, ShFrame, Says
  <1>3. /\ new \in ShFrame /\ new.attempt = attempt /\ new.kind = "authenticate"
        /\ new.key = m.key /\ new.ok = setting.password
    BY <1>1, <1>2, HandshakeBounds, Zenon DEF ShFrame, Frame
  <1> HIDE DEF new
  <1>4. /\ mail' \subseteq mail \cup {new} /\ repeats' \in 0 .. setting.repeats
        /\ repeats' = 0 => repeats = 0 /\ mail' = (mail \ {m}) \cup {new}
    BY <1>1, TakeFacts, Zenon
  <1>5. ShTypeOK'
    BY <1>1, <1>2, <1>3, <1>4 DEF ShInv, ShTypeOK, ShFrame
  <1>6. \A n \in mail' : Says(n)'
    BY <1>1, <1>2, <1>3, <1>4, HandshakeBounds DEF ShInv, Says
  <1>7. repeats' = 0 => \A n \in mail' : Single(n)'
    BY <1>1, <1>2, <1>3, <1>4 DEF ShInv, ShTypeOK, Single, Entry
  <1>8. repeats' = 0 => \A k : Held(k) => Held(k)'
    BY <1>1, <1>2, <1>3, <1>4 DEF Held, Entry
  <1> QED BY <1>1, <1>2, <1>4, <1>5, <1>6, <1>7, <1>8, HandshakeBounds DEF ShKept, ShInv

(* A frame is lost, or is taken without an answer, or nothing comes. *)
LEMMA MailShrinks ==
  ASSUME setting \in Settings, ShInv, UNCHANGED setting, mail' \subseteq mail,
         repeats' \in 0 .. setting.repeats, repeats' = 0 => repeats = 0,
         awaiting' \in {awaiting, "none"},
         UNCHANGED <<attempt, derived, entry, keys, verified>>
  PROVE  ShKept
  <1>1. ShTypeOK' /\ keys \in Nat /\ setting.issued <= keys
    BY Zenon DEF ShInv, ShTypeOK, ShFrame
  <1>2. \A n \in mail' : Says(n)'
    BY DEF ShInv, Says
  <1>3. repeats' = 0 => \A n \in mail' : Single(n)'
    BY Zenon DEF ShInv, Single, Entry
  <1>4. \A k : Held(k) => Held(k)'
    BY Zenon DEF Held, Entry
  <1> QED BY <1>1, <1>2, <1>3, <1>4 DEF ShKept, ShInv

LEMMA ShStep == ASSUME setting \in Settings, ShInv, UNCHANGED setting, ShNext PROVE ShKept
  <1>1. ASSUME NEW m \in mail, ShLose(m) PROVE ShKept
    <2>1. /\ mail' \subseteq mail /\ repeats' \in 0 .. setting.repeats /\ awaiting' = awaiting
          /\ UNCHANGED <<attempt, derived, entry, keys, verified, repeats>>
      BY <1>1, Zenon DEF ShLose, ShInv, ShTypeOK
    <2> QED BY <2>1, MailShrinks, Zenon
  <1> QED BY <1>1, RequestHandled, AuthenticateHandled, ResponseProcessed, Zenon DEF ShNext

-----------------------------------------------------------------------------
(* The numbers of a secure session.  What has been accepted is not above the
   record; and what one sender has on a stream is in order, and above it. *)
Recorded ==
    \A i \in DOMAIN accepted : accepted[i] <= sequence_number_received
Above(n) == sequence_number_received # 0 => n > sequence_number_received
InStep ==
    setting.fifo /\ setting.senders = 1 =>
       /\ rejected = 0
       /\ \A i \in DOMAIN wire : Above(wire[i]) /\ wire[i] < sequence_number
       /\ \A i, j \in DOMAIN wire : i < j => wire[i] < wire[j]
       /\ Len(held) <= 1
       /\ \A h \in DOMAIN held : /\ Above(held[h]) /\ held[h] < sequence_number
                                 /\ \A i \in DOMAIN wire : wire[i] < held[h]
       /\ Above(sequence_number)
SsInv == SsTypeOK /\ Recorded /\ AcceptedInOrder /\ InStep

LEMMA SsInitial == ASSUME setting \in Settings, SsInit PROVE SsInv
  BY SessionBounds DEF SsInit, SsInv, SsTypeOK, Recorded, AcceptedInOrder, InStep, Above

LEMMA SsRenewed == ASSUME setting \in Settings, SsInv, SsRenew, UNCHANGED setting PROVE SsInv'
  BY SessionBounds DEF SsRenew, SsInv, SsTypeOK, Recorded, AcceptedInOrder, InStep, Above

LEMMA Joined ==
  ASSUME NEW S, NEW a \in Seq(S), NEW b \in Seq(S)
  PROVE  /\ a \o b \in Seq(S)
         /\ Len(a \o b) = Len(a) + Len(b)
         /\ \A j \in 1 .. Len(a) + Len(b) :
               (a \o b)[j] = IF j <= Len(a) THEN a[j] ELSE b[j - Len(a)]
  OBVIOUS

(* What is left of a sequence without its element i, or its first one. *)
LEMMA WithoutFacts ==
  ASSUME NEW S, NEW seq \in Seq(S), NEW i \in 1 .. Len(seq)
  PROVE  /\ Without(seq, i) \in Seq(S)
         /\ Len(Without(seq, i)) = Len(seq) - 1
         /\ i = 1 => \A j \in 1 .. Len(seq) - 1 : Without(seq, i)[j] = seq[j + 1]
  <1> DEFINE before == SubSeq(seq, 1, i - 1)
             after == SubSeq(seq, i + 1, Len(seq))
             whole == before \o after
  <1>1. Len(seq) \in Nat /\ i \in Nat
    OBVIOUS
  <1>2. before \in Seq(S) /\ Len(before) = i - 1
    BY <1>1
  <1>3. /\ after \in Seq(S) /\ Len(after) = Len(seq) - i
        /\ \A j \in 1 .. Len(seq) - i : after[j] = seq[i + j]
    BY <1>1
  <1>4. Without(seq, i) = whole
    BY Zenon DEF Without
  <1> HIDE DEF before, after
  <1>5. /\ whole \in Seq(S)
        /\ Len(whole) = Len(before) + Len(after)
        /\ \A j \in 1 .. Len(before) + Len(after) :
              whole[j] = IF j <= Len(before) THEN before[j] ELSE after[j - Len(before)]
    BY <1>2, <1>3, Joined, Zenon
  <1> HIDE DEF whole
  <1>6. Len(whole) = Len(seq) - 1
    BY <1>1, <1>2, <1>3, <1>5
  <1>7. ASSUME i = 1, NEW j \in 1 .. Len(seq) - 1 PROVE whole[j] = seq[j + 1]
    <2>1. Len(before) = 0 /\ Len(after) = Len(seq) - 1
      BY <1>1, <1>2, <1>3, <1>7
    <2>2. whole[j] = after[j]
      BY <1>1, <1>5, <2>1
    <2> QED BY <1>1, <1>3, <1>7, <2>2
  <1> QED BY <1>4, <1>5, <1>6, <1>7, Zenon

LEMMA Numbers ==
  ASSUME NEW n \in Nat, NEW seq \in Seq(0 .. n - 1)
  PROVE  /\ seq \in Seq(Nat) /\ Len(seq) \in Nat /\ DOMAIN seq = 1 .. Len(seq)
         /\ \A i \in DOMAIN seq : seq[i] \in Nat /\ seq[i] \in 0 .. n - 1
  <1>1. \A i \in DOMAIN seq : seq[i] \in Nat /\ seq[i] \in 0 .. n - 1
    OBVIOUS
  <1>2. Len(seq) \in Nat /\ DOMAIN seq = 1 .. Len(seq)
    OBVIOUS
  <1>3. seq \in Seq(Nat)
    BY <1>1, <1>2
  <1> QED BY <1>1, <1>2, <1>3, Zenon

LEMMA Encrypted == ASSUME setting \in Settings, SsInv, EncryptFrame, UNCHANGED setting PROVE SsInv'
  <1>1. SsTypeOK'
    BY SessionBounds DEF SsInv, SsTypeOK, EncryptFrame
  <1>2. Recorded' /\ AcceptedInOrder'
    BY Zenon DEF SsInv, Recorded, AcceptedInOrder, EncryptFrame
  <1>3. InStep'
    <2> SUFFICES ASSUME setting.fifo, setting.senders = 1 PROVE InStep'
      BY Zenon DEF InStep, EncryptFrame
    <2>1. /\ Len(held') = 1 /\ held'[1] = sequence_number
          /\ sequence_number' = sequence_number + 1
          /\ UNCHANGED <<wire, sequence_number_received, rejected>>
      BY DEF EncryptFrame, SsInv, SsTypeOK
    <2>2. /\ sequence_number \in Nat /\ sequence_number_received \in Nat
      BY SessionBounds DEF SsInv, SsTypeOK
    <2>3. \A i \in DOMAIN wire : wire[i] \in Nat
      BY SessionBounds, Numbers, Zenon DEF SsInv, SsTypeOK
    <2> QED BY <2>1, <2>2, <2>3 DEF SsInv, InStep, Above
  <1> QED BY <1>1, <1>2, <1>3, Zenon DEF SsInv

LEMMA Transmitted ==
  ASSUME setting \in Settings, SsInv, NEW h \in DOMAIN held, Transmit(h), UNCHANGED setting
  PROVE  SsInv'
  <1>0. /\ held \in Seq(0 .. setting.frames - 1) /\ wire \in Seq(0 .. setting.frames - 1)
        /\ sequence_number \in Nat /\ sequence_number_received \in Nat /\ setting.frames \in Nat
    BY SessionBounds DEF SsInv, SsTypeOK
  <1>1. /\ h \in 1 .. Len(held) /\ held[h] \in 0 .. setting.frames - 1
        /\ held' = Without(held, h) /\ wire' = Append(wire, held[h])
        /\ UNCHANGED <<sequence_number, sequence_number_received, accepted, rejected, duplicates>>
    BY <1>0 DEF Transmit
  <1>2. Without(held, h) \in Seq(0 .. setting.frames - 1) /\ Len(Without(held, h)) = Len(held) - 1
    BY <1>0, <1>1, WithoutFacts, Zenon
  <1>3. SsTypeOK'
    BY <1>0, <1>1, <1>2 DEF SsInv, SsTypeOK
  <1>4. Recorded' /\ AcceptedInOrder'
    BY <1>1, Zenon DEF SsInv, Recorded, AcceptedInOrder
  <1>5. InStep'
    <2> SUFFICES ASSUME setting.fifo, setting.senders = 1 PROVE InStep'
      BY <1>1, Zenon DEF InStep
    <2>1. Len(held') = 0 /\ held' \in Seq(0 .. setting.frames - 1)
      BY <1>0, <1>1, <1>2 DEF SsInv, InStep
    <2>2. /\ Len(wire') = Len(wire) + 1 /\ wire'[Len(wire) + 1] = held[h]
          /\ \A i \in 1 .. Len(wire) : wire'[i] = wire[i]
          /\ DOMAIN wire' = 1 .. Len(wire) + 1 /\ DOMAIN wire = 1 .. Len(wire)
      BY <1>0, <1>1
    <2>a. Len(wire) \in Nat
      BY <1>0
    <2>3. ASSUME NEW i \in 1 .. Len(wire) + 1
          PROVE  /\ sequence_number_received # 0 => wire'[i] > sequence_number_received
                 /\ wire'[i] < sequence_number
      <3>1. i \in 1 .. Len(wire) \/ i = Len(wire) + 1
        BY <2>a
      <3> QED BY <1>1, <2>2, <3>1, Zenon DEF SsInv, InStep, Above
    <2>4. ASSUME NEW i \in 1 .. Len(wire) + 1, NEW j \in 1 .. Len(wire) + 1, i < j
          PROVE  wire'[i] < wire'[j]
      <3>1. i \in 1 .. Len(wire) /\ (j \in 1 .. Len(wire) \/ j = Len(wire) + 1)
        BY <2>a, <2>4
      <3> QED BY <1>1, <2>2, <2>4, <3>1 DEF SsInv, InStep
    <2>5. /\ rejected' = 0
          /\ sequence_number_received # 0 => sequence_number > sequence_number_received
      BY <1>1, Zenon DEF SsInv, InStep, Above
    <2>6. DOMAIN held' = {}
      BY <2>1
    <2> QED BY <1>1, <2>1, <2>2, <2>3, <2>4, <2>5, <2>6 DEF InStep, Above
  <1> QED BY <1>3, <1>4, <1>5, Zenon DEF SsInv

LEMMA Decrypted ==
  ASSUME setting \in Settings, SsInv, NEW i \in DOMAIN wire, DecryptFrame(wire[i]),
         UNCHANGED <<setting, sequence_number, held>>, wire' \in Seq(0 .. setting.frames - 1),
         duplicates' \in 0 .. setting.duplicates, setting.fifo => i = 1 /\ wire' = Without(wire, i)
  PROVE  SsInv'
  <1>0. /\ wire \in Seq(0 .. setting.frames - 1) /\ accepted \in Seq(0 .. setting.frames - 1)
        /\ sequence_number_received \in Nat /\ sequence_number \in Nat
    BY SessionBounds DEF SsInv, SsTypeOK
  <1>1. /\ wire \in Seq(Nat) /\ i \in 1 .. Len(wire) /\ wire[i] \in 0 .. setting.frames - 1
        /\ \A j \in DOMAIN wire : wire[j] \in Nat
    BY <1>0, SessionBounds, Numbers, Zenon
  <1>a. wire[i] \in Nat /\ wire[i] \in 0 .. setting.frames
    BY <1>1, SessionBounds
  <1>b. accepted \in Seq(Nat) /\ \A j \in DOMAIN accepted : accepted[j] \in Nat
    BY <1>0, SessionBounds, Numbers, Zenon
  <1>2. ASSUME setting.fifo
        PROVE  /\ i = 1 /\ DOMAIN wire = 1 .. Len(wire) /\ DOMAIN wire' = 1 .. Len(wire) - 1
               /\ \A j \in DOMAIN wire' : wire'[j] = wire[j + 1] /\ j + 1 \in DOMAIN wire
               /\ \A j \in DOMAIN wire' : j \in Nat /\ 1 < j + 1
    <2>1. /\ Len(wire') = Len(wire) - 1 /\ i = 1
          /\ \A j \in 1 .. Len(wire) - 1 : wire'[j] = wire[j + 1]
      BY <1>1, <1>2, WithoutFacts, Zenon
    <2>2. wire' \in Seq(Nat) /\ DOMAIN wire' = 1 .. Len(wire')
      BY SessionBounds, Numbers, Zenon
    <2>3. DOMAIN wire = 1 .. Len(wire) /\ Len(wire) \in Nat
      BY <1>1
    <2>4. DOMAIN wire' = 1 .. Len(wire) - 1
      BY <2>1, <2>2, Zenon
    <2>5. \A j \in 1 .. Len(wire) - 1 : j + 1 \in 1 .. Len(wire) /\ j \in Nat /\ 1 < j + 1
      BY <2>3
    <2> QED BY <2>1, <2>3, <2>4, <2>5, Zenon
  <1>3. CASE /\ IsReplay(wire[i]) /\ rejected' = rejected + 1
             /\ UNCHANGED <<sequence_number_received, accepted>>
    <2>1. SsTypeOK'
      BY <1>3 DEF SsInv, SsTypeOK
    <2>2. Recorded' /\ AcceptedInOrder'
      BY <1>3, Zenon DEF SsInv, Recorded, AcceptedInOrder
    <2>3. ~(setting.fifo /\ setting.senders = 1)
      BY <1>0, <1>a, <1>3 DEF SsInv, InStep, Above, IsReplay
    <2> QED BY <2>1, <2>2, <2>3, Zenon DEF SsInv, InStep
  <1>4. CASE /\ ~IsReplay(wire[i]) /\ sequence_number_received' = wire[i]
             /\ accepted' = Append(accepted, wire[i]) /\ UNCHANGED rejected
    <2>1. SsTypeOK'
      BY <1>1, <1>a, <1>4 DEF SsInv, SsTypeOK
    <2>2. /\ DOMAIN accepted' = 1 .. Len(accepted) + 1 /\ Len(accepted) \in Nat
          /\ DOMAIN accepted = 1 .. Len(accepted)
      BY <1>a, <1>b, <1>4
    <2>3. /\ accepted'[Len(accepted) + 1] = wire[i]
          /\ \A j \in DOMAIN accepted : accepted'[j] = accepted[j]
      BY <1>a, <1>b, <1>4
    <2>4. \A j \in DOMAIN accepted : accepted[j] < wire[i] \/ (accepted[j] = 0 /\ 0 <= wire[i])
      BY <1>0, <1>a, <1>b, <1>4 DEF SsInv, Recorded, IsReplay
    <2>5. Recorded'
      <3> SUFFICES ASSUME NEW j \in DOMAIN accepted' PROVE accepted'[j] <= wire[i]
        BY <1>4, Zenon DEF Recorded
      <3> QED BY <1>a, <1>b, <2>2, <2>3, <2>4
    <2>6. AcceptedInOrder'
      <3> SUFFICES ASSUME NEW j \in DOMAIN accepted', NEW k \in DOMAIN accepted', j < k
                   PROVE  \/ accepted'[j] < accepted'[k]
                          \/ accepted'[j] = 0 /\ accepted'[k] = 0
        BY Zenon DEF AcceptedInOrder
      <3>1. j \in DOMAIN accepted /\ (k \in DOMAIN accepted \/ k = Len(accepted) + 1)
        BY <2>2
      <3> QED BY <1>a, <1>b, <2>3, <2>4, <3>1 DEF SsInv, AcceptedInOrder
    <2>7. InStep'
      <3> SUFFICES ASSUME setting.fifo, setting.senders = 1 PROVE InStep'
        BY Zenon DEF InStep
      <3>1. \A h \in DOMAIN held : held[h] \in Nat
        BY SessionBounds, Numbers, Zenon DEF SsInv, SsTypeOK
      <3>2. rejected' = 0 /\ Len(held') <= 1
        BY <1>4, Zenon DEF SsInv, InStep
      <3>3. ASSUME NEW j \in DOMAIN wire'
            PROVE  wire'[j] > wire[i] /\ wire'[j] < sequence_number
        <4>1. wire[1] < wire[j + 1] /\ wire[j + 1] < sequence_number
          BY <1>2, <3>3, Zenon DEF SsInv, InStep
        <4> QED BY <1>2, <1>1, <3>3, <4>1, Zenon
      <3>4. ASSUME NEW j \in DOMAIN wire', NEW k \in DOMAIN wire', j < k
            PROVE  wire'[j] < wire'[k]
        <4>1. j + 1 < k + 1
          BY <1>2, <3>4
        <4> QED BY <1>2, <3>4, <4>1, Zenon DEF SsInv, InStep
      <3>5. \A h \in DOMAIN held : /\ held[h] > wire[i] /\ held[h] < sequence_number
                                   /\ \A j \in DOMAIN wire' : wire'[j] < held[h]
        BY <1>2, <1>a, <3>1, Zenon DEF SsInv, InStep
      <3>6. sequence_number > wire[i]
        BY <1>0, <1>a, Zenon DEF SsInv, InStep
      <3> QED BY <1>4, <3>2, <3>3, <3>4, <3>5, <3>6, Zenon DEF InStep, Above
    <2> QED BY <2>1, <2>5, <2>6, <2>7, Zenon DEF SsInv
  <1> QED BY <1>3, <1>4, Zenon DEF DecryptFrame

LEMMA SsStep == ASSUME setting \in Settings, SsInv, SsNext, UNCHANGED setting PROVE SsInv'
  <1>0. wire \in Seq(0 .. setting.frames - 1) /\ duplicates \in 0 .. setting.duplicates
    BY Zenon DEF SsInv, SsTypeOK
  <1>1. ASSUME NEW i \in DOMAIN wire, SsReceive(i) PROVE SsInv'
    <2>1. wire' = Without(wire, i) /\ wire' \in Seq(0 .. setting.frames - 1)
      BY <1>0, <1>1, WithoutFacts DEF SsReceive
    <2> QED BY <1>0, <1>1, <2>1, Decrypted, Zenon DEF SsReceive
  <1>2. ASSUME NEW i \in DOMAIN wire, SsReceiveCopy(i) PROVE SsInv'
    <2>1. ~setting.fifo /\ wire' = wire /\ duplicates' \in 0 .. setting.duplicates
      BY <1>0, <1>2, SessionBounds DEF SsReceiveCopy
    <2> QED BY <1>0, <1>2, <2>1, Decrypted, Zenon DEF SsReceiveCopy
  <1>3. ASSUME NEW i \in DOMAIN wire, SsLose(i) PROVE SsInv'
    <2>1. wire' \in Seq(0 .. setting.frames - 1)
      BY <1>0, <1>3, WithoutFacts DEF SsLose
    <2> QED BY <1>3, <2>1, Zenon DEF SsLose, SsInv, SsTypeOK, Recorded, AcceptedInOrder, InStep
  <1> QED BY <1>1, <1>2, <1>3, Encrypted, Transmitted, Zenon DEF SsNext

-----------------------------------------------------------------------------
(* The heartbeat.  Only the last waiter may be live, namely while a request
   waits for its answer; and a gateway that answers in time answers the one
   request there is. *)
Waiting == hb \in {"send", "wait"} /\ received = "none"
HbShape ==
    /\ received # "none" => hb \in {"send", "wait"} /\ waiters = <<>>
    /\ Waiting => /\ waiters # <<>> /\ Len(waiters) <= failures + 1
                  /\ waiters[Len(waiters)] = "live"
    /\ \A i \in DOMAIN waiters : waiters[i] = "live" => Waiting /\ i = Len(waiters)
    /\ hb \in {"none", "sleep"} => Len(waiters) <= failures
    /\ hb # "ended" => failures < MaxFailures
    /\ WaitersBounded
HbTimely ==
    setting.timely =>
       /\ alive /\ replies["error"] = 0 /\ received # "error"
       /\ failures <= sendErrors /\ (tunnel_lost => MaxFailures <= sendErrors)
       /\ hb \in {"none", "sleep", "send"} => replies["ok"] = 0 /\ received = "none"
       /\ hb = "wait" => replies["ok"] = IF received = "none" THEN 1 ELSE 0
HbInv == HbTypeOK /\ HbShape /\ HbTimely

LEMMA HbInitial == ASSUME setting \in Settings, HbInit PROVE HbInv
  <1>0. tunnel_lost \in BOOLEAN /\ alive \in BOOLEAN
    BY Zenon DEF HbInit
  <1>a. failures \in 0 .. MaxFailures /\ sendErrors \in 0 .. setting.sendErrors
    BY HeartbeatBounds DEF HbInit, MaxFailures
  <1>b. waiters \in Seq({"live", "dropped"}) /\ replies \in [Statuses -> 0 .. setting.replies]
    BY HeartbeatBounds DEF HbInit
  <1>1. HbTypeOK
    BY <1>0, <1>a, <1>b, Zenon DEF HbInit, HbTypeOK
  <1>2. HbShape
    BY DEF HbInit, HbShape, Waiting, WaitersBounded, MaxFailures
  <1>3. HbTimely
    BY DEF HbInit, HbTimely, MaxFailures, Statuses
  <1> QED BY <1>1, <1>2, <1>3, Zenon DEF HbInv

LEMMA HbStep == ASSUME setting \in Settings, HbInv, HbNext, UNCHANGED setting PROVE HbInv'
  <1> USE HeartbeatBounds DEF MaxFailures, Statuses
  <1>0. /\ waiters \in Seq({"live", "dropped"}) /\ Len(waiters) \in Nat /\ failures \in Nat
        /\ failures <= 3 /\ sendErrors \in Nat
        /\ replies \in [{"ok", "error"} -> 0 .. setting.replies]
        /\ replies["ok"] \in Nat /\ replies["error"] \in Nat
    BY DEF HbInv, HbTypeOK
  <1>1. CASE HbStart \/ GatewayDies
    <2>1. HbTypeOK'
      BY <1>0, <1>1, Zenon DEF HbStart, GatewayDies, HbInv, HbTypeOK
    <2>2. HbShape'
      BY <1>0, <1>1, Zenon DEF HbStart, GatewayDies, HbInv, HbShape, Waiting, WaitersBounded
    <2>3. HbTimely'
      BY <1>0, <1>1, Zenon DEF HbStart, GatewayDies, HbInv, HbTimely
    <2> QED BY <2>1, <2>2, <2>3, Zenon DEF HbInv
  <1>2. CASE HbRegister
    <2>b. /\ waiters' \in Seq({"live", "dropped"}) /\ Len(waiters') = Len(waiters) + 1
          /\ waiters'[Len(waiters) + 1] = "live"
          /\ \A i \in 1 .. Len(waiters) : waiters'[i] = waiters[i]
      BY <1>0, <1>2 DEF HbRegister
    <2>1. HbTypeOK'
      BY <1>2, <2>b, Zenon DEF HbRegister, HbInv, HbTypeOK
    <2>2. /\ waiters'[Len(waiters')] = "live" /\ waiters' # <<>>
          /\ \A i \in DOMAIN waiters' : i # Len(waiters')
                 => i \in DOMAIN waiters /\ waiters'[i] = waiters[i]
      BY <1>0, <2>b
    <2>3. HbShape'
      BY <1>0, <1>2, <2>b, <2>2 DEF HbRegister, HbInv, HbShape, Waiting, WaitersBounded
    <2>4. HbTimely'
      BY <1>2, Zenon DEF HbRegister, HbInv, HbTimely
    <2> QED BY <2>1, <2>3, <2>4, Zenon DEF HbInv
  <1>3. CASE HbSend
    <2>1. HbTypeOK'
      BY <1>0, <1>3 DEF HbSend, HbInv, HbTypeOK
    <2>3. HbShape'
      BY <1>0, <1>3, Zenon DEF HbSend, HbInv, HbShape, Waiting, WaitersBounded
    <2>4. HbTimely'
      BY <1>0, <1>3 DEF HbSend, HbInv, HbTimely
    <2> QED BY <2>1, <2>3, <2>4, Zenon DEF HbInv
  <1>4. ASSUME DropReceiver, hb' \in {"sleep", "ended"}, Len(waiters) <= failures',
               RecordFailure, hb \in {"send", "wait"}
        PROVE  HbShape' /\ received' = "none" /\ failures' \in 0 .. 3 /\ tunnel_lost' \in BOOLEAN
               /\ waiters' \in Seq({"live", "dropped"})
    <2>1. /\ waiters' = [i \in 1 .. Len(waiters) |-> "dropped"] /\ received' = "none"
          /\ failures' = failures + 1 /\ (hb' # "ended" => failures + 1 < 3)
      BY <1>0, <1>4 DEF DropReceiver, RecordFailure
    <2>2. waiters' \in Seq({"live", "dropped"}) /\ Len(waiters') = Len(waiters)
          /\ \A i \in DOMAIN waiters' : waiters'[i] # "live"
      BY <1>0, <2>1
    <2>3. failures < 3
      BY <1>4, Zenon DEF HbInv, HbShape
    <2> QED BY <1>0, <1>4, <2>1, <2>2, <2>3 DEF RecordFailure, HbShape, Waiting, WaitersBounded
  <1>5. Len(waiters) <= failures + 1 \/ hb = "ended"
    BY <1>0 DEF HbInv, HbShape, Waiting, HbTypeOK
  <1>6. CASE HbSendErr
    <2>1. HbShape' /\ received' = "none" /\ failures' \in 0 .. 3 /\ tunnel_lost' \in BOOLEAN
          /\ waiters' \in Seq({"live", "dropped"})
      BY <1>0, <1>4, <1>5, <1>6, Zenon DEF HbSendErr, RecordFailure
    <2>2. HbTypeOK'
      BY <1>0, <1>6, <2>1 DEF HbSendErr, HbInv, HbTypeOK, RecordFailure
    <2>a. tunnel_lost' => failures + 1 >= 3
      BY <1>6, Zenon DEF HbSendErr, RecordFailure
    <2>3. HbTimely'
      BY <1>0, <1>6, <2>1, <2>a DEF HbSendErr, HbInv, HbTimely, RecordFailure
    <2> QED BY <2>1, <2>2, <2>3, Zenon DEF HbInv
  <1>7. CASE HbTimeout
    <2>1. HbShape' /\ received' = "none" /\ failures' \in 0 .. 3 /\ tunnel_lost' \in BOOLEAN
          /\ waiters' \in Seq({"live", "dropped"})
      BY <1>0, <1>4, <1>5, <1>7, Zenon DEF HbTimeout, RecordFailure
    <2>2. HbTypeOK'
      BY <1>0, <1>7, <2>1, Zenon DEF HbTimeout, HbInv, HbTypeOK, RecordFailure
    <2>3. ~setting.timely
      BY <1>7 DEF HbTimeout, HbInv, HbTimely
    <2> QED BY <1>7, <2>1, <2>2, <2>3, Zenon DEF HbInv, HbTimely
  <1>8. CASE HbAnswered
    <2>1. waiters = <<>> /\ waiters' = <<>> /\ received' = "none" /\ hb = "wait"
      BY <1>8, Zenon DEF HbAnswered, HbInv, HbShape
    <2>a. tunnel_lost' \in BOOLEAN
      <3>1. RecordSuccess => tunnel_lost' \in BOOLEAN
        BY Zenon DEF RecordSuccess, HbInv, HbTypeOK
      <3>2. RecordFailure => tunnel_lost' \in BOOLEAN
        BY DEF RecordFailure
      <3> QED BY <1>8, <3>1, <3>2, Zenon DEF HbAnswered
    <2>b. failures < 3 /\ failures' \in 0 .. 3 /\ hb' \in {"sleep", "ended"}
      BY <1>0, <1>8, <2>1 DEF HbAnswered, RecordSuccess, RecordFailure, HbInv, HbShape
    <2>2. HbTypeOK'
      BY <1>8, <2>1, <2>a, <2>b, Zenon DEF HbAnswered, HbInv, HbTypeOK
    <2>3. HbShape'
      BY <1>0, <1>8, <2>1 DEF HbAnswered, RecordSuccess, RecordFailure, HbInv, HbShape, Waiting,
                              WaitersBounded
    <2>4. HbTimely'
      BY <1>0, <1>8, <2>1 DEF HbAnswered, RecordSuccess, RecordFailure, HbInv, HbTimely
    <2> QED BY <2>2, <2>3, <2>4, Zenon DEF HbInv
  <1>9. CASE HbStop
    <2>1. waiters' = [i \in 1 .. Len(waiters) |-> "dropped"] /\ received' = "none" /\ hb' = "ended"
      BY <1>0, <1>9 DEF HbStop, DropReceiver
    <2>2. waiters' \in Seq({"live", "dropped"}) /\ Len(waiters') = Len(waiters)
          /\ \A i \in DOMAIN waiters' : waiters'[i] # "live"
      BY <1>0, <2>1
    <2>3. HbTypeOK'
      BY <1>0, <1>9, <2>1, <2>2, Zenon DEF HbStop, HbInv, HbTypeOK
    <2> QED BY <1>0, <1>9, <2>1, <2>2, <2>3, Zenon DEF HbStop, HbInv, HbShape, HbTimely, Waiting,
                                                WaitersBounded
  <1>10. ASSUME NEW status \in {"ok", "error"}, Dispatch(status) PROVE HbInv'
    <2>1. /\ replies' = [replies EXCEPT ![status] = @ - 1] /\ replies[status] > 0
          /\ UNCHANGED <<hb, failures, tunnel_lost, alive, sendErrors>>
      BY <1>10, Zenon DEF Dispatch
    <2>2. replies' \in [{"ok", "error"} -> 0 .. setting.replies]
      BY <1>0, <2>1
    <2>3. CASE Live = {} /\ waiters' = <<>> /\ UNCHANGED received
      <3>1. ~Waiting
        BY <1>0, <2>3 DEF HbInv, HbShape, Live
      <3>2. HbTypeOK'
        BY <2>1, <2>2, <2>3 DEF HbInv, HbTypeOK
      <3>3. HbShape'
        BY <1>0, <2>1, <2>3, <3>1 DEF HbInv, HbShape, Waiting, WaitersBounded
      <3>4. HbTimely'
        BY <1>0, <2>1, <2>3, <3>1 DEF HbInv, HbTimely, Waiting
      <3> QED BY <3>2, <3>3, <3>4, Zenon DEF HbInv
    <2>4. ASSUME NEW i \in Live, waiters' = After(i), received' = status PROVE HbInv'
      <3>1. Waiting /\ i = Len(waiters)
        BY <2>4, Zenon DEF HbInv, HbShape, Live
      <3>2. waiters' = <<>>
        BY <1>0, <2>4, <3>1 DEF After
      <3>3. HbTypeOK'
        BY <2>1, <2>2, <2>4, <3>2 DEF HbInv, HbTypeOK
      <3>4. HbShape'
        BY <1>0, <2>1, <2>4, <3>1, <3>2 DEF HbInv, HbShape, Waiting, WaitersBounded
      <3>5. HbTimely'
        BY <1>0, <2>1, <2>4, <3>1 DEF HbInv, HbTimely, Waiting
      <3> QED BY <3>3, <3>4, <3>5, Zenon DEF HbInv
    <2> QED BY <1>10, <2>3, <2>4, Zenon DEF Dispatch
  <1> QED BY <1>1, <1>2, <1>3, <1>6, <1>7, <1>8, <1>9, <1>10, Zenon DEF HbNext, HbSteps

-----------------------------------------------------------------------------
(* What a setting says of the tunnels. *)
LEMMA SettingFacts ==
  ASSUME setting \in Settings
  PROVE  /\ setting.users \subseteq Tunnels
         /\ setting.configured \in [Tunnels -> Addresses \cup {NoAddress}]
         /\ setting.assigned \subseteq Addresses \cup {NoAddress}
         /\ setting.candidates \subseteq Addresses
         /\ setting.connects \in Nat /\ setting.strays \in Nat
         /\ setting.secure => Alone
  BY SettingAssumption DEF Setting, Alone

-----------------------------------------------------------------------------
(* The tunnels.  A careful application disconnects before it connects again,
   and drops nothing; a lonely tunnel has the registry and the bus for
   itself. *)
Careful == setting.tidy /\ ~setting.drops
Lonely == setting.strays = 0 /\ Alone /\ Careful
Taken == setting.devices \cup setting.occupied

(* What holds of each tunnel, between the steps of its call. *)
AddressInv(t) ==
    /\ pc[t] = "claim" => address[t] # NoAddress
    /\ t \notin setting.users => individual_address[t] = NoAddress
    /\ ~setting.managed => pc[t] \notin {"select", "probe", "claim"}
    /\ Careful =>
          /\ pc[t] \notin {"idle", "disconnect"} => individual_address[t] = NoAddress
          /\ pc[t] = "idle" /\ individual_address[t] # NoAddress => state[t] = "Connected"
          /\ pc[t] \in {"select", "probe", "claim"} => state[t] = "Connected"
SearchInv(t) ==
    /\ source[t] = "probe" => address[t] \in setting.candidates \ setting.occupied
    /\ pc[t] = "probe" => source[t] = "probe" /\ (address[t] \in setting.devices => answering[t])
    /\ source[t] = "probe" /\ (pc[t] = "claim" \/ individual_address[t] = address[t])
          => address[t] \notin setting.devices
    /\ Lonely /\ t \in setting.users =>
          /\ pc[t] = "select" => tried[t] \subseteq Taken
          /\ pc[t] = "probe" => /\ tried[t] \subseteq Taken \cup {address[t]}
                                /\ answering[t] => address[t] \in setting.devices
          /\ source[t] = "exhausted" => setting.candidates \subseteq Taken

TunnelInv ==
    /\ TunnelTypeOK
    /\ AddressesDistinct /\ UsedIsClaimed /\ NoClaimLeaks
    /\ ~setting.managed => claimed = {}
    /\ \A t \in Tunnels : AddressInv(t) /\ SearchInv(t)

LEMMA TunnelInitial == ASSUME setting \in Settings, Init PROVE TunnelInv
  <1>1. TunnelTypeOK
    BY SettingFacts DEF Init, TunnelTypeOK
  <1>2. AddressesDistinct /\ UsedIsClaimed /\ NoClaimLeaks /\ claimed = {}
    BY Zenon DEF Init, AddressesDistinct, UsedIsClaimed, NoClaimLeaks
  <1>3. \A t \in Tunnels : AddressInv(t)
    BY Zenon DEF Init, AddressInv
  <1>4. \A t \in Tunnels : SearchInv(t)
    BY Zenon DEF Init, SearchInv
  <1> QED BY <1>1, <1>2, <1>3, <1>4, Zenon DEF TunnelInv

(* The call of t goes on, and touches nothing of the other tunnels. *)
OnlyAt(t) ==
    \A u \in Tunnels : u # t =>
       /\ pc'[u] = pc[u] /\ state'[u] = state[u] /\ address'[u] = address[u]
       /\ individual_address'[u] = individual_address[u] /\ source'[u] = source[u]
       /\ tried'[u] = tried[u] /\ answering'[u] = answering[u]

LEMMA OthersKept ==
  ASSUME setting \in Settings, TunnelInv, UNCHANGED setting, NEW t \in Tunnels, OnlyAt(t),
         NEW u \in Tunnels, u # t
  PROVE  AddressInv(u)' /\ SearchInv(u)'
  <1>1. AddressInv(u) /\ SearchInv(u)
    BY Zenon DEF TunnelInv
  <1>2. AddressInv(u)'
    BY <1>1, Zenon DEF OnlyAt, AddressInv, Careful
  <1>3. SearchInv(u)'
    BY <1>1 DEF OnlyAt, SearchInv, Lonely, Careful, Alone, Taken
  <1> QED BY <1>2, <1>3, Zenon

LEMMA CallKeeps ==
  ASSUME setting \in Settings, TunnelInv, UNCHANGED <<setting, individual_address, claimed>>,
         NEW t \in Tunnels, OnlyAt(t), TunnelTypeOK', AddressInv(t)', SearchInv(t)'
  PROVE  TunnelInv'
  <1>1. AddressesDistinct' /\ UsedIsClaimed' /\ NoClaimLeaks' /\ (~setting'.managed => claimed' = {})
    BY Zenon DEF TunnelInv, AddressesDistinct, UsedIsClaimed, NoClaimLeaks
  <1> QED BY <1>1, OthersKept, Zenon DEF TunnelInv

(* Steps of connect, connect_secure and disconnect that come before the
   address. *)
Early(t) ==
    /\ UNCHANGED <<individual_address, claimed, address, source, tried, answering, strays,
                   channel_id>>
    /\ connects' \in 0 .. setting.connects
    /\ \E p \in {"idle", "transport", "session", "check", "request", "disconnect"} : Goto(t, p)
    /\ UNCHANGED state \/ \E s \in {"Connecting", "Failed", "Disconnecting"} : Become(t, s)
    /\ Careful => pc'[t] = "disconnect" \/ individual_address[t] = NoAddress

LEMMA EarlySteps ==
  ASSUME setting \in Settings, TunnelInv, ShTypeOK, UNCHANGED setting, NEW t \in setting.users,
         \/ Connect(t) \/ SendConnectRequest(t) \/ ConnectErr(t)
         \/ SecureSteps(t) \/ Disconnect(t)
  PROVE  TunnelInv'
  <1>1. t \in Tunnels /\ TunnelTypeOK /\ AddressInv(t) /\ SearchInv(t)
    BY SettingFacts, Zenon DEF TunnelInv
  <1>2. Early(t) /\ secure_session' \in [Tunnels -> Nat]
    <2>1. CASE Connect(t)
      <3>1. /\ connects \in 0 .. setting.connects /\ setting.connects \in Nat
            /\ connects < setting.connects /\ connects' = connects + 1
        BY <1>1, <2>1, SettingFacts, Zenon DEF Connect, TunnelTypeOK
      <3>2. connects' \in 0 .. setting.connects
        BY <3>1
      <3> QED
        BY <1>1, <2>1, <3>2, Zenon
           DEF Connect, TunnelTypeOK, ProbeState, Early, Goto, Become, AddressInv, Careful
    <2>2. CASE SendConnectRequest(t)
      BY <1>1, <2>2, Zenon
         DEF SendConnectRequest, TunnelTypeOK, ProbeState, Early, Goto, AddressInv
    <2>3. CASE ConnectErr(t)
      BY <1>1, <2>3, Zenon
         DEF ConnectErr, TunnelTypeOK, ProbeState, Early, Goto, Become, AddressInv
    <2>4. CASE EstablishTransport(t)
      BY <1>1, <2>4, Zenon
         DEF EstablishTransport, TunnelTypeOK, ProbeState, Early, Goto, AddressInv
    <2>5. CASE SessionFails(t)
      BY <1>1, <2>5, Zenon DEF SessionFails, TunnelTypeOK, ProbeState, Early, Goto, AddressInv
    <2>6. CASE Disconnect(t)
      BY <1>1, <2>6, Zenon DEF Disconnect, TunnelTypeOK, ProbeState, Early, Goto, Become
    <2>7. CASE \E m \in mail : SessionStands(t, m)
      <3>1. derived \in Nat /\ secure_session \in [Tunnels -> Nat]
            /\ secure_session' = [secure_session EXCEPT ![t] = derived]
        BY <1>1, <2>7, Zenon DEF SessionStands, TunnelTypeOK, ShTypeOK
      <3>2. secure_session' \in [Tunnels -> Nat]
        BY <3>1, Zenon
      <3> QED
        BY <1>1, <2>7, <3>2, Zenon
           DEF SessionStands, TunnelTypeOK, ProbeState, Early, Goto, Become, AddressInv
    <2> QED BY <2>1, <2>2, <2>3, <2>4, <2>5, <2>6, <2>7, Zenon DEF SecureSteps
  <1>3. PICK p \in {"idle", "transport", "session", "check", "request", "disconnect"} :
           pc' = [pc EXCEPT ![t] = p]
    BY <1>2, Zenon DEF Early, Goto
  <1>4. \/ UNCHANGED state
        \/ \E s \in {"Connecting", "Failed", "Disconnecting"} : state' = [state EXCEPT ![t] = s]
    BY <1>2, Zenon DEF Early, Become
  <1>5. TunnelTypeOK'
    <2> DEFINE S == {"Connecting", "Connected", "Disconnecting", "Disconnected", "Failed"}
    <2>1. state \in [Tunnels -> S] => state' \in [Tunnels -> S]
      BY <1>4
    <2>2. pc' \in [Tunnels -> {"idle", "transport", "session", "check", "request",
                              "select", "probe", "claim", "disconnect"}]
      BY <1>1, <1>3, Zenon DEF TunnelTypeOK
    <2> QED BY <1>1, <1>2, <2>1, <2>2, Zenon DEF TunnelTypeOK, Early
  <1>6. OnlyAt(t) /\ pc'[t] = p
    BY <1>1, <1>2, <1>3, <1>4, Zenon DEF OnlyAt, TunnelTypeOK, Early
  <1>7. AddressInv(t)'
    BY <1>1, <1>2, <1>6, Zenon DEF AddressInv, Early, Careful
  <1>8. SearchInv(t)'
    BY <1>1, <1>2, <1>6, Zenon DEF SearchInv, Early, Lonely, Careful, Alone, Taken
  <1> QED BY <1>1, <1>2, <1>5, <1>6, <1>7, <1>8, CallKeeps, Zenon DEF Early

LEMMA ResponseStep ==
  ASSUME setting \in Settings, TunnelInv, UNCHANGED setting, NEW t \in setting.users,
         NEW assigned \in setting.assigned, ConnectResponse(t, assigned)
  PROVE  TunnelInv'
  <1>1. t \in Tunnels /\ TunnelTypeOK /\ AddressInv(t) /\ SearchInv(t)
    BY SettingFacts, Zenon DEF TunnelInv
  <1>2. PICK a \in Addresses \cup {NoAddress}, s \in {"configured", "gateway"} :
           /\ address' = [address EXCEPT ![t] = a] /\ source' = [source EXCEPT ![t] = s]
           /\ pc' = [pc EXCEPT ![t] = AddressStep(a)]
    BY <1>1, SettingFacts, Zenon DEF ConnectResponse, Goto
  <1>3. /\ state' = [state EXCEPT ![t] = "Connected"] /\ tried' = [tried EXCEPT ![t] = {}]
        /\ channel_id' = [channel_id EXCEPT ![t] = 1] /\ pc[t] = "request"
        /\ UNCHANGED <<secure_session, individual_address, answering, strays, claimed, connects>>
    BY DEF ConnectResponse, Become
  <1>4. /\ AddressStep(a) \in {"idle", "claim", "select"}
        /\ AddressStep(a) = "claim" => a # NoAddress
        /\ ~setting.managed => AddressStep(a) = "idle"
    BY Zenon DEF AddressStep
  <1>5. TunnelTypeOK'
    BY <1>1, <1>2, <1>3, <1>4, Zenon DEF TunnelTypeOK
  <1>6. /\ OnlyAt(t) /\ pc'[t] = AddressStep(a) /\ address'[t] = a /\ source'[t] = s
        /\ state'[t] = "Connected" /\ tried'[t] = {}
    BY <1>1, <1>2, <1>3, Zenon DEF OnlyAt, TunnelTypeOK
  <1>7. AddressInv(t)'
    BY <1>1, <1>3, <1>4, <1>6, Zenon DEF AddressInv, Careful
  <1>8. SearchInv(t)'
    BY <1>1, <1>3, <1>4, <1>6, Zenon DEF SearchInv, Lonely, Careful, Alone, Taken
  <1> QED BY <1>1, <1>3, <1>5, <1>6, <1>7, <1>8, CallKeeps, Zenon

(* A lonely tunnel that searches has claimed nothing, so the candidates it
   passes over are occupied. *)
LEMMA NothingClaimed ==
  ASSUME setting \in Settings, TunnelInv, Lonely, NEW t \in setting.users,
         pc[t] \in {"select", "probe"}
  PROVE  claimed = {}
  <1> SUFFICES ASSUME NEW a \in claimed PROVE FALSE
    BY Zenon
  <1>1. a # NoAddress
    BY SettingAssumption, Zenon DEF TunnelInv, TunnelTypeOK
  <1>2. PICK u \in Tunnels : individual_address[u] = a
    BY Zenon DEF TunnelInv, NoClaimLeaks, Lonely, Careful
  <1>3. u = t
    BY <1>1, <1>2, Zenon DEF TunnelInv, AddressInv, Lonely, Alone
  <1> QED BY <1>1, <1>2, <1>3, Zenon DEF TunnelInv, AddressInv, Lonely

LEMMA SkipStep ==
  ASSUME setting \in Settings, TunnelInv, UNCHANGED setting, NEW t \in setting.users,
         NEW c \in setting.candidates, SkipCandidate(t, c)
  PROVE  TunnelInv'
  <1>1. t \in Tunnels /\ TunnelTypeOK /\ AddressInv(t) /\ SearchInv(t)
    BY SettingFacts, Zenon DEF TunnelInv
  <1>2. /\ pc[t] = "select" /\ ~IsAvailable(c) /\ tried' = [tried EXCEPT ![t] = @ \cup {c}]
        /\ UNCHANGED <<state, pc, channel_id, secure_session, individual_address,
                       address, source, answering, strays, claimed, connects>>
    BY Zenon DEF SkipCandidate
  <1>3. TunnelTypeOK'
    BY <1>1, <1>2, Zenon DEF TunnelTypeOK
  <1>4. OnlyAt(t) /\ tried'[t] = tried[t] \cup {c}
    BY <1>1, <1>2, Zenon DEF OnlyAt, TunnelTypeOK
  <1>5. AddressInv(t)'
    BY <1>1, <1>2, Zenon DEF AddressInv, Careful
  <1>6. Lonely => c \in Taken
    BY <1>2, NothingClaimed, Zenon DEF IsAvailable, Taken
  <1>7. SearchInv(t)'
    BY <1>1, <1>2, <1>4, <1>6, Zenon DEF SearchInv, Lonely, Careful, Alone, Taken
  <1> QED BY <1>1, <1>2, <1>3, <1>4, <1>5, <1>7, CallKeeps, Zenon

LEMMA ProbeStep ==
  ASSUME setting \in Settings, TunnelInv, UNCHANGED setting, NEW t \in setting.users,
         NEW c \in setting.candidates, Probe(t, c)
  PROVE  TunnelInv'
  <1>1. t \in Tunnels /\ TunnelTypeOK /\ AddressInv(t) /\ SearchInv(t)
    BY SettingFacts, Zenon DEF TunnelInv
  <1>2. /\ pc[t] = "select" /\ IsAvailable(c) /\ tried' = [tried EXCEPT ![t] = @ \cup {c}]
        /\ address' = [address EXCEPT ![t] = c] /\ source' = [source EXCEPT ![t] = "probe"]
        /\ answering' = [answering EXCEPT ![t] = c \in setting.devices]
        /\ pc' = [pc EXCEPT ![t] = "probe"]
        /\ UNCHANGED <<state, channel_id, secure_session, individual_address, strays,
                       claimed, connects>>
    BY Zenon DEF Probe, Goto
  <1>3. c \in Addresses /\ c # NoAddress
    BY SettingFacts, SettingAssumption, Zenon
  <1>4. TunnelTypeOK'
    <2>1. /\ tried \in [Tunnels -> SUBSET setting.candidates] /\ answering \in [Tunnels -> BOOLEAN]
          /\ address \in [Tunnels -> Addresses \cup {NoAddress}]
      BY <1>1, Zenon DEF TunnelTypeOK
    <2>a. tried[t] \cup {c} \in SUBSET setting.candidates
      BY <1>1, <2>1, Zenon
    <2>b. /\ tried' \in [Tunnels -> SUBSET setting.candidates]
          /\ address' \in [Tunnels -> Addresses \cup {NoAddress}]
      BY <1>1, <1>2, <1>3, <2>1, <2>a, Zenon
    <2>c. (c \in setting.devices) \in BOOLEAN
      OBVIOUS
    <2>2. /\ tried' \in [Tunnels -> SUBSET setting.candidates]
          /\ answering' \in [Tunnels -> BOOLEAN]
          /\ address' \in [Tunnels -> Addresses \cup {NoAddress}]
      BY <1>1, <1>2, <2>1, <2>b, <2>c, Zenon
    <2>3. /\ pc' \in [Tunnels -> {"idle", "transport", "session", "check", "request",
                                 "select", "probe", "claim", "disconnect"}]
          /\ source' \in [Tunnels -> {"none", "configured", "gateway", "probe",
                                     "exhausted", "error"}]
      BY <1>1, <1>2, Zenon DEF TunnelTypeOK
    <2> QED BY <1>1, <1>2, <2>2, <2>3, Zenon DEF TunnelTypeOK
  <1>5. /\ OnlyAt(t) /\ tried'[t] = tried[t] \cup {c} /\ address'[t] = c /\ source'[t] = "probe"
        /\ pc'[t] = "probe"
    BY <1>1, <1>2, Zenon DEF OnlyAt, TunnelTypeOK
  <1>6. answering'[t] <=> c \in setting.devices
    BY <1>1, <1>2, Zenon DEF TunnelTypeOK
  <1>7. individual_address[t] # c
    BY <1>1, <1>2, <1>3, Zenon DEF TunnelInv, UsedIsClaimed, IsAvailable
  <1>8. AddressInv(t)'
    BY <1>1, <1>2, <1>5, Zenon DEF AddressInv, Careful
  <1>9. SearchInv(t)'
    BY <1>1, <1>2, <1>5, <1>6, <1>7, Zenon DEF SearchInv, Lonely, Careful, Alone, Taken, IsAvailable
  <1> QED BY <1>1, <1>2, <1>4, <1>5, <1>8, <1>9, CallKeeps, Zenon

LEMMA SignalStep ==
  ASSUME setting \in Settings, TunnelInv, UNCHANGED setting, NEW t \in setting.users,
         ProbeSignal(t)
  PROVE  TunnelInv'
  <1>1. t \in Tunnels /\ TunnelTypeOK /\ AddressInv(t) /\ SearchInv(t)
    BY SettingFacts, Zenon DEF TunnelInv
  <1>2. /\ pc[t] = "probe" /\ answering' = [answering EXCEPT ![t] = FALSE]
        /\ pc' = [pc EXCEPT ![t] = "select"]
        /\ strays' \in 0 .. setting.strays /\ (setting.strays = 0 => answering[t])
        /\ UNCHANGED <<state, channel_id, secure_session, individual_address,
                       address, source, tried, claimed, connects>>
    <2>1. /\ setting.strays \in Nat /\ strays \in 0 .. setting.strays
          /\ \/ answering[t] /\ strays' = strays
             \/ strays < setting.strays /\ strays' = strays + 1
      BY <1>1, SettingFacts, Zenon DEF ProbeSignal, TunnelTypeOK
    <2>2. strays' \in 0 .. setting.strays /\ (setting.strays = 0 => answering[t])
      BY <2>1
    <2> QED BY <2>2, Zenon DEF ProbeSignal, Goto
  <1>3. TunnelTypeOK'
    BY <1>1, <1>2, Zenon DEF TunnelTypeOK
  <1>4. OnlyAt(t) /\ pc'[t] = "select"
    BY <1>1, <1>2, Zenon DEF OnlyAt, TunnelTypeOK
  <1>5. AddressInv(t)'
    BY <1>1, <1>2, <1>4, Zenon DEF AddressInv, Careful
  <1>6. SearchInv(t)'
    BY <1>1, <1>2, <1>4, Zenon DEF SearchInv, Lonely, Careful, Alone, Taken
  <1> QED BY <1>1, <1>2, <1>3, <1>4, <1>5, <1>6, CallKeeps, Zenon

LEMMA SearchEnds ==
  ASSUME setting \in Settings, TunnelInv, UNCHANGED setting, NEW t \in setting.users,
         ProbeTimeout(t) \/ Exhausted(t) \/ ProbeErr(t)
  PROVE  TunnelInv'
  <1>1. t \in Tunnels /\ TunnelTypeOK /\ AddressInv(t) /\ SearchInv(t)
    BY SettingFacts, Zenon DEF TunnelInv
  <1>2. UNCHANGED <<state, channel_id, secure_session, individual_address, address, tried,
                    answering, strays, claimed, connects>>
    BY Zenon DEF ProbeTimeout, Exhausted, ProbeErr, ProbeState
  <1>3. PICK p \in {"claim", "idle"}, s \in {"probe", "exhausted", "error"} :
           /\ pc' = [pc EXCEPT ![t] = p] /\ source' = [source EXCEPT ![t] = s]
           /\ p = "claim" => s = "probe" /\ source[t] = "probe" /\ pc[t] = "probe" /\ ~answering[t]
           /\ p = "idle" => s # "probe" /\ pc[t] \in {"select", "probe"}
           /\ s = "exhausted" => pc[t] = "select" /\ Remaining(t) = {}
    <2>1. CASE ProbeTimeout(t)
      <3>1. source' = [source EXCEPT ![t] = "probe"] /\ source[t] = "probe"
        BY <1>1, <2>1, Zenon DEF ProbeTimeout, TunnelTypeOK, SearchInv
      <3> QED BY <2>1, <3>1, Zenon DEF ProbeTimeout, Goto
    <2>2. CASE Exhausted(t) \/ ProbeErr(t)
      BY <2>2, Zenon DEF Exhausted, ProbeErr, Goto
    <2> QED BY <2>1, <2>2, Zenon
  <1>4. TunnelTypeOK'
    BY <1>1, <1>2, <1>3, Zenon DEF TunnelTypeOK
  <1>5. OnlyAt(t) /\ pc'[t] = p /\ source'[t] = s
    BY <1>1, <1>2, <1>3, Zenon DEF OnlyAt, TunnelTypeOK
  <1>6. AddressInv(t)'
    <2>1. source[t] = "probe" => address[t] # NoAddress
      BY <1>1, SettingFacts, SettingAssumption, Zenon DEF SearchInv
    <2> QED BY <1>1, <1>2, <1>3, <1>5, <2>1, Zenon DEF AddressInv, Careful
  <1>7. SearchInv(t)'
    BY <1>1, <1>2, <1>3, <1>5, Zenon DEF SearchInv, Lonely, Careful, Alone, Taken, Remaining
  <1> QED BY <1>1, <1>2, <1>4, <1>5, <1>6, <1>7, CallKeeps, Zenon

LEMMA ClaimStep ==
  ASSUME setting \in Settings, TunnelInv, UNCHANGED setting, NEW t \in setting.users, Claim(t)
  PROVE  TunnelInv'
  <1>1. t \in Tunnels /\ TunnelTypeOK /\ AddressInv(t) /\ SearchInv(t)
    BY SettingFacts, Zenon DEF TunnelInv
  <1>2. /\ pc[t] = "claim" /\ pc' = [pc EXCEPT ![t] = "idle"]
        /\ UNCHANGED <<state, channel_id, secure_session, address, source, tried, answering,
                       strays, connects>>
    BY Zenon DEF Claim, Goto, ProbeState
  <1>3. address[t] \in Addresses /\ address[t] # NoAddress /\ setting.managed
    BY <1>1, <1>2, Zenon DEF AddressInv, TunnelTypeOK
  <1>4. CASE UNCHANGED <<claimed, individual_address>>
    <2>1. TunnelTypeOK'
      BY <1>1, <1>2, <1>4, Zenon DEF TunnelTypeOK
    <2>2. OnlyAt(t) /\ pc'[t] = "idle"
      BY <1>1, <1>2, <1>4, Zenon DEF OnlyAt, TunnelTypeOK
    <2>3. AddressInv(t)'
      BY <1>1, <1>2, <1>4, <2>2, Zenon DEF AddressInv, Careful
    <2>4. SearchInv(t)'
      BY <1>1, <1>2, <1>4, <2>2, Zenon DEF SearchInv, Lonely, Careful, Alone, Taken
    <2> QED BY <1>1, <1>4, <2>1, <2>2, <2>3, <2>4, CallKeeps, Zenon
  <1>5. CASE /\ address[t] \notin claimed /\ claimed' = claimed \cup {address[t]}
             /\ individual_address' = [individual_address EXCEPT ![t] = address[t]]
    <2>1. TunnelTypeOK'
      BY <1>1, <1>2, <1>3, <1>5, Zenon DEF TunnelTypeOK
    <2>2. OnlyAt(t) /\ pc'[t] = "idle" /\ individual_address'[t] = address[t]
      BY <1>1, <1>2, <1>5, Zenon DEF OnlyAt, TunnelTypeOK
    <2>3. AddressInv(t)'
      BY <1>1, <1>2, <2>2, Zenon DEF AddressInv, Careful
    <2>4. SearchInv(t)'
      BY <1>1, <1>2, <2>2, Zenon DEF SearchInv, Lonely, Careful, Alone, Taken
    <2>a. ASSUME NEW u \in Tunnels, u # t
          PROVE  /\ individual_address'[u] = individual_address[u]
                 /\ individual_address[u] # NoAddress => individual_address[u] \in claimed
                 /\ individual_address[u] # address[t]
      BY <1>3, <1>5, <2>2, <2>a, Zenon DEF TunnelInv, UsedIsClaimed, OnlyAt
    <2>b. AddressesDistinct'
      BY <2>2, <2>a DEF TunnelInv, AddressesDistinct
    <2>5. AddressesDistinct' /\ UsedIsClaimed'
      BY <1>5, <2>2, <2>a, <2>b DEF UsedIsClaimed
    <2>6. NoClaimLeaks'
      <3> SUFFICES ASSUME Careful, NEW a \in claimed'
                   PROVE  \E u \in Tunnels : individual_address'[u] = a
        BY Zenon DEF NoClaimLeaks, Careful
      <3>1. CASE a = address[t]
        BY <1>1, <2>2, <3>1
      <3>2. CASE a \in claimed
        <4>1. a # NoAddress
          BY <1>1, <3>2, SettingAssumption DEF TunnelTypeOK
        <4>2. PICK u \in Tunnels : individual_address[u] = a
          BY <3>2, Zenon DEF TunnelInv, NoClaimLeaks, Careful
        <4>3. u # t
          BY <1>1, <1>2, <4>1, <4>2, Zenon DEF AddressInv
        <4> QED BY <2>2, <4>2, <4>3, Zenon DEF OnlyAt
      <3> QED BY <1>5, <3>1, <3>2, Zenon
    <2> QED BY <1>1, <1>3, <2>1, <2>2, <2>3, <2>4, <2>5, <2>6, OthersKept, Zenon DEF TunnelInv
  <1> QED BY <1>4, <1>5, Zenon DEF Claim, Collides

(* disconnect() gives the address back; close() and drop do not. *)
LEMMA ReleaseSteps ==
  ASSUME setting \in Settings, TunnelInv, UNCHANGED setting, NEW t \in setting.users,
         DisconnectEnd(t) \/ CloseAndDrop(t)
  PROVE  TunnelInv'
  <1>1. t \in Tunnels /\ TunnelTypeOK /\ AddressInv(t) /\ SearchInv(t)
    BY SettingFacts, Zenon DEF TunnelInv
  <1>2. /\ individual_address' = [individual_address EXCEPT ![t] = NoAddress]
        /\ state' = [state EXCEPT ![t] = "Disconnected"]
        /\ channel_id' = [channel_id EXCEPT ![t] = 0]
        /\ pc' = [pc EXCEPT ![t] = "idle"]
        /\ secure_session' \in [Tunnels -> Nat]
        /\ UNCHANGED <<address, source, tried, answering, strays, connects>>
    <2>1. CASE DisconnectEnd(t)
      BY <1>1, <2>1, Zenon DEF DisconnectEnd, Become, Goto, ProbeState, TunnelTypeOK
    <2>2. CASE CloseAndDrop(t)
      <3>1. pc = [pc EXCEPT ![t] = "idle"]
        BY <1>1, <2>2, Zenon DEF CloseAndDrop, TunnelTypeOK
      <3>2. secure_session' \in [Tunnels -> Nat]
        BY <1>1, <2>2, Zenon DEF CloseAndDrop, TunnelTypeOK
      <3> QED BY <2>2, <3>1, <3>2, Zenon DEF CloseAndDrop, Become, ProbeState
    <2> QED BY <2>1, <2>2, Zenon
  <1>3. \/ claimed' = claimed /\ (~setting.managed \/ ~Careful)
        \/ claimed' = claimed \ {individual_address[t]}
    BY Zenon DEF DisconnectEnd, CloseAndDrop, Careful, Released
  <1>4. TunnelTypeOK'
    BY <1>1, <1>2, <1>3, Zenon DEF TunnelTypeOK
  <1>5. OnlyAt(t) /\ pc'[t] = "idle" /\ individual_address'[t] = NoAddress
    BY <1>1, <1>2, Zenon DEF OnlyAt, TunnelTypeOK
  <1>6. AddressInv(t)'
    BY <1>1, <1>2, <1>5, Zenon DEF AddressInv, Careful
  <1>7. SearchInv(t)'
    <2>1. source[t] = "probe" => address[t] # NoAddress
      BY <1>1, SettingFacts, SettingAssumption, Zenon DEF SearchInv
    <2> QED BY <1>1, <1>2, <1>5, <2>1, Zenon DEF SearchInv, Lonely, Careful, Alone, Taken
  <1>8. AddressesDistinct'
    <2> SUFFICES ASSUME NEW u \in Tunnels, NEW v \in Tunnels, u # v,
                        individual_address'[u] # NoAddress
                 PROVE  individual_address'[u] # individual_address'[v]
      BY Zenon DEF AddressesDistinct
    <2>1. u # t /\ individual_address'[u] = individual_address[u]
      BY <1>5, Zenon DEF OnlyAt
    <2>2. v = t \/ individual_address'[v] = individual_address[v]
      BY <1>5, Zenon DEF OnlyAt
    <2> QED BY <1>5, <2>1, <2>2, Zenon DEF TunnelInv, AddressesDistinct
  <1>9. UsedIsClaimed'
    <2> SUFFICES ASSUME NEW u \in Tunnels, individual_address'[u] # NoAddress
                 PROVE  individual_address'[u] \in claimed'
      BY Zenon DEF UsedIsClaimed
    <2>1. u # t /\ individual_address'[u] = individual_address[u]
      BY <1>5, Zenon DEF OnlyAt
    <2>2. individual_address[u] \in claimed /\ individual_address[u] # individual_address[t]
      BY <1>1, <2>1, Zenon DEF TunnelInv, UsedIsClaimed, AddressesDistinct
    <2> QED BY <1>3, <2>1, <2>2
  <1>10. NoClaimLeaks'
    <2> SUFFICES ASSUME Careful, NEW a \in claimed'
                 PROVE  \E u \in Tunnels : individual_address'[u] = a
      BY Zenon DEF NoClaimLeaks, Careful
    <2>1. claimed' = claimed \ {individual_address[t]}
      BY <1>3, Zenon DEF TunnelInv
    <2>2. PICK u \in Tunnels : individual_address[u] = a
      BY <2>1, Zenon DEF TunnelInv, NoClaimLeaks, Careful
    <2> QED BY <1>5, <2>1, <2>2, Zenon DEF OnlyAt
  <1>11. ~setting'.managed => claimed' = {}
    BY <1>3, Zenon DEF TunnelInv
  <1> QED BY <1>1, <1>4, <1>5, <1>6, <1>7, <1>8, <1>9, <1>10, <1>11, OthersKept, Zenon DEF TunnelInv

-----------------------------------------------------------------------------
(* The parts together.  A secure tunnel begins no more handshakes than it is
   connected, and what it believes of its session is so. *)
Attempts ==
    /\ attempt <= connects
    /\ \A t \in setting.users : setting.secure /\ pc[t] = "transport" => attempt < connects
Believed ==
    /\ StandingIsVerified
    /\ repeats = 0 => \A t \in Tunnels : secure_session[t] # 0 => Held(secure_session[t])
IInv ==
    /\ setting \in Settings
    /\ SsInv /\ HbInv /\ ShInv /\ TunnelInv /\ Attempts /\ Believed

LEMMA AllInitial == Init => IInv
  <1> SUFFICES ASSUME Init PROVE IInv
    OBVIOUS
  <1>1. setting \in Settings /\ HbInit /\ SsInit /\ ShInit
    BY Zenon DEF Init
  <1>2. Attempts /\ Believed
    <2>1. /\ attempt = 0 /\ connects = 0
          /\ \A t \in Tunnels : pc[t] = "idle" /\ secure_session[t] = 0
      BY Zenon DEF Init, ShInit
    <2>2. attempt <= connects
      BY <2>1
    <2> QED BY <1>1, <2>1, <2>2, SettingFacts, Zenon
            DEF Attempts, Believed, StandingIsVerified
  <1> QED BY <1>1, <1>2, SsInitial, HbInitial, ShInitial, TunnelInitial, Zenon DEF IInv

LEMMA NothingShaken == ASSUME IInv, UNCHANGED <<setting, shVars>> PROVE ShKept
  <1>1. /\ mail' \subseteq mail /\ repeats' = repeats /\ awaiting' = awaiting
        /\ UNCHANGED <<attempt, derived, entry, keys, verified>>
    BY Zenon DEF shVars
  <1>2. repeats' \in 0 .. setting.repeats
    BY <1>1, Zenon DEF IInv, ShInv, ShTypeOK
  <1> QED BY <1>1, <1>2, MailShrinks, Zenon DEF IInv

LEMMA NothingSent == ASSUME IInv, UNCHANGED <<setting, ssVars>> PROVE SsInv'
  <1>1. UNCHANGED <<sequence_number, held, wire, sequence_number_received, accepted, rejected,
                    duplicates>>
    BY Zenon DEF ssVars
  <1> QED BY <1>1 DEF IInv, SsInv, SsTypeOK, Recorded, AcceptedInOrder, InStep, Above

LEMMA NoHeartbeat == ASSUME IInv, UNCHANGED <<setting, hbVars>> PROVE HbInv'
  <1>1. UNCHANGED <<hb, failures, tunnel_lost, waiters, received, replies, alive, sendErrors>>
    BY Zenon DEF hbVars
  <1> QED BY <1>1 DEF IInv, HbInv, HbTypeOK, HbShape, HbTimely, Waiting, WaitersBounded

LEMMA NoCall == ASSUME IInv, UNCHANGED <<setting, tunnelVars>> PROVE TunnelInv'
  <1>1. UNCHANGED <<state, pc, channel_id, secure_session, individual_address, address, source,
                    tried, answering, claimed, connects, strays>>
    BY Zenon DEF tunnelVars
  <1>2. TunnelTypeOK' /\ AddressesDistinct' /\ UsedIsClaimed' /\ NoClaimLeaks'
    BY <1>1, Zenon DEF IInv, TunnelInv, TunnelTypeOK, AddressesDistinct, UsedIsClaimed, NoClaimLeaks
  <1>3. \A t \in Tunnels : AddressInv(t)'
    BY <1>1, Zenon DEF IInv, TunnelInv, AddressInv, Careful
  <1>4. \A t \in Tunnels : SearchInv(t)'
    BY <1>1, Zenon DEF IInv, TunnelInv, SearchInv, Lonely, Careful, Alone, Taken
  <1> QED BY <1>1, <1>2, <1>3, <1>4, Zenon DEF IInv, TunnelInv

(* What tunnels believe, if they do not change their minds or only forget. *)
LEMMA BelievedKept ==
  ASSUME IInv, UNCHANGED setting, ShKept,
         \A t \in Tunnels : secure_session'[t] \in {secure_session[t], 0}
  PROVE  Believed'
  <1>1. StandingIsVerified'
    <2>1. NoIdLooksFine' => NoIdLooksFine
      <3>1. keys \in Nat /\ keys' \in Nat /\ setting.issued \in Nat /\ keys <= keys'
        BY HandshakeBounds, Zenon DEF IInv, ShKept, ShInv, ShTypeOK
      <3> QED BY <3>1 DEF NoIdLooksFine
    <2> QED BY <2>1, Zenon DEF IInv, Believed, StandingIsVerified, ShKept
  <1>2. ASSUME repeats' = 0, NEW t \in Tunnels, secure_session'[t] # 0
        PROVE  Held(secure_session[t])'
    <2>1. secure_session'[t] = secure_session[t] /\ Held(secure_session[t])
      BY <1>2, Zenon DEF IInv, Believed, ShKept
    <2>2. \A k : Held(k) => Held(k)'
      BY <1>2, Zenon DEF ShKept
    <2>3. secure_session'[t] = secure_session[t]
             => (Held(secure_session[t])' <=>
                   \E a \in 1 .. attempt' : /\ entry'[a] = Entry(secure_session[t])
                                            /\ \A m \in mail' : m.attempt # a)
      BY Zenon DEF Held
    <2> QED BY <2>1, <2>2, <2>3, Zenon DEF Held
  <1> QED BY <1>1, <1>2, Zenon DEF Believed

(* The server's word, or none, completes a handshake. *)
LEMMA StandsStep ==
  ASSUME IInv, UNCHANGED setting, NEW t \in setting.users, NEW m \in mail, SessionStands(t, m)
  PROVE  ShKept /\ Believed'
  <1>1. /\ awaiting = "status" /\ m.kind \in {"response", "status"} /\ m.attempt = attempt
        /\ StatusByte(m) = 0 /\ awaiting' = "none" /\ Take(m, {})
        /\ UNCHANGED <<attempt, derived, entry, keys, verified>>
    BY Zenon DEF SessionStands, CompleteAuthentication, StatusSeen, Arrived, ToClient
  <1>2. /\ mail' \subseteq mail /\ repeats' \in 0 .. setting.repeats
        /\ repeats' = 0 => repeats = 0 /\ mail' = mail \ {m}
    BY <1>1, TakeFacts DEF IInv
  <1>3. ShKept
    BY <1>1, <1>2, MailShrinks, Zenon DEF IInv
  <1>4. /\ t \in Tunnels /\ secure_session \in [Tunnels -> Nat]
        /\ secure_session' = [secure_session EXCEPT ![t] = derived]
    BY SettingFacts, Zenon DEF IInv, TunnelInv, TunnelTypeOK, SessionStands
  <1>5. /\ m \in ShFrame /\ m.attempt \in 1 .. setting.connects /\ m.key \in Nat /\ Says(m)
        /\ attempt \in Nat /\ (repeats = 0 => Single(m))
    <2>1. /\ m \in ShFrame /\ Says(m) /\ attempt \in 0 .. setting.connects
          /\ repeats = 0 => Single(m)
      BY Zenon DEF IInv, ShInv, ShTypeOK
    <2>2. m.attempt \in 1 .. setting.connects /\ m.key \in Nat
      BY <2>1 DEF ShFrame
    <2>3. attempt \in Nat
      BY <2>1
    <2> QED BY <2>1, <2>2, <2>3, Zenon
  <1>6. m.kind = "status" => m.ok
    <2>1. StatusByte(m) = 0
      BY <1>1, Zenon
    <2> QED BY <2>1 DEF StatusByte
  <1>7. NoIdLooksFine => m.kind = "status"
    BY <1>1, <1>5, Zenon DEF NoIdLooksFine, StatusByte, Says
  <1>8. NoIdLooksFine => derived \in verified /\ setting.device /\ setting.password
    BY <1>1, <1>5, <1>6, <1>7, Zenon DEF Says
  <1>9. NoIdLooksFine' => NoIdLooksFine
    BY <1>1, Zenon DEF NoIdLooksFine
  <1>10. StandingIsVerified'
    BY <1>1, <1>4, <1>8, <1>9, Zenon DEF IInv, Believed, StandingIsVerified
  <1>11. ASSUME repeats' = 0, NEW u \in Tunnels, secure_session'[u] # 0
         PROVE  Held(secure_session[u])'
    <2>1. CASE u = t
      <3>1. m.kind = "status" /\ entry[attempt] = Entry(derived)
        BY <1>1, <1>2, <1>5, <1>6, <1>11, Zenon DEF Single
      <3>2. \A n \in mail' : n.attempt # attempt
        BY <1>1, <1>2, <1>5, <1>11, Zenon DEF Single
      <3>3. attempt \in 1 .. attempt' /\ entry'[attempt] = Entry(secure_session'[u])
        BY <1>1, <1>4, <1>5, <2>1, <3>1 DEF Entry
      <3> QED BY <3>2, <3>3, Zenon DEF Held, Entry
    <2>2. CASE u # t
      <3>1. secure_session'[u] = secure_session[u] /\ Held(secure_session[u])
        BY <1>2, <1>4, <1>11, <2>2, Zenon DEF IInv, Believed
      <3>2. \A k : Held(k) => Held(k)'
        BY <1>3, <1>11, Zenon DEF ShKept
      <3> QED BY <3>1, <3>2, Zenon DEF Held, Entry
    <2> QED BY <2>1, <2>2, Zenon
  <1> QED BY <1>3, <1>10, <1>11, Zenon DEF Believed

LEMMA Counts ==
  ASSUME IInv
  PROVE  /\ connects \in Nat /\ setting.connects \in Nat /\ connects <= setting.connects
         /\ attempt \in Nat /\ DOMAIN pc = Tunnels
  <1>1. connects \in 0 .. setting.connects /\ setting.connects \in Nat
    BY SettingFacts, Zenon DEF IInv, TunnelInv, TunnelTypeOK
  <1>2. attempt \in Nat
    BY HandshakeBounds DEF IInv, ShInv, ShTypeOK
  <1>3. DOMAIN pc = Tunnels
    BY DEF IInv, TunnelInv, TunnelTypeOK
  <1> QED BY <1>1, <1>2, <1>3

LEMMA TunnelCase ==
  ASSUME IInv, UNCHANGED <<setting, hbVars, ssVars, shVars>>, TunnelNext
  PROVE  IInv'
  <1>1. PICK t \in setting.users :
           Connect(t) \/ CallSteps(t) \/ ProbeErr(t) \/ Disconnect(t) \/ CloseAndDrop(t)
    BY Zenon DEF TunnelNext
  <1>2. t \in Tunnels /\ setting.users \subseteq Tunnels
    BY SettingFacts, Zenon DEF IInv
  <1>3. TunnelInv'
    BY <1>1, EarlySteps, ResponseStep, SkipStep, ProbeStep, SignalStep, SearchEnds, ClaimStep,
       ReleaseSteps, Zenon DEF IInv, ShInv, CallSteps
  <1>4. SsInv' /\ HbInv' /\ ShKept
    BY NothingShaken, NothingSent, NoHeartbeat, Zenon
  <1>5. /\ \A u \in Tunnels : secure_session'[u] \in {secure_session[u], 0}
    BY <1>1, <1>2, Zenon DEF IInv, TunnelInv, TunnelTypeOK, Connect, CallSteps, SendConnectRequest,
       ConnectErr, ConnectResponse, SkipCandidate, Probe, ProbeSignal, ProbeTimeout, Exhausted,
       Claim, DisconnectEnd, ProbeErr, Disconnect, CloseAndDrop
  <1>6. connects \in Nat /\ attempt \in Nat /\ DOMAIN pc = Tunnels /\ attempt' = attempt
    BY Counts, Zenon DEF shVars
  <1>7. Attempts'
    <2>1. CASE Connect(t)
      <3>1. connects' = connects + 1 /\ attempt <= connects
        BY <2>1, Zenon DEF Connect, IInv, Attempts
      <3>2. attempt' <= connects' /\ attempt' < connects'
        BY <1>6, <3>1
      <3> QED BY <3>2, Zenon DEF Attempts
    <2>2. CASE CallSteps(t) \/ ProbeErr(t) \/ Disconnect(t) \/ CloseAndDrop(t)
      <3>1. /\ connects' = connects
            /\ \A u \in Tunnels : pc'[u] = "transport" => pc[u] = "transport"
        BY <1>2, <1>6, <2>2, Zenon DEF CallSteps, SendConnectRequest, ConnectErr, ConnectResponse,
           AddressStep, SkipCandidate, Probe, ProbeSignal, ProbeTimeout, Exhausted, Claim,
           DisconnectEnd, ProbeErr, Disconnect, CloseAndDrop, Goto
      <3> QED BY <1>2, <1>6, <3>1, Zenon DEF IInv, Attempts
    <2> QED BY <1>1, <2>1, <2>2, Zenon
  <1> QED BY <1>3, <1>4, <1>5, <1>7, BelievedKept, Zenon DEF IInv, ShKept

LEMMA SecureCase ==
  ASSUME IInv, UNCHANGED <<setting, hbVars>>, NEW t \in setting.users, SecureSteps(t)
  PROVE  IInv'
  <1>1. t \in Tunnels /\ setting.users \subseteq Tunnels /\ (setting.secure => Alone)
    BY SettingFacts, Zenon DEF IInv
  <1>2. TunnelInv' /\ HbInv'
    BY EarlySteps, NoHeartbeat, Zenon DEF IInv, ShInv
  <1>3. /\ connects \in Nat /\ attempt \in Nat /\ connects <= setting.connects
        /\ setting.connects \in Nat /\ DOMAIN pc = Tunnels
    BY Counts, Zenon
  <1>4. CASE EstablishTransport(t)
    <2>1. /\ pc[t] = "transport" /\ UNCHANGED <<secure_session, connects, ssVars>>
          /\ \E p \in {"session", "check"} : pc' = [pc EXCEPT ![t] = p]
      BY <1>4, Zenon DEF EstablishTransport, Goto
    <2>2. SsInv'
      BY <2>1, NothingSent, Zenon
    <2>3. CASE setting.secure
      <3>1. SessionRequest /\ attempt' = attempt + 1 /\ attempt < connects
        BY <1>4, <2>1, <2>3, Zenon DEF EstablishTransport, SessionRequest, IInv, Attempts
      <3>a. attempt < setting.connects
        BY <1>3, <3>1
      <3>2. ShKept
        BY <3>1, <3>a, Requested, Zenon DEF IInv
      <3>b. \A u \in setting.users : pc'[u] # "transport"
        BY <1>1, <1>3, <2>1, <2>3, Zenon DEF Alone
      <3>c. attempt' <= connects'
        BY <1>3, <2>1, <3>1
      <3>3. Attempts'
        BY <3>b, <3>c, Zenon DEF Attempts
      <3> QED BY <1>2, <2>1, <2>2, <3>2, <3>3, BelievedKept, Zenon DEF IInv, ShKept
    <2>4. CASE ~setting.secure
      <3>1. UNCHANGED shVars /\ attempt' = attempt
        BY <1>4, <2>4, Zenon DEF EstablishTransport, shVars
      <3>2. ShKept
        BY <3>1, NothingShaken, Zenon
      <3>3. Attempts'
        BY <2>1, <2>4, <3>1, Zenon DEF IInv, Attempts
      <3> QED BY <1>2, <2>1, <2>2, <3>2, <3>3, BelievedKept, Zenon DEF IInv, ShKept
    <2> QED BY <2>3, <2>4, Zenon
  <1>5. ASSUME NEW m \in mail, SessionStands(t, m) PROVE IInv'
    <2>1. SsInv'
      BY <1>5, SsRenewed, Zenon DEF IInv, SessionStands
    <2>2. connects' = connects /\ attempt' = attempt /\ pc' = [pc EXCEPT ![t] = "check"]
      BY <1>5, Zenon DEF SessionStands, CompleteAuthentication, Goto
    <2>3. Attempts'
      BY <1>1, <1>3, <2>2 DEF IInv, Attempts
    <2> QED BY <1>2, <1>5, <2>1, <2>3, StandsStep, Zenon DEF IInv, ShKept
  <1>6. CASE SessionFails(t)
    <2>1. /\ UNCHANGED <<secure_session, connects, ssVars>> /\ pc' = [pc EXCEPT ![t] = "idle"]
          /\ HandshakeTimeout \/ \E m \in mail : HandshakeRefused(m)
      BY <1>6, Zenon DEF SessionFails, Goto
    <2>2. SsInv'
      BY <2>1, NothingSent, Zenon
    <2>3. /\ mail' \subseteq mail /\ repeats' \in 0 .. setting.repeats
          /\ repeats' = 0 => repeats = 0
          /\ awaiting' = "none" /\ UNCHANGED <<attempt, derived, entry, keys, verified>>
      <3>1. CASE HandshakeTimeout
        BY <3>1, Zenon DEF HandshakeTimeout, IInv, ShInv, ShTypeOK
      <3>2. ASSUME NEW m \in mail, HandshakeRefused(m)
            PROVE  /\ mail' \subseteq mail /\ repeats' \in 0 .. setting.repeats
                   /\ repeats' = 0 => repeats = 0
                   /\ awaiting' = "none" /\ UNCHANGED <<attempt, derived, entry, keys, verified>>
        BY <3>2, TakeFacts DEF HandshakeRefused, IInv
      <3> QED BY <2>1, <3>1, <3>2, Zenon
    <2>4. ShKept
      BY <2>3, MailShrinks, Zenon DEF IInv
    <2>5. Attempts'
      BY <1>1, <1>3, <2>1, <2>3, Zenon DEF IInv, Attempts
    <2> QED BY <1>2, <2>1, <2>2, <2>4, <2>5, BelievedKept, Zenon DEF IInv, ShKept
  <1> QED BY <1>4, <1>5, <1>6, Zenon DEF SecureSteps

LEMMA AllStep == IInv /\ [Next]_vars => IInv'
  <1> SUFFICES ASSUME IInv, [Next]_vars PROVE IInv'
    BY Zenon
  <1>1. UNCHANGED setting
    BY Zenon DEF Next, vars
  <1>2. ASSUME UNCHANGED tunnelVars, ShKept, SsInv', HbInv', attempt' = attempt PROVE IInv'
    <2>1. UNCHANGED <<pc, connects, secure_session>>
      BY <1>2, Zenon DEF tunnelVars
    <2>2. Attempts'
      BY <1>1, <1>2, <2>1, Zenon DEF IInv, Attempts
    <2> QED BY <1>1, <1>2, <2>1, <2>2, NoCall, BelievedKept, Zenon DEF IInv, ShKept
  <1>3. UNCHANGED shVars => attempt' = attempt
    BY Zenon DEF shVars
  <1>4. CASE UNCHANGED vars
    <2>1. UNCHANGED <<tunnelVars, hbVars, ssVars, shVars>>
      BY <1>4, Zenon DEF vars, system
    <2> QED BY <1>1, <1>2, <1>3, <2>1, NothingShaken, NothingSent, NoHeartbeat, Zenon
  <1>5. CASE TunnelNext /\ UNCHANGED <<hbVars, ssVars, shVars>>
    BY <1>1, <1>5, TunnelCase, Zenon
  <1>6. CASE (\E t \in setting.users : SecureSteps(t)) /\ UNCHANGED hbVars
    BY <1>1, <1>6, SecureCase, Zenon
  <1>7. CASE ShNext /\ UNCHANGED <<tunnelVars, hbVars, ssVars>>
    <2>1. attempt' = attempt
      BY <1>7, Zenon
         DEF ShNext, HandleSessionRequest, HandleSessionAuthenticate, ProcessSessionResponse, ShLose
    <2> QED BY <1>1, <1>2, <1>7, <2>1, ShStep, NothingSent, NoHeartbeat, Zenon DEF IInv
  <1>8. CASE HeartbeatNext /\ UNCHANGED <<tunnelVars, ssVars, shVars>>
    BY <1>1, <1>2, <1>3, <1>8, HbStep, NothingShaken, NothingSent, Zenon DEF IInv, HeartbeatNext
  <1>9. CASE SecureNext /\ UNCHANGED <<tunnelVars, hbVars, shVars>>
    BY <1>1, <1>2, <1>3, <1>9, SsStep, NothingShaken, NoHeartbeat, Zenon DEF IInv, SecureNext
  <1> QED BY <1>4, <1>5, <1>6, <1>7, <1>8, <1>9, Zenon DEF Next

-----------------------------------------------------------------------------
(* For any number of tunnels that share a registry: no two use one address,
   what they use is claimed, and a careful application leaks no address
   (AddressRegistry, Tunnel::finish_connect, Tunnel::disconnect). *)
THEOREM AddressesAgreeHolds == Spec => []AddressesAgree
  <1>1. IInv => AddressesAgree
    BY Zenon DEF IInv, SsInv, HbInv, ShInv, TunnelInv, AddressesAgree, TypeOK
  <1> QED BY AllInitial, AllStep, <1>1, PTL DEF Spec

(* For every range, every set of devices and every occupation: an address that
   was probed for is free, and the search gives up only when none is
   (auto_select_address). *)
THEOREM SearchSoundHolds == Spec => []SearchSound
  <1>1. IInv => SelectedIsFree
    BY Zenon DEF IInv, TunnelInv, SearchInv, SelectedIsFree
  <1>2. IInv => GivesUpWhenFull
    BY SettingFacts, Zenon DEF IInv, TunnelInv, SearchInv, GivesUpWhenFull, Lonely, Careful, Taken
  <1> QED BY AllInitial, AllStep, <1>1, <1>2, PTL DEF Spec, SearchSound

(* For any number of frames, handshakes, repetitions and losses: a session a
   client believes in has been verified, both ends agree on it unless a frame
   of the handshake came twice, and each frame is accepted once and in order
   (connect_secure, decrypt_frame). *)
THEOREM SessionSoundHolds == Spec => []SessionSound
  <1>1. IInv => StandingIsAgreed
    <2> SUFFICES ASSUME IInv, repeats = 0, NEW t \in Tunnels, secure_session[t] # 0
                 PROVE  Agreed(secure_session[t])
      BY Zenon DEF StandingIsAgreed
    <2>1. PICK a \in 1 .. attempt : entry[a] = Entry(secure_session[t])
      BY Zenon DEF IInv, Believed, Held
    <2>2. a \in DOMAIN entry
      BY HandshakeBounds DEF IInv, ShInv, ShTypeOK
    <2> QED BY <2>1, <2>2 DEF Agreed, Entry
  <1>2. IInv => ReplayCheckExact
    BY Zenon DEF IInv, SsInv, InStep, ReplayCheckExact, NothingRejected
  <1>3. IInv => SessionSound
    BY <1>1, <1>2, Zenon DEF IInv, Believed, SessionSound
  <1> QED BY AllInitial, AllStep, <1>3, PTL DEF Spec

(* A gateway that answers every heartbeat in time is never declared lost, and
   requests that were given up do not pile up (start_heartbeat, FrameRouter). *)
THEOREM HealthyGatewayKeptHolds == Spec => [](WaitersBounded /\ HealthyGatewayKept)
  <1>1. IInv => WaitersBounded /\ HealthyGatewayKept
    BY HeartbeatBounds
       DEF IInv, HbInv, HbTypeOK, HbShape, HbTimely, HealthyGatewayKept, MaxFailures
  <1> QED BY AllInitial, AllStep, <1>1, PTL DEF Spec
=============================================================================
