------------------------------ MODULE TlsProofs ------------------------------
(***************************************************************************)
(* Proofs about the two kinds of TLS socket.                               *)
(*                                                                         *)
(* Blocking sockets (SslSocket), for any bound on descriptors and calls:   *)
(* the SSL object and the descriptor live and die together on every path,  *)
(* and what is usable between calls was verified.                          *)
(*                                                                         *)
(* Event sockets (SslEventSocket), for clients and accepted peers, any     *)
(* payload sizes and budget, and any bound on bytes, connections and       *)
(* calls: a repeated SSL_write passes the same bytes, a direct write never *)
(* overtakes queued output, and nothing follows our close_notify.  Most    *)
(* steps of an event socket leave its output alone ("quiet") or drop it    *)
(* with the connection ("gone"): one lemma each covers them all, and only  *)
(* the steps that queue, encrypt or give up output are taken one by one.   *)
(***************************************************************************)
EXTENDS SslSocket, SslEventSocket, SequenceTheorems, TLAPS

-----------------------------------------------------------------------------
(* Blocking sockets                                                        *)

\* Descriptors are numbered as they are made, so a new one is never the one
\* the socket has.
FdsAreNew == fd <= fds

\* connect() is called on a descriptor without an SSL object, ...
ConnectingIsBare == phase = "connecting" => fd # 0 /\ ssl = NoSsl /\ ~connected /\ last = "none"

\* ... and a handshake runs on one that has its own.
HandshakeHasSession == phase = "handshake" => fd # 0 /\ ssl.fd = fd /\ connected /\ last = "none"

\* Between calls an SSL object has completed its handshake, as its own settings
\* demand; that the socket is connected then is not needed.
IdleIsVerified ==
    phase = "idle" /\ ssl # NoSsl =>
        /\ ssl.finished
        /\ ssl.strict => Acceptable(ssl, ssl.cert)

\* The inductive invariant.
SslInv ==
    /\ SessionOnOwnDescriptor
    /\ FdsAreNew
    /\ ConnectingIsBare
    /\ HandshakeHasSession
    /\ IdleIsVerified

-----------------------------------------------------------------------------
\* The constructors establish the invariant.
LEMMA BlockingInit == SslInit => SslInv
<1> SUFFICES ASSUME SslInit PROVE SslInv
  OBVIOUS
<1>0. NoSsl \in SslObjects
  BY SslAssumption DEF NoSsl, SslObjects, Certificates
<1>1. fd \in 0..MaxFds /\ fd \in {0, 1} /\ openFds \subseteq 1..MaxFds /\ fds \in 1..MaxFds
  BY SslAssumption DEF SslInit
<1>2. connected \in BOOLEAN /\ ~connected
  BY DEF SslInit
<1>3. net_family \in Families /\ verify_mode \in {"strict", "off"} /\ changes \in 0..MaxSettings
  BY SslAssumption DEF SslInit, Families
<1>4. server \in BOOLEAN /\ allow_self_signed \in BOOLEAN /\ ssl \in SslObjects
  BY <1>0 DEF SslInit
<1>5. SslTypeOK
  BY <1>2, <1>3, <1>4, <1>1, SslAssumption DEF SslInit, SslTypeOK
<1> QED
  BY <1>1, <1>5 DEF SslInit, SslInv, SessionOnOwnDescriptor, FdsAreNew, ConnectingIsBare,
              HandshakeHasSession, IdleIsVerified

\* close(), wherever it is called: what it leaves has its types and no session.
LEMMA ReleaseLeaves ==
  ASSUME SslInv, Release
  PROVE  /\ fd' \in 0..MaxFds /\ fd' <= fds
         /\ connected' = FALSE /\ ssl' = NoSsl
         /\ ssl' \in SslObjects
         /\ openFds' = {} /\ fd' = 0 /\ remote' = "silent"
  BY SslAssumption
     DEF SslInv, SessionOnOwnDescriptor, SslTypeOK, Release, NoSsl, SslObjects, Certificates

\* connect_to keeps the invariant, whether it reuses the descriptor or not.
LEMMA ConnectStartStep ==
  ASSUME SslInv, NEW f \in {"inet", "inet6"}, ConnectStart(f)
  PROVE  SslInv'
<1> USE SslAssumption
    DEF SslInv, SessionOnOwnDescriptor, SslTypeOK, FdsAreNew, ConnectingIsBare,
        HandshakeHasSession, IdleIsVerified
<1>0. NoSsl \in SslObjects
  BY DEF NoSsl, SslObjects, Certificates
<1>1. CASE Reusable(f)
  BY <1>1 DEF ConnectStart, Reusable, settings
<1>2. CASE ~Reusable(f)
  <2>0. /\ ssl' = NoSsl /\ ssl' \in SslObjects /\ connected' \in BOOLEAN /\ ~connected'
        /\ remote' = "silent"
        /\ phase = "idle" /\ server' = server /\ changes' = changes
        /\ verify_mode' = verify_mode /\ allow_self_signed' = allow_self_signed
    BY <1>0, <1>2 DEF ConnectStart, settings
  <2>1. CASE /\ fds < MaxFds /\ fds' = fds + 1
             /\ fd' = fds + 1 /\ openFds' = (openFds \ {fd}) \cup {fds + 1}
             /\ net_family' = f /\ phase' = "connecting" /\ last' = "none"
             /\ UNCHANGED error_code
    <3>1. fd' \in 1..MaxFds /\ fds' \in 1..MaxFds /\ fd' <= fds'
      BY <2>1
    <3>2. openFds' = {fd'} /\ openFds' \subseteq 1..MaxFds
      BY <2>1, <3>1
    <3> QED
      BY <2>0, <2>1, <3>1, <3>2 DEF Families
  <2>2. CASE /\ fd' = 0 /\ openFds' = openFds \ {fd}
             /\ error_code' = "no_socket" /\ last' = "failed"
             /\ UNCHANGED <<net_family, phase, fds>>
    <3>1. openFds' = {}
      BY <2>2
    <3> QED
      BY <2>0, <2>2, <3>1
  <2> QED
    BY <1>2, <2>1, <2>2 DEF ConnectStart
<1> QED
  BY <1>1, <1>2

\* A new SSL object is one of the socket's descriptor.
LEMMA NewSslType ==
  ASSUME SslInv, NEW d \in 1..MaxFds
  PROVE  /\ [NewSsl EXCEPT !.fd = d] \in SslObjects
         /\ [NewSsl EXCEPT !.fd = d].fd = d
<1> DEFINE strict == ~server /\ verify_mode = "strict"
<1>1. strict \in BOOLEAN /\ allow_self_signed \in BOOLEAN /\ d \in 0..MaxFds
  BY SslAssumption DEF SslInv, SessionOnOwnDescriptor, SslTypeOK
<1>2. NewSsl = [fd |-> fd, strict |-> strict, self |-> allow_self_signed,
                finished |-> FALSE, cert |-> "bad"]
  BY DEF NewSsl
<1> HIDE DEF strict
<1> QED
  BY <1>1, <1>2 DEF SslObjects, Certificates

\* accept() keeps the invariant: the peer and its SSL object get the new descriptor.
LEMMA AcceptStep == SslInv /\ Accept => SslInv'
<1> SUFFICES ASSUME SslInv, Accept PROVE SslInv'
  OBVIOUS
<1>1. fds + 1 \in 1..MaxFds
  BY SslAssumption DEF SslInv, SessionOnOwnDescriptor, SslTypeOK, Accept
<1>2. /\ ssl' \in SslObjects
      /\ ssl'.fd = fd'
  BY <1>1, NewSslType DEF Accept
<1> QED
  BY <1>1, <1>2, SslAssumption
     DEF SslInv, SessionOnOwnDescriptor, SslTypeOK, FdsAreNew, ConnectingIsBare,
         HandshakeHasSession, IdleIsVerified, Accept, settings, Families

\* setup_ssl keeps the invariant.
LEMMA SetupDoneStep == SslInv /\ SetupDone => SslInv'
<1> SUFFICES ASSUME SslInv, SetupDone PROVE SslInv'
  OBVIOUS
<1>1. fd \in 1..MaxFds
  BY SslAssumption DEF SslInv, SessionOnOwnDescriptor, SslTypeOK, SetupDone, ConnectingIsBare
<1>2. /\ ssl' \in SslObjects
      /\ ssl'.fd = fd
  BY <1>1 DEF SslInv, SessionOnOwnDescriptor, SslTypeOK, SetupDone, NewSsl, SslObjects, Certificates
<1> QED
  BY <1>1, <1>2
     DEF SslInv, SessionOnOwnDescriptor, SslTypeOK, FdsAreNew, ConnectingIsBare,
         HandshakeHasSession, IdleIsVerified, SetupDone, settings

\* A handshake that perform_handshake accepts keeps the invariant: what it
\* accepts is what the settings copied into the SSL object accept.
LEMMA HandshakeDoneStep ==
  ASSUME SslInv, NEW cert \in Certificates, HandshakeDone(cert)
  PROVE  SslInv'
<1>1. /\ ssl' \in SslObjects
      /\ ssl'.fd = ssl.fd /\ ssl'.strict = ssl.strict /\ ssl'.self = ssl.self
      /\ ssl'.finished /\ ssl'.cert = cert
  BY DEF SslInv, SessionOnOwnDescriptor, SslTypeOK, HandshakeDone, SslObjects
<1>2. ssl'.strict => Acceptable(ssl', ssl'.cert)
  BY <1>1 DEF HandshakeDone, HandshakeVerified, Acceptable
<1>3. IdleIsVerified'
  BY <1>1, <1>2 DEF IdleIsVerified, Acceptable
<1>4. SessionOnOwnDescriptor' /\ FdsAreNew' /\ ConnectingIsBare' /\ HandshakeHasSession'
  BY <1>1
     DEF SslInv, SessionOnOwnDescriptor, SslTypeOK, FdsAreNew, ConnectingIsBare,
         HandshakeHasSession, HandshakeDone, settings
<1> QED
  BY <1>3, <1>4 DEF SslInv

\* Every step keeps the invariant.
LEMMA BlockingStep == SslInv /\ [SslNext]_sslVars => SslInv'
<1> SUFFICES ASSUME SslInv, [SslNext]_sslVars PROVE SslInv'
  OBVIOUS
<1> USE DEF SslInv, SessionOnOwnDescriptor, SslTypeOK, FdsAreNew, ConnectingIsBare,
            HandshakeHasSession, IdleIsVerified
<1>1. ASSUME NEW how \in {"speaks", "gone"}, RemoteActs(how) PROVE SslInv'
  BY <1>1 DEF RemoteActs, settings, Acceptable
<1>2. CASE SslClose
  BY <1>2, ReleaseLeaves DEF SslClose, settings
<1>3. CASE IoFails
  BY <1>3, SslAssumption DEF IoFails, settings, Acceptable
<1>4. ASSUME NEW mode \in {"strict", "off"}, SetVerification(mode) PROVE SslInv'
  BY <1>4, SslAssumption DEF SetVerification, Acceptable
<1>5. ASSUME NEW allow \in BOOLEAN, SetAllowSelfSigned(allow) PROVE SslInv'
  BY <1>5, SslAssumption DEF SetAllowSelfSigned, Acceptable
<1>6. CASE ConnectRefused
  BY <1>6, SslAssumption DEF ConnectRefused, settings, Acceptable
<1>7. ASSUME NEW f \in {"inet", "inet6"}, ConnectStart(f) PROVE SslInv'
  BY <1>7, ConnectStartStep
<1>8. CASE ConnectFails
  BY <1>8, ReleaseLeaves DEF ConnectFails, settings
<1>9. CASE SetupDone
  BY <1>9, SetupDoneStep
<1>10. CASE SetupFails
  BY <1>10, ReleaseLeaves DEF SetupFails, settings
<1>11. CASE Accept
  BY <1>11, AcceptStep
<1>12. ASSUME NEW cert \in Certificates, HandshakeDone(cert) PROVE SslInv'
  BY <1>12, HandshakeDoneStep
<1>13. CASE HandshakeFails
  BY <1>13, ReleaseLeaves DEF HandshakeFails, settings
<1>14. CASE AcceptFails
  BY <1>14, SslAssumption DEF AcceptFails, settings, Acceptable
<1>15. CASE PeerDropped
  BY <1>15, ReleaseLeaves DEF PeerDropped, settings
<1>16. CASE UNCHANGED sslVars
  BY <1>16 DEF sslVars, settings, Acceptable
<1> QED
  BY <1>1, <1>2, <1>3, <1>4, <1>5, <1>6, <1>7, <1>8, <1>9, <1>10, <1>11, <1>12, <1>13, <1>14,
     <1>15, <1>16
     DEF SslNext

\* The invariant holds through every connect, accept, close and failure.
LEMMA SslInductive == SslSpec => []SslInv
<1>1. SslInit => SslInv
  BY BlockingInit
<1>2. SslInv /\ [SslNext]_sslVars => SslInv'
  BY BlockingStep
<1> QED
  BY <1>1, <1>2, PTL DEF SslSpec

-----------------------------------------------------------------------------
\* No SSL object is kept over a close, a failed connection or a reconnection
\* (ssl_client_socket::connect_to, ssl_socket::close), no descriptor leaks, and
\* a connect() or accept() that fails leaves neither.
THEOREM SessionTheorem == SslSpec => []SessionOnOwnDescriptor
<1>1. SslInv => SessionOnOwnDescriptor
  BY DEF SslInv
<1> QED
  BY <1>1, SslInductive, PTL

\* What read() and write() use between calls has completed its handshake, and
\* in strict mode with a certificate that perform_handshake accepted under the
\* settings the connection was made with.
THEOREM VerifiedTheorem == SslSpec => []UsableIsVerified
<1>1. SslInv => UsableIsVerified
  BY DEF SslInv, IdleIsVerified, UsableIsVerified
<1> QED
  BY <1>1, SslInductive, PTL

-----------------------------------------------------------------------------
(* Sequences of bytes                                                      *)

\* s runs upwards, and all of s is below all of t.
Ascending(s) == \A i, j \in 1..Len(s) : i < j => s[i] < s[j]
Below(s, t) == \A i \in 1..Len(s), j \in 1..Len(t) : s[i] < t[j]
AtMost(s, n) == \A i \in 1..Len(s) : s[i] <= n

\* The first n bytes.
LEMMA PrefixFacts ==
    ASSUME NEW s \in Seq(Nat), NEW n \in Nat, n <= Len(s)
    PROVE  /\ Prefix(s, n) \in Seq(Nat) /\ Len(Prefix(s, n)) = n
           /\ \A i \in 1..n : Prefix(s, n)[i] = s[i]
BY SubSeqProperties DEF Prefix

\* The bytes after the first n.
LEMMA SuffixFacts ==
    ASSUME NEW s \in Seq(Nat), NEW n \in Nat, n <= Len(s)
    PROVE  /\ Suffix(s, n) \in Seq(Nat) /\ Len(Suffix(s, n)) = Len(s) - n
           /\ \A i \in 1..(Len(s) - n) : Suffix(s, n)[i] = s[i + n]
<1>1. PICK m \in Nat : m = Len(s)
  OBVIOUS
<1>2. n + 1 \in Int /\ m \in Int /\ \A i \in (n + 1)..m : s[i] \in Nat
  BY <1>1
<1>3. SubSeq(s, n + 1, m) \in Seq(Nat)
  BY <1>1, <1>2, SubSeqProperties
<1>4. Len(SubSeq(s, n + 1, m)) = m - n
  BY <1>1, <1>2, SubSeqProperties
<1>5. \A i \in 1..(m - n) : SubSeq(s, n + 1, m)[i] = s[i + n]
  BY <1>1, <1>2, SubSeqProperties
<1> QED
  BY <1>1, <1>3, <1>4, <1>5 DEF Suffix

\* Concatenation.
LEMMA ConcatFacts ==
    ASSUME NEW s \in Seq(Nat), NEW t \in Seq(Nat)
    PROVE  /\ s \o t \in Seq(Nat) /\ Len(s \o t) = Len(s) + Len(t)
           /\ \A i \in 1..Len(s) : (s \o t)[i] = s[i]
           /\ \A i \in 1..Len(t) : (s \o t)[Len(s) + i] = t[i]
           /\ \A i \in 1..Len(s \o t) :
                 \/ i \in 1..Len(s) /\ (s \o t)[i] = s[i]
                 \/ i - Len(s) \in 1..Len(t) /\ (s \o t)[i] = t[i - Len(s)]
BY ConcatProperties

\* Sequences of the same length and elements are the same.
LEMMA SameSequence ==
    ASSUME NEW s \in Seq(Nat), NEW t \in Seq(Nat), Len(s) = Len(t),
           \A i \in 1..Len(s) : s[i] = t[i]
    PROVE  s = t
BY SeqEqual

\* A prefix of a prefix.
LEMMA PrefixTwice ==
    ASSUME NEW s \in Seq(Nat), NEW m \in Nat, NEW n \in Nat, n <= m, m <= Len(s)
    PROVE  Prefix(Prefix(s, m), n) = Prefix(s, n)
<1>1. Prefix(s, m) \in Seq(Nat) /\ Len(Prefix(s, m)) = m /\ \A i \in 1..m : Prefix(s, m)[i] = s[i]
  BY PrefixFacts
<1>2. n <= Len(s)
  OBVIOUS
<1>3. Prefix(s, n) \in Seq(Nat) /\ Len(Prefix(s, n)) = n /\ \A i \in 1..n : Prefix(s, n)[i] = s[i]
  BY <1>2, PrefixFacts
<1>4. PICK p : p = Prefix(s, m)
  OBVIOUS
<1>5. /\ Prefix(p, n) \in Seq(Nat) /\ Len(Prefix(p, n)) = n
      /\ \A i \in 1..n : Prefix(p, n)[i] = p[i]
  BY <1>1, <1>4, PrefixFacts
<1>6. \A i \in 1..n : Prefix(p, n)[i] = Prefix(s, n)[i]
  BY <1>1, <1>3, <1>4, <1>5
<1> QED
  BY <1>3, <1>4, <1>5, <1>6, SameSequence

\* A prefix of all of it, and none of it.
LEMMA PrefixWhole ==
    ASSUME NEW s \in Seq(Nat)
    PROVE  Prefix(s, Len(s)) = s
<1>1. Len(s) \in Nat /\ Len(s) <= Len(s)
  OBVIOUS
<1> QED
  BY <1>1, PrefixFacts, SameSequence

\* What is appended does not change a prefix.
LEMMA PrefixOfConcat ==
    ASSUME NEW s \in Seq(Nat), NEW t \in Seq(Nat), NEW n \in Nat, n <= Len(s)
    PROVE  n <= Len(s \o t) /\ Prefix(s \o t, n) = Prefix(s, n)
<1>1. PICK u : u = s \o t
  OBVIOUS
<1>2. u \in Seq(Nat) /\ Len(u) = Len(s) + Len(t) /\ \A i \in 1..Len(s) : u[i] = s[i]
  BY <1>1, ConcatFacts
<1>3. n <= Len(u)
  BY <1>2
<1>4. /\ Prefix(u, n) \in Seq(Nat) /\ Len(Prefix(u, n)) = n
      /\ \A i \in 1..n : Prefix(u, n)[i] = u[i]
  BY <1>2, <1>3, PrefixFacts
<1>5. /\ Prefix(s, n) \in Seq(Nat) /\ Len(Prefix(s, n)) = n
      /\ \A i \in 1..n : Prefix(s, n)[i] = s[i]
  BY PrefixFacts
<1>6. \A i \in 1..n : Prefix(u, n)[i] = Prefix(s, n)[i]
  <2>1. \A i \in 1..n : i \in 1..Len(s)
    OBVIOUS
  <2> QED
    BY <1>2, <1>4, <1>5, <2>1
<1>7. Prefix(u, n) = Prefix(s, n)
  BY <1>4, <1>5, <1>6, SameSequence
<1> QED
  BY <1>1, <1>3, <1>7

\* Bytes that are accepted now are above all that were.
LEMMA BytesFacts ==
    ASSUME accepted \in Nat, NEW n \in Nat
    PROVE  /\ Bytes(n) \in Seq(Nat) /\ Len(Bytes(n)) = n
           /\ \A i \in 1..n : Bytes(n)[i] = accepted + i
           /\ Ascending(Bytes(n)) /\ AtMost(Bytes(n), accepted + n)
           /\ \A s \in Seq(Nat) : AtMost(s, accepted) => Below(s, Bytes(n))
<1>1. /\ Bytes(n) \in Seq(Nat) /\ Len(Bytes(n)) = n
      /\ \A i \in 1..n : Bytes(n)[i] = accepted + i
  BY DEF Bytes
<1>2. Ascending(Bytes(n)) /\ AtMost(Bytes(n), accepted + n)
  BY <1>1 DEF Ascending, AtMost
<1>3. ASSUME NEW s \in Seq(Nat), AtMost(s, accepted) PROVE Below(s, Bytes(n))
  <2>1. \A i \in 1..Len(s) : s[i] \in Nat
    OBVIOUS
  <2> QED
    BY <1>1, <1>3, <2>1 DEF AtMost, Below
<1> QED
  BY <1>1, <1>2, <1>3

\* The order of a part of a sequence.
LEMMA OrderOfPart ==
    ASSUME NEW s \in Seq(Nat), NEW n \in Nat, n <= Len(s), Ascending(s)
    PROVE  /\ Ascending(Prefix(s, n)) /\ Ascending(Suffix(s, n))
           /\ Below(Prefix(s, n), Suffix(s, n))
           /\ \A t \in Seq(Nat) : Below(t, s) => Below(t, Prefix(s, n)) /\ Below(t, Suffix(s, n))
           /\ \A t \in Seq(Nat) : Below(s, t) => Below(Prefix(s, n), t)
           /\ \A m \in Nat : AtMost(s, m) => AtMost(Prefix(s, n), m) /\ AtMost(Suffix(s, n), m)
<1>1. PICK p, q : p = Prefix(s, n) /\ q = Suffix(s, n)
  OBVIOUS
<1>2. p \in Seq(Nat) /\ Len(p) = n /\ \A i \in 1..n : p[i] = s[i]
  BY <1>1, PrefixFacts
<1>3. q \in Seq(Nat) /\ Len(q) = Len(s) - n /\ \A i \in 1..(Len(s) - n) : q[i] = s[i + n]
  BY <1>1, SuffixFacts
<1>4. /\ \A i \in 1..Len(p) : i \in 1..Len(s) /\ p[i] = s[i] /\ i <= n
      /\ \A i \in 1..Len(q) : i + n \in 1..Len(s) /\ q[i] = s[i + n] /\ i + n > n
  <2>1. PICK L \in Nat : L = Len(s)
    OBVIOUS
  <2>2. \A i \in 1..n : i \in 1..L
    BY <2>1
  <2>3. \A i \in 1..(L - n) : i + n \in 1..L /\ i + n > n
    BY <2>1
  <2>4. \A i \in 1..Len(p) : i \in 1..Len(s) /\ p[i] = s[i] /\ i <= n
    BY <1>2, <2>1, <2>2
  <2>5. \A i \in 1..Len(q) : i + n \in 1..Len(s) /\ q[i] = s[i + n] /\ i + n > n
    BY <1>3, <2>1, <2>3
  <2> QED
    BY <2>4, <2>5
<1>5. Ascending(p) /\ Ascending(q) /\ Below(p, q)
  <2>1. Ascending(p)
    BY <1>4 DEF Ascending
  <2>2. Ascending(q)
    <3> SUFFICES ASSUME NEW i \in 1..Len(q), NEW j \in 1..Len(q), i < j PROVE q[i] < q[j]
      BY DEF Ascending
    <3>1. i + n < j + n
      OBVIOUS
    <3> QED
      BY <1>4, <3>1 DEF Ascending
  <2>3. Below(p, q)
    <3> SUFFICES ASSUME NEW i \in 1..Len(p), NEW j \in 1..Len(q) PROVE p[i] < q[j]
      BY DEF Below
    <3>1. i < j + n
      BY <1>4
    <3> QED
      BY <1>4, <3>1 DEF Ascending
  <2> QED
    BY <2>1, <2>2, <2>3
<1>6. ASSUME NEW t \in Seq(Nat), Below(t, s) PROVE Below(t, p) /\ Below(t, q)
  BY <1>4, <1>6 DEF Below
<1>7. ASSUME NEW t \in Seq(Nat), Below(s, t) PROVE Below(p, t)
  BY <1>4, <1>7 DEF Below
<1>8. ASSUME NEW m \in Nat, AtMost(s, m) PROVE AtMost(p, m) /\ AtMost(q, m)
  BY <1>4, <1>8 DEF AtMost
<1> QED
  BY <1>1, <1>5, <1>6, <1>7, <1>8

\* The order of a concatenation.
LEMMA OrderOfConcat ==
    ASSUME NEW s \in Seq(Nat), NEW t \in Seq(Nat), Ascending(s), Ascending(t), Below(s, t)
    PROVE  /\ Ascending(s \o t)
           /\ \A u \in Seq(Nat) : Below(s, u) /\ Below(t, u) => Below(s \o t, u)
           /\ \A u \in Seq(Nat) : Below(u, s) /\ Below(u, t) => Below(u, s \o t)
           /\ \A m \in Nat : AtMost(s, m) /\ AtMost(t, m) => AtMost(s \o t, m)
<1>1. PICK c : c = s \o t
  OBVIOUS
<1>2. /\ c \in Seq(Nat) /\ Len(c) = Len(s) + Len(t)
      /\ \A i \in 1..Len(c) : \/ i \in 1..Len(s) /\ c[i] = s[i]
                              \/ i - Len(s) \in 1..Len(t) /\ c[i] = t[i - Len(s)]
  BY <1>1, ConcatFacts
<1>3. Len(s) \in Nat /\ Len(t) \in Nat
  OBVIOUS
<1>4. Ascending(c)
  <2> SUFFICES ASSUME NEW i \in 1..Len(c), NEW j \in 1..Len(c), i < j PROVE c[i] < c[j]
    BY DEF Ascending
  <2>1. CASE i \in 1..Len(s) /\ c[i] = s[i] /\ j \in 1..Len(s) /\ c[j] = s[j]
    BY <2>1 DEF Ascending
  <2>2. CASE i \in 1..Len(s) /\ c[i] = s[i] /\ j - Len(s) \in 1..Len(t) /\ c[j] = t[j - Len(s)]
    BY <2>2 DEF Below
  <2>3. CASE i - Len(s) \in 1..Len(t) /\ c[i] = t[i - Len(s)] /\ j - Len(s) \in 1..Len(t)
             /\ c[j] = t[j - Len(s)]
    <3>1. i - Len(s) < j - Len(s)
      BY <1>3
    <3> QED
      BY <2>3, <3>1 DEF Ascending
  <2>4. ~(i - Len(s) \in 1..Len(t) /\ j \in 1..Len(s))
    BY <1>3
  <2> QED
    BY <1>2, <2>1, <2>2, <2>3, <2>4
<1>5. ASSUME NEW u \in Seq(Nat), Below(s, u), Below(t, u) PROVE Below(c, u)
  BY <1>2, <1>3, <1>5 DEF Below
<1>6. ASSUME NEW u \in Seq(Nat), Below(u, s), Below(u, t) PROVE Below(u, c)
  BY <1>2, <1>3, <1>6 DEF Below
<1>7. ASSUME NEW m \in Nat, AtMost(s, m), AtMost(t, m) PROVE AtMost(c, m)
  BY <1>2, <1>3, <1>7 DEF AtMost
<1> QED
  BY <1>1, <1>4, <1>5, <1>6, <1>7

-----------------------------------------------------------------------------
(* The inductive invariant                                                 *)

\* poll() and the connection behind the number it watches.  The session lives as
\* long as the connection.  User code, which may close or reconnect, runs in
\* callbacks only: up to the first of them the watched connection is the current
\* one, and past poll_step its handshake is complete; a flush may find one that
\* replaced it, whose handshake has not begun, and which has no record yet.  A flush
\* retries a record with its first SSL_write, when its whole budget is left, and
\* never a direct write's record.
PollKnows ==
    /\ session = open /\ seen <= conn
    /\ pc \in {"step", "read"} => open /\ conn = seen
    /\ pc = "send" => open
    /\ pc \in {"read", "data", "flush", "send"} /\ open /\ conn = seen => tls.tls_ready
    /\ ~tls.tls_ready => tls.pending_write = <<>>
    /\ pc = "send" /\ tls.pending_write # <<>> => tls.pending_write_queued /\ sent = 0

\* The record OpenSSL holds is the one the object remembers.  It belongs to the
\* caller of write(), or it is at the front of the queue and within the budget.
RecordIsPending ==
    /\ ~badRetry
    /\ ossl.record = tls.pending_write
    /\ direct = IF tls.pending_write_queued THEN <<>> ELSE tls.pending_write
    /\ tls.pending_write_queued =>
          /\ Len(tls.pending_write) <= Len(queue) /\ Len(tls.pending_write) <= Budget
          /\ tls.pending_write = Prefix(queue, Len(tls.pending_write))

\* What was written comes before a started direct write, and that before the queue.
StreamOrder ==
    /\ Ascending(wire) /\ Ascending(direct) /\ Ascending(queue)
    /\ Below(wire, direct) /\ Below(wire, queue) /\ Below(direct, queue)
    /\ AtMost(wire, accepted) /\ AtMost(direct, accepted) /\ AtMost(queue, accepted)

\* Our alert is sent in a shutdown; a shutdown that finds a direct write unfinished
\* was begun by the peer.
NotifyClosesOutput ==
    /\ ossl.notified => tls.shutdown_requested
    /\ tls.shutdown_requested /\ direct # <<>> => tls.peer_notified_close

\* The inductive invariant.
TlsInv ==
    /\ TypeOK
    /\ PollKnows
    /\ RecordIsPending
    /\ StreamOrder
    /\ NotifyClosesOutput

-----------------------------------------------------------------------------
(* What most steps have in common                                          *)

\* Output, the record and what belongs to whom stay as they are.
OutputKept ==
    /\ queue' = queue /\ direct' = direct /\ wire' = wire
    /\ accepted' = accepted /\ badRetry' = badRetry
    /\ ossl'.record = ossl.record
    /\ tls'.pending_write = tls.pending_write
    /\ tls'.pending_write_queued = tls.pending_write_queued

\* Output is gone, with the session it was for.
OutputGone ==
    /\ queue' = <<>> /\ direct' = <<>> /\ wire' \in {wire, <<>>}
    /\ accepted' = accepted /\ badRetry' = badRetry
    /\ ossl' = NewSession /\ tls' \in {Fresh, Cleared}

\* A step that keeps output keeps its order and its owner.
LEMMA KeptOutput ==
    ASSUME TlsInv, OutputKept
    PROVE  RecordIsPending' /\ StreamOrder'
<1>1. RecordIsPending'
  BY DEF TlsInv, OutputKept, RecordIsPending
<1>2. StreamOrder'
  BY DEF TlsInv, OutputKept, StreamOrder
<1> QED
  BY <1>1, <1>2

\* Fresh flags and sessions.
LEMMA FreshTypes ==
    /\ Fresh \in Flags /\ Cleared \in Flags /\ NewSession \in Sessions
    /\ \A t \in {Fresh, Cleared} :
          /\ t.pending_write = <<>> /\ ~t.pending_write_queued
          /\ ~t.shutdown_requested /\ ~t.tls_ready /\ ~t.peer_notified_close
    /\ NewSession.record = <<>> /\ ~NewSession.notified
<1>1. PICK client \in BOOLEAN : client = ~Server
  BY TlsAssumption
<1>2. /\ Fresh \in Flags /\ Fresh.pending_write = <<>> /\ ~Fresh.pending_write_queued
      /\ ~Fresh.shutdown_requested /\ ~Fresh.tls_ready /\ ~Fresh.peer_notified_close
  BY <1>1 DEF Fresh, Flags
<1>3. /\ Cleared \in Flags /\ Cleared.pending_write = <<>> /\ ~Cleared.pending_write_queued
      /\ ~Cleared.shutdown_requested /\ ~Cleared.tls_ready /\ ~Cleared.peer_notified_close
  <2>1. PICK f : f = Fresh
    OBVIOUS
  <2>2. Cleared = [f EXCEPT !.need_write = FALSE] /\ f \in Flags
    BY <1>2, <2>1 DEF Cleared
  <2>3. /\ Cleared \in Flags
        /\ Cleared.pending_write = f.pending_write
        /\ Cleared.pending_write_queued = f.pending_write_queued
        /\ Cleared.shutdown_requested = f.shutdown_requested
        /\ Cleared.tls_ready = f.tls_ready
        /\ Cleared.peer_notified_close = f.peer_notified_close
    BY <2>2 DEF Flags
  <2> QED
    BY <1>2, <2>1, <2>3
<1>4. NewSession \in Sessions /\ NewSession.record = <<>> /\ ~NewSession.notified
  BY DEF NewSession, Sessions
<1> QED
  BY <1>2, <1>3, <1>4

\* Nothing is in order.
LEMMA GoneOutput ==
    ASSUME TlsInv, OutputGone
    PROVE  RecordIsPending' /\ StreamOrder' /\ NotifyClosesOutput'
<1>1. /\ tls'.pending_write = <<>> /\ ~tls'.pending_write_queued /\ ~tls'.shutdown_requested
      /\ ossl'.record = <<>> /\ ~ossl'.notified
  BY FreshTypes DEF OutputGone
<1>2. RecordIsPending'
  BY <1>1 DEF TlsInv, OutputGone, RecordIsPending
<1>3. wire' = wire \/ wire' = <<>>
  BY DEF OutputGone
<1>4. \A t : Ascending(<<>>) /\ Below(<<>>, t) /\ Below(t, <<>>) /\ AtMost(<<>>, accepted)
  BY DEF Ascending, Below, AtMost
<1>5. StreamOrder'
  <2>1. CASE wire' = wire
    BY <1>4, <2>1 DEF TlsInv, OutputGone, StreamOrder
  <2>2. CASE wire' = <<>>
    BY <1>4, <2>2 DEF OutputGone, StreamOrder
  <2> QED
    BY <1>3, <2>1, <2>2
<1>6. NotifyClosesOutput'
  BY <1>1 DEF NotifyClosesOutput
<1> QED
  BY <1>2, <1>5, <1>6

\* The constructor establishes the invariant.
LEMMA TlsInit == Init => TlsInv
<1> SUFFICES ASSUME Init PROVE TlsInv
  OBVIOUS
<1>0. Cleared \in Flags /\ NewSession \in Sessions
  BY FreshTypes
<1>1. TypeOK
  <2>1. open \in BOOLEAN /\ session \in BOOLEAN /\ due \in BOOLEAN /\ badRetry \in BOOLEAN
    BY DEF Init
  <2>2. tls \in Flags /\ ossl \in Sessions
    BY <1>0 DEF Init
  <2>3. queue \in Seq(Nat) /\ direct \in Seq(Nat) /\ wire \in Seq(Nat)
    BY DEF Init
  <2>4. /\ pc \in {"idle", "step", "read", "data", "flush", "send",
                  "failed", "read_failed", "flush_failed"}
        /\ flags \subseteq {"IN", "OUT", "HUP", "ERR"}
    BY DEF Init
  <2>5. /\ conn \in Nat /\ sockfd \in Nat /\ watch \in Nat /\ seen \in Nat /\ sent \in Nat
        /\ accepted \in Nat /\ ops \in Nat
    BY DEF Init
  <2>6. call \in [Producers -> Nat]
    BY DEF Init
  <2> QED
    BY <2>1, <2>2, <2>3, <2>4, <2>5, <2>6 DEF TypeOK
<1>2. /\ tls.pending_write = <<>> /\ ~tls.pending_write_queued /\ ~tls.shutdown_requested
      /\ ossl.record = <<>> /\ ~ossl.notified
  BY FreshTypes DEF Init
<1>3. PollKnows /\ RecordIsPending /\ NotifyClosesOutput
  <2>1. pc = "idle" /\ ~open /\ ~session /\ seen = 0 /\ conn = 0
    BY DEF Init
  <2>2. PollKnows
    BY <2>1, <1>1, <1>2 DEF PollKnows, TypeOK
  <2>3. RecordIsPending
    BY <1>2 DEF Init, RecordIsPending
  <2> QED
    BY <1>2, <2>2, <2>3 DEF NotifyClosesOutput
<1>4. StreamOrder
  BY DEF Init, StreamOrder, Ascending, Below, AtMost
<1> QED
  BY <1>1, <1>3, <1>4 DEF TlsInv

-----------------------------------------------------------------------------
(* Steps that leave output alone                                           *)

Places == {"idle", "step", "read", "data", "flush", "send", "failed", "read_failed",
           "flush_failed"}

\* Where such a step may take poll().
QuietMove ==
    \/ UNCHANGED pollVars
    \/ Goto("idle")
    \/ pc = "step" /\ Goto("failed")
    \/ pc = "step" /\ tls.tls_ready /\ Goto("read")
    \/ pc \in {"read", "data"} /\ (Goto("data") \/ Goto("flush") \/ Goto("read_failed"))

\* What it may do to the flags and to the session: a handshake stays complete, a
\* shutdown requested, and our alert is sent with nothing queued.
QuietFlags ==
    /\ tls' \in Flags
    /\ tls'.pending_write = tls.pending_write
    /\ tls'.pending_write_queued = tls.pending_write_queued
    /\ tls.tls_ready => tls'.tls_ready
    /\ tls.shutdown_requested => tls'.shutdown_requested
    /\ tls'.shutdown_requested /\ direct # <<>> => tls'.peer_notified_close
QuietSession ==
    /\ ossl' \in Sessions
    /\ ossl'.record = ossl.record
    /\ ossl'.notified => ossl.notified \/ (tls.shutdown_requested /\ queue = <<>>)
\* A call of queue_write passes its tests before a shutdown, or ends.
QuietCalls ==
    /\ call' \in [Producers -> Nat]
    /\ call' = call \/ ~tls.shutdown_requested \/ \E p \in Producers : call[p] # 0
Quiet ==
    /\ UNCHANGED <<connVars, queue, direct, wire, accepted, badRetry>>
    /\ due' \in BOOLEAN /\ ops' \in Nat
    /\ QuietMove /\ QuietFlags /\ QuietSession /\ QuietCalls

\* Going somewhere keeps the locals or resets them.
LEMMA GotoTypes ==
    ASSUME TypeOK, NEW place \in Places, Goto(place)
    PROVE  /\ pc' = place /\ pc' \in Places
           /\ flags' \subseteq {"IN", "OUT", "HUP", "ERR"}
           /\ watch' \in Nat /\ seen' \in Nat /\ sent' = 0 /\ sent' \in Nat
           /\ seen' = 0 \/ seen' = seen
           /\ place \notin {"idle", "failed"} => seen' = seen
<1>1. pc' = place /\ sent' = 0
  BY DEF Goto
<1>2. flags' \subseteq {"IN", "OUT", "HUP", "ERR"}
  <2>1. flags' = flags \/ flags' = flags \cap {"IN", "OUT"} \/ flags' = {}
    BY DEF Goto
  <2> QED
    BY <2>1 DEF TypeOK
<1>3. (watch' = 0 /\ seen' = 0) \/ (watch' = watch /\ seen' = seen)
  BY DEF Goto
<1>4. place \notin {"idle", "failed"} => seen' = seen
  BY DEF Goto
<1>5. watch' \in Nat /\ seen' \in Nat
  BY <1>3 DEF TypeOK
<1> QED
  BY <1>1, <1>2, <1>3, <1>4, <1>5

\* A quiet step leaves poll() knowing what it knew.
LEMMA QuietMoves ==
    ASSUME TlsInv, Quiet
    PROVE  /\ PollKnows' /\ pc' \in Places
           /\ flags' \subseteq {"IN", "OUT", "HUP", "ERR"}
           /\ watch' \in Nat /\ seen' \in Nat /\ sent' \in Nat
<1> USE DEF TlsInv
<1>1. /\ session' = session /\ open' = open /\ conn' = conn
      /\ tls'.pending_write = tls.pending_write
      /\ tls'.pending_write_queued = tls.pending_write_queued
      /\ tls.tls_ready => tls'.tls_ready
      /\ conn \in Nat
  BY DEF Quiet, QuietFlags, connVars, TypeOK
<1>2. CASE UNCHANGED pollVars
  <2>1. pc' = pc /\ watch' = watch /\ seen' = seen /\ sent' = sent /\ flags' = flags
    BY <1>2 DEF pollVars
  <2>2. PollKnows'
    BY <1>1, <2>1 DEF PollKnows
  <2> QED
    BY <2>1, <2>2 DEF TypeOK, Places
<1>3. ASSUME NEW place \in Places, Goto(place),
             place \in {"idle", "failed", "read_failed"}
                \/ (pc = "step" /\ tls.tls_ready /\ place = "read")
                \/ (pc \in {"read", "data"} /\ place \in {"data", "flush"})
      PROVE  PollKnows'
  <2>1. pc' = place /\ (seen' = 0 \/ seen' = seen) /\ sent' = 0
        /\ (place \notin {"idle", "failed"} => seen' = seen)
    BY <1>3, GotoTypes
  <2>2. seen' <= conn'
    BY <1>1, <2>1 DEF PollKnows
  <2>3. session' = open' /\ (~tls'.tls_ready => tls'.pending_write = <<>>)
    BY <1>1 DEF PollKnows
  <2>4. CASE place \in {"idle", "failed", "read_failed"}
    BY <2>1, <2>2, <2>3, <2>4 DEF PollKnows
  <2>5. CASE pc = "step" /\ tls.tls_ready /\ place = "read"
    BY <1>1, <2>1, <2>2, <2>3, <2>5 DEF PollKnows
  <2>6. CASE pc \in {"read", "data"} /\ place \in {"data", "flush"}
    BY <1>1, <2>1, <2>2, <2>3, <2>6 DEF PollKnows
  <2> QED
    BY <1>3, <2>4, <2>5, <2>6
<1>4. ASSUME NEW place \in Places, Goto(place)
      PROVE  /\ pc' \in Places /\ flags' \subseteq {"IN", "OUT", "HUP", "ERR"}
             /\ watch' \in Nat /\ seen' \in Nat /\ sent' \in Nat
  BY <1>4, GotoTypes
<1>5. UNCHANGED pollVars \/ \E place \in Places :
          /\ Goto(place)
          /\ \/ place \in {"idle", "failed", "read_failed"}
             \/ pc = "step" /\ tls.tls_ready /\ place = "read"
             \/ pc \in {"read", "data"} /\ place \in {"data", "flush"}
  BY DEF Quiet, QuietMove, Places
<1> QED
  BY <1>2, <1>3, <1>4, <1>5

\* A quiet step keeps the invariant.
LEMMA QuietStep == TlsInv /\ Quiet => TlsInv'
<1> SUFFICES ASSUME TlsInv, Quiet PROVE TlsInv'
  OBVIOUS
<1>1. OutputKept
  BY DEF Quiet, QuietFlags, QuietSession, OutputKept
<1>2. /\ PollKnows' /\ pc' \in Places
      /\ flags' \subseteq {"IN", "OUT", "HUP", "ERR"}
      /\ watch' \in Nat /\ seen' \in Nat /\ sent' \in Nat
  BY QuietMoves
<1>3. RecordIsPending' /\ StreamOrder'
  BY <1>1, KeptOutput
<1>4. NotifyClosesOutput'
  <2>1. direct' = direct
    BY DEF Quiet
  <2>2. ossl'.notified => tls'.shutdown_requested
    BY <2>1 DEF TlsInv, NotifyClosesOutput, Quiet, QuietSession, QuietFlags
  <2>3. tls'.shutdown_requested /\ direct' # <<>> => tls'.peer_notified_close
    BY <2>1 DEF Quiet, QuietFlags
  <2> QED
    BY <2>2, <2>3 DEF NotifyClosesOutput
<1>5. TypeOK'
  <2>1. /\ tls' \in Flags /\ ossl' \in Sessions /\ due' \in BOOLEAN /\ ops' \in Nat
        /\ call' \in [Producers -> Nat]
    BY DEF Quiet, QuietFlags, QuietSession, QuietCalls
  <2>2. /\ conn' \in Nat /\ sockfd' \in Nat /\ accepted' \in Nat
        /\ queue' \in Seq(Nat) /\ direct' \in Seq(Nat) /\ wire' \in Seq(Nat)
    BY DEF Quiet, connVars, TlsInv, TypeOK
  <2>3. open' \in BOOLEAN /\ session' \in BOOLEAN /\ badRetry' \in BOOLEAN
    BY DEF Quiet, connVars, TlsInv, TypeOK
  <2> QED
    BY <1>2, <2>1, <2>2, <2>3 DEF TypeOK, Places
<1> QED
  BY <1>2, <1>3, <1>4, <1>5 DEF TlsInv

\* u has the flags of t that the invariant is about.
Alike(t, u) ==
    /\ u \in Flags
    /\ u.pending_write = t.pending_write /\ u.pending_write_queued = t.pending_write_queued
    /\ u.shutdown_requested = t.shutdown_requested
    /\ u.peer_notified_close = t.peer_notified_close
    /\ t.tls_ready => u.tls_ready

\* The updates of poll_step and poll_receive that do not begin a shutdown.
LEMMA FlagUpdates ==
    ASSUME NEW t \in Flags, NEW b \in BOOLEAN, NEW c \in BOOLEAN
    PROVE  /\ Alike(t, t)
           /\ Alike(t, [t EXCEPT !.tls_ready = TRUE, !.need_write = FALSE])
           /\ Alike(t, [t EXCEPT !.need_write = b])
           /\ Alike(t, [t EXCEPT !.ssl_failed = TRUE])
           /\ Alike(t, [t EXCEPT !.recv_need_write = b])
           /\ Alike(t, [t EXCEPT !.shutdown_notify_sent = TRUE,
                                 !.shutdown_need_write = b, !.shutdown_need_read = c])
<1>1. Alike(t, t)
  BY DEF Alike
<1>2. Alike(t, [t EXCEPT !.tls_ready = TRUE, !.need_write = FALSE])
  BY DEF Alike, Flags
<1>3. Alike(t, [t EXCEPT !.need_write = b])
  BY DEF Alike, Flags
<1>4. Alike(t, [t EXCEPT !.ssl_failed = TRUE])
  BY DEF Alike, Flags
<1>5. Alike(t, [t EXCEPT !.recv_need_write = b])
  BY DEF Alike, Flags
<1>6. Alike(t, [t EXCEPT !.shutdown_notify_sent = TRUE,
                         !.shutdown_need_write = b, !.shutdown_need_read = c])
  BY DEF Alike, Flags
<1> QED
  BY <1>1, <1>2, <1>3, <1>4, <1>5, <1>6

\* Such an update is quiet.
LEMMA AlikeIsQuiet ==
    ASSUME TlsInv, Alike(tls, tls')
    PROVE  QuietFlags
BY DEF TlsInv, NotifyClosesOutput, Alike, QuietFlags

\* Beginning a shutdown changes these flags only; the peer's notice is set before.
LEMMA ShutdownFlags ==
    ASSUME NEW t \in Flags
    PROVE  /\ Shutdown(t) \in Flags
           /\ Shutdown(t).pending_write = t.pending_write
           /\ Shutdown(t).pending_write_queued = t.pending_write_queued
           /\ Shutdown(t).shutdown_requested
           /\ Shutdown(t).peer_notified_close = t.peer_notified_close
           /\ Shutdown(t).tls_ready = t.tls_ready
BY DEF Shutdown, Flags

\* The peer's notice.
LEMMA NoticeFlags ==
    ASSUME NEW t \in Flags
    PROVE  LET u == [t EXCEPT !.peer_notified_close = TRUE] IN
           /\ u \in Flags
           /\ u.pending_write = t.pending_write
           /\ u.pending_write_queued = t.pending_write_queued
           /\ u.shutdown_requested = t.shutdown_requested
           /\ u.peer_notified_close
           /\ u.tls_ready = t.tls_ready
BY DEF Flags

\* A session that is left alone, gets the peer's alert or breaks is quiet; one that
\* gets ours is when nothing is queued in a shutdown.
LEMMA SessionUpdates ==
    ASSUME TlsInv
    PROVE  /\ ossl' = ossl => QuietSession
           /\ ossl' = [ossl EXCEPT !.broken = TRUE] => QuietSession
           /\ ossl' = [ossl EXCEPT !.peer_notified = TRUE] => QuietSession
           /\ ossl' = [ossl EXCEPT !.notified = TRUE] /\ tls.shutdown_requested /\ queue = <<>>
                 => QuietSession
<1>1. ossl \in Sessions
  BY DEF TlsInv, TypeOK
<1>2. ossl' = ossl => QuietSession
  BY <1>1 DEF QuietSession
<1>3. ossl' = [ossl EXCEPT !.broken = TRUE] => QuietSession
  BY <1>1 DEF QuietSession, Sessions
<1>4. ossl' = [ossl EXCEPT !.peer_notified = TRUE] => QuietSession
  BY <1>1 DEF QuietSession, Sessions
<1>5. ossl' = [ossl EXCEPT !.notified = TRUE] /\ tls.shutdown_requested /\ queue = <<>>
         => QuietSession
  BY <1>1 DEF QuietSession, Sessions
<1> QED
  BY <1>2, <1>3, <1>4, <1>5

\* A step of poll() that changes flags and the session only.
LEMMA StepOnlyQuiet ==
    ASSUME TlsInv, StepOnly, QuietMove, QuietFlags, QuietSession
    PROVE  Quiet
<1>1. UNCHANGED <<connVars, queue, direct, wire, accepted, badRetry>>
  BY DEF StepOnly, histVars
<1>2. due' \in BOOLEAN
  BY DEF StepOnly, TlsInv, TypeOK
<1>3. ops' \in Nat /\ QuietCalls
  BY DEF StepOnly, TlsInv, TypeOK, QuietCalls
<1> QED
  BY <1>1, <1>2, <1>3 DEF Quiet

\* ... and one that changes nothing but the place.
LEMMA MoveOnlyQuiet ==
    ASSUME TlsInv, StepOnly, QuietMove, UNCHANGED <<tls, ossl>>
    PROVE  Quiet
<1>1. tls \in Flags /\ tls' = tls /\ ossl' = ossl
  BY DEF TlsInv, TypeOK
<1>2. Alike(tls, tls')
  BY <1>1, FlagUpdates
<1>3. QuietFlags /\ QuietSession
  BY <1>1, <1>2, AlikeIsQuiet, SessionUpdates
<1> QED
  BY <1>3, StepOnlyQuiet

\* Calls that change deadlines or begin a shutdown are quiet.
LEMMA UserQuiet ==
    ASSUME TlsInv, DeadlinePasses \/ SetHandshakeTimeout \/ BeginGracefulShutdown
    PROVE  Quiet
<1>1. tls \in Flags /\ ops \in Nat /\ call \in [Producers -> Nat]
  BY DEF TlsInv, TypeOK
<1>2. CASE DeadlinePasses \/ SetHandshakeTimeout
  <2>1. /\ UNCHANGED <<connVars, queue, direct, wire, accepted, badRetry, pollVars>>
        /\ tls' = tls /\ ossl' = ossl
    BY <1>2 DEF DeadlinePasses, SetHandshakeTimeout, histVars
  <2>2. due' \in BOOLEAN
    BY <1>2 DEF DeadlinePasses, SetHandshakeTimeout
  <2>3. ops' \in Nat /\ QuietCalls
    BY <1>1, <1>2 DEF DeadlinePasses, SetHandshakeTimeout, QuietCalls
  <2>4. Alike(tls, tls')
    BY <1>1, <2>1, FlagUpdates
  <2>5. QuietFlags /\ QuietSession
    BY <2>1, <2>4, AlikeIsQuiet, SessionUpdates
  <2> QED
    BY <2>1, <2>2, <2>3, <2>5 DEF Quiet, QuietMove
<1>3. CASE BeginGracefulShutdown
  <2>1. /\ UNCHANGED <<connVars, queue, direct, wire, accepted, badRetry, pollVars>>
        /\ tls' = Shutdown(tls) /\ ossl' = ossl /\ ops' = ops
        /\ tls.pending_write # <<>> => tls.pending_write_queued
    BY <1>3 DEF BeginGracefulShutdown, histVars
  <2>2. due' \in BOOLEAN /\ QuietCalls
    BY <1>1, <1>3 DEF BeginGracefulShutdown, QuietCalls
  <2>3. direct = <<>>
    BY <2>1 DEF TlsInv, RecordIsPending
  <2>4. QuietFlags
    BY <1>1, <2>1, <2>3, ShutdownFlags DEF QuietFlags
  <2>5. QuietSession
    BY <2>1, SessionUpdates
  <2> QED
    BY <1>1, <2>1, <2>2, <2>4, <2>5 DEF Quiet, QuietMove
<1> QED
  BY <1>2, <1>3

\* The outcomes of poll_receive, but for where they take poll().
LEMMA ReceiveQuiet ==
    ASSUME TlsInv, ReceivesData \/ ReceivesNotify \/ ReceivesNothing \/ ReceiveFails
    PROVE  due' \in BOOLEAN /\ QuietFlags /\ QuietSession
<1>1. tls \in Flags
  BY DEF TlsInv, TypeOK
<1>2. CASE ReceivesData \/ ReceivesNothing
  <2>1. due' = due /\ ossl' = ossl
    BY <1>2 DEF ReceivesData, ReceivesNothing
  <2>2. \E w \in BOOLEAN : tls' = [tls EXCEPT !.recv_need_write = w]
    BY <1>2 DEF ReceivesData, ReceivesNothing
  <2>3. Alike(tls, tls')
    BY <1>1, <2>2, FlagUpdates
  <2>4. due' \in BOOLEAN
    BY <2>1 DEF TlsInv, TypeOK
  <2> QED
    BY <2>1, <2>3, <2>4, AlikeIsQuiet, SessionUpdates
<1>3. CASE ReceiveFails
  <2>1. due' = due /\ ossl' = [ossl EXCEPT !.broken = TRUE] /\ tls' = [tls EXCEPT !.ssl_failed = TRUE]
    BY <1>3 DEF ReceiveFails
  <2>2. Alike(tls, tls')
    BY <1>1, <2>1, FlagUpdates
  <2>3. due' \in BOOLEAN
    BY <2>1 DEF TlsInv, TypeOK
  <2> QED
    BY <2>1, <2>2, <2>3, AlikeIsQuiet, SessionUpdates
<1>4. CASE ReceivesNotify
  <2>1. ossl' = [ossl EXCEPT !.peer_notified = TRUE]
    BY <1>4 DEF ReceivesNotify
  <2>2. due' \in BOOLEAN
    BY <1>4 DEF ReceivesNotify
  <2>3. PICK u : u = [tls EXCEPT !.peer_notified_close = TRUE]
    OBVIOUS
  <2>4. /\ u \in Flags
        /\ u.pending_write = tls.pending_write
        /\ u.pending_write_queued = tls.pending_write_queued
        /\ u.shutdown_requested = tls.shutdown_requested
        /\ u.peer_notified_close
        /\ u.tls_ready = tls.tls_ready
    BY <1>1, <2>3, NoticeFlags
  <2>5. tls' = IF tls.shutdown_requested THEN u ELSE Shutdown(u)
    BY <1>4, <2>3 DEF ReceivesNotify
  <2>6. QuietFlags
    BY <2>4, <2>5, ShutdownFlags DEF QuietFlags
  <2> QED
    BY <2>1, <2>2, <2>6, SessionUpdates
<1> QED
  BY <1>2, <1>3, <1>4

\* Reading, by poll() and by the caller, is quiet.
LEMMA ReadQuiet ==
    ASSUME TlsInv, Receive \/ ReadDirect \/ NothingToRead
    PROVE  Quiet
<1>1. CASE Receive
  <2>1. /\ UNCHANGED <<connVars, queue, direct, wire, accepted, badRetry>> /\ ops' = ops /\ call' = call
        /\ pc = "read" /\ (Goto("data") \/ Goto("flush") \/ Goto("read_failed"))
        /\ ReceivesData \/ ReceivesNotify \/ ReceivesNothing \/ ReceiveFails
    BY <1>1 DEF Receive, histVars
  <2>2. due' \in BOOLEAN /\ QuietFlags /\ QuietSession
    BY <2>1, ReceiveQuiet
  <2>3. QuietMove
    BY <2>1 DEF QuietMove
  <2>4. ops' \in Nat /\ QuietCalls
    BY <2>1 DEF TlsInv, TypeOK, QuietCalls
  <2> QED
    BY <2>1, <2>2, <2>3, <2>4 DEF Quiet
<1>2. CASE ReadDirect
  <2>1. /\ UNCHANGED <<connVars, queue, direct, wire, accepted, badRetry>> /\ ops' = ops /\ call' = call
        /\ UNCHANGED pollVars
        /\ ReceivesData \/ ReceivesNotify \/ ReceivesNothing \/ ReceiveFails
    BY <1>2 DEF ReadDirect, histVars
  <2>2. due' \in BOOLEAN /\ QuietFlags /\ QuietSession
    BY <2>1, ReceiveQuiet
  <2>3. QuietMove
    BY <2>1 DEF QuietMove
  <2>4. ops' \in Nat /\ QuietCalls
    BY <2>1 DEF TlsInv, TypeOK, QuietCalls
  <2> QED
    BY <2>1, <2>2, <2>3, <2>4 DEF Quiet
<1>3. CASE NothingToRead
  <2>1. QuietMove /\ StepOnly /\ UNCHANGED <<tls, ossl>>
    BY <1>3 DEF NothingToRead, QuietMove
  <2> QED
    BY <2>1, MoveOnlyQuiet
<1> QED
  BY <1>1, <1>2, <1>3

-----------------------------------------------------------------------------
(* Steps that end the connection or replace it                             *)

Gone ==
    /\ OutputGone
    /\ session' = open' /\ open' \in BOOLEAN /\ due' \in BOOLEAN /\ ops' \in Nat
    /\ sockfd' \in Nat /\ call' = call
    /\ \/ ~open' /\ conn' = conn /\ wire' = wire
       \/ conn' = conn + 1
    /\ \/ UserRuns /\ UNCHANGED pollVars
       \/ Goto("idle")

\* Such a step keeps the invariant: a poll in progress no longer finds the
\* connection it watched.
LEMMA GoneStep == TlsInv /\ Gone => TlsInv'
<1> SUFFICES ASSUME TlsInv, Gone PROVE TlsInv'
  OBVIOUS
<1>1. RecordIsPending' /\ StreamOrder' /\ NotifyClosesOutput'
  BY GoneOutput DEF Gone
<1>2. tls' \in Flags /\ ossl' \in Sessions
  BY FreshTypes DEF Gone, OutputGone
<1>3. conn \in Nat /\ seen \in Nat /\ seen <= conn
  BY DEF TlsInv, TypeOK, PollKnows
<1>4. conn' \in Nat
  BY <1>3 DEF Gone
<1>5. tls'.pending_write = <<>>
  BY FreshTypes DEF Gone, OutputGone
<1>6. /\ PollKnows' /\ pc' \in Places
      /\ flags' \subseteq {"IN", "OUT", "HUP", "ERR"}
      /\ watch' \in Nat /\ seen' \in Nat /\ sent' \in Nat
  <2>1. CASE UserRuns /\ UNCHANGED pollVars
    <3>1. /\ pc' = pc /\ watch' = watch /\ seen' = seen /\ sent' = sent /\ flags' = flags
          /\ pc \in {"idle", "failed", "data", "read_failed", "flush_failed"}
      BY <2>1 DEF pollVars, UserRuns
    <3>2. seen' <= conn' /\ ~(open' /\ conn' = seen')
      BY <1>3, <3>1 DEF Gone
    <3>3. PollKnows'
      BY <3>1, <3>2, <1>5 DEF Gone, TlsInv, PollKnows
    <3> QED
      BY <3>1, <3>3 DEF TlsInv, TypeOK, Places
  <2>2. CASE Goto("idle")
    <3>1. /\ pc' = "idle" /\ flags' \subseteq {"IN", "OUT", "HUP", "ERR"}
          /\ watch' \in Nat /\ seen' \in Nat /\ sent' \in Nat
          /\ seen' = 0 \/ seen' = seen
      BY <2>2, GotoTypes DEF TlsInv, Places
    <3>2. seen' <= conn'
      BY <1>3, <1>4, <3>1 DEF Gone
    <3>3. PollKnows'
      BY <1>5, <3>1, <3>2 DEF Gone, PollKnows
    <3> QED
      BY <3>1, <3>3 DEF Places
  <2> QED
    BY <2>1, <2>2 DEF Gone
<1>7. TypeOK'
  <2>0. queue' = <<>> /\ direct' = <<>> /\ (wire' = wire \/ wire' = <<>>) /\ accepted' = accepted
    BY DEF Gone, OutputGone
  <2>1. queue' \in Seq(Nat) /\ direct' \in Seq(Nat) /\ wire' \in Seq(Nat) /\ accepted' \in Nat
    <3>1. <<>> \in Seq(Nat)
      OBVIOUS
    <3>2. wire \in Seq(Nat) /\ accepted \in Nat
      BY DEF TlsInv, TypeOK
    <3> QED
      BY <2>0, <3>1, <3>2
  <2>2. badRetry' \in BOOLEAN
    BY DEF Gone, OutputGone, TlsInv, TypeOK
  <2>3. /\ open' \in BOOLEAN /\ session' \in BOOLEAN /\ due' \in BOOLEAN /\ ops' \in Nat
        /\ sockfd' \in Nat /\ call' \in [Producers -> Nat]
    BY DEF Gone, TlsInv, TypeOK
  <2> QED
    BY <1>2, <1>4, <1>6, <2>1, <2>2, <2>3 DEF TypeOK, Places
<1> QED
  BY <1>1, <1>6, <1>7 DEF TlsInv

\* close(), from user code or from poll().
LEMMA TeardownGone ==
    ASSUME TlsInv, Teardown, (UserRuns /\ UNCHANGED pollVars) \/ Goto("idle")
    PROVE  Gone
<1>1. OutputGone
  BY DEF Teardown, OutputGone, histVars
<1>2. ~open' /\ ~session' /\ session' \in BOOLEAN /\ open' \in BOOLEAN /\ due' \in BOOLEAN
  BY DEF Teardown
<1>3. conn' = conn /\ wire' = wire /\ ops' \in Nat /\ sockfd' \in Nat /\ call' = call
  BY DEF Teardown, histVars
<1> QED
  BY <1>1, <1>2, <1>3 DEF Gone

\* connect() and the accepting constructor.
LEMMA ConnectGone ==
    ASSUME TlsInv, Connect
    PROVE  Gone
<1>1. OutputGone
  BY DEF Connect, OutputGone
<1>2. open' /\ session' /\ session' \in BOOLEAN /\ open' \in BOOLEAN /\ due' \in BOOLEAN
  BY DEF Connect
<1>3. conn' = conn + 1 /\ ops' \in Nat /\ sockfd' \in Nat /\ call' = call
  BY TlsAssumption DEF Connect
<1>4. UserRuns /\ UNCHANGED pollVars
  BY DEF Connect
<1> QED
  BY <1>1, <1>2, <1>3, <1>4 DEF Gone

-----------------------------------------------------------------------------
(* poll_step                                                               *)

\* The handshake, its deadline, and an established session.
LEMMA HandshakeQuiet ==
    ASSUME TlsInv, StepDue \/ HandshakeStep \/ ReadyStep
    PROVE  Quiet
<1>1. tls \in Flags
  BY DEF TlsInv, TypeOK
<1>2. CASE StepDue
  <2>1. QuietMove /\ StepOnly /\ UNCHANGED <<tls, ossl>>
    BY <1>2 DEF StepDue, StepFails, Stepping, QuietMove
  <2> QED
    BY <2>1, MoveOnlyQuiet
<1>3. CASE HandshakeStep
  <2>1. /\ pc = "step" /\ ossl' = ossl /\ (Goto("failed") \/ Goto("idle"))
        /\ UNCHANGED <<connVars, queue, direct, wire, accepted, badRetry>> /\ due' = due
        /\ call' = call /\ (ops' = ops \/ ops' = 0)
    BY <1>3 DEF HandshakeStep, Stepping, StepFails, StepOnly, histVars
  <2>2. \/ tls' = tls
        \/ tls' = [tls EXCEPT !.tls_ready = TRUE, !.need_write = FALSE]
        \/ \E w \in BOOLEAN : tls' = [tls EXCEPT !.need_write = w]
    BY <1>3 DEF HandshakeStep
  <2>3. Alike(tls, tls')
    BY <1>1, <2>2, FlagUpdates
  <2>4. QuietMove
    BY <2>1 DEF QuietMove
  <2>5. due' \in BOOLEAN /\ ops' \in Nat /\ QuietCalls
    BY <2>1 DEF TlsInv, TypeOK, QuietCalls
  <2> QED
    BY <2>1, <2>3, <2>4, <2>5, AlikeIsQuiet, SessionUpdates DEF Quiet
<1>4. CASE ReadyStep
  <2>1. /\ pc = "step" /\ tls.tls_ready /\ ossl' = ossl /\ StepOnly
        /\ Goto("failed") \/ Goto("read")
    BY <1>4 DEF ReadyStep, Stepping, StepFails
  <2>2. tls' = tls \/ tls' = [tls EXCEPT !.ssl_failed = TRUE]
    BY <1>4 DEF ReadyStep
  <2>3. Alike(tls, tls')
    BY <1>1, <2>2, FlagUpdates
  <2>4. QuietMove
    BY <2>1 DEF QuietMove
  <2> QED
    BY <2>1, <2>3, <2>4, AlikeIsQuiet, SessionUpdates, StepOnlyQuiet
<1> QED
  BY <1>2, <1>3, <1>4

\* A shutdown that ends, in either way.
LEMMA ShutdownEnds ==
    ASSUME TlsInv, Shutting, ShutdownFails \/ ShutdownOver
    PROVE  Quiet \/ Gone
<1>1. tls \in Flags /\ pc = "step"
  BY DEF TlsInv, TypeOK, Shutting, Stepping
<1>2. CASE ShutdownOver
  BY <1>2, TeardownGone DEF ShutdownOver
<1>3. CASE tls' = [tls EXCEPT !.ssl_failed = TRUE] /\ StepFails /\ UNCHANGED ossl
  <2>1. Alike(tls, tls')
    BY <1>1, <1>3, FlagUpdates
  <2>2. QuietMove /\ StepOnly
    BY <1>1, <1>3 DEF QuietMove, StepFails
  <2>3. QuietFlags /\ QuietSession
    BY <1>3, <2>1, AlikeIsQuiet, SessionUpdates
  <2> QED
    BY <2>2, <2>3, StepOnlyQuiet
<1> QED
  BY <1>2, <1>3 DEF ShutdownFails

\* The shutdown branch of poll_step.
LEMMA ShutdownStep ==
    ASSUME TlsInv, ShutdownBroken \/ ShutdownFlushes \/ ShutdownPending \/ SslShutdown
    PROVE  Quiet \/ Gone
<1>1. tls \in Flags
  BY DEF TlsInv, TypeOK
<1>2. CASE ShutdownBroken
  BY <1>2, ShutdownEnds DEF ShutdownBroken
<1>3. CASE ShutdownFlushes \/ ShutdownPending
  <2>1. /\ pc = "step" /\ tls.tls_ready /\ StepOnly /\ UNCHANGED <<tls, ossl>>
        /\ Goto("read") \/ Goto("idle")
    BY <1>3 DEF ShutdownFlushes, ShutdownPending, ShutdownReaches, Shutting, Stepping
  <2>2. QuietMove
    BY <2>1 DEF QuietMove
  <2> QED
    BY <2>1, <2>2, MoveOnlyQuiet
<1>4. CASE SslShutdown
  <2>1. Shutting /\ pc = "step" /\ tls.shutdown_requested /\ queue = <<>>
    BY <1>4 DEF SslShutdown, ShutdownReaches, Shutting, Stepping
  <2>2. CASE ShutdownOver \/ ShutdownFails
    BY <2>1, <2>2, ShutdownEnds
  <2>3. CASE \E b, c \in BOOLEAN :
               /\ tls' = [tls EXCEPT !.shutdown_notify_sent = TRUE,
                                     !.shutdown_need_write = b, !.shutdown_need_read = c]
               /\ ossl' = [ossl EXCEPT !.notified = TRUE]
               /\ Goto("idle") /\ StepOnly
    <3>0. PICK b \in BOOLEAN, c \in BOOLEAN :
               tls' = [tls EXCEPT !.shutdown_notify_sent = TRUE,
                                  !.shutdown_need_write = b, !.shutdown_need_read = c]
      BY <2>3
    <3>1. Alike(tls, tls')
      <4>1. Alike(tls, [tls EXCEPT !.shutdown_notify_sent = TRUE,
                                   !.shutdown_need_write = b, !.shutdown_need_read = c])
        BY <1>1, FlagUpdates
      <4> QED
        BY <3>0, <4>1
    <3>2. QuietFlags /\ QuietSession
      BY <2>1, <2>3, <3>1, AlikeIsQuiet, SessionUpdates
    <3>3. QuietMove /\ StepOnly
      BY <2>3 DEF QuietMove
    <3> QED
      BY <3>2, <3>3, StepOnlyQuiet
  <2>4. CASE \E wants \in {"READ", "WRITE"} :
              /\ tls' = [tls EXCEPT !.shutdown_notify_sent = TRUE,
                                    !.shutdown_need_write = (wants = "WRITE"),
                                    !.shutdown_need_read = (wants = "READ")]
              /\ ossl' = [ossl EXCEPT !.notified = TRUE]
              /\ Goto("idle") /\ StepOnly
    <3>1. PICK wants \in {"READ", "WRITE"} :
              /\ tls' = [tls EXCEPT !.shutdown_notify_sent = TRUE,
                                    !.shutdown_need_write = (wants = "WRITE"),
                                    !.shutdown_need_read = (wants = "READ")]
              /\ ossl' = [ossl EXCEPT !.notified = TRUE]
              /\ Goto("idle") /\ StepOnly
      BY <2>4
    <3>2. (wants = "WRITE") \in BOOLEAN /\ (wants = "READ") \in BOOLEAN
      OBVIOUS
    <3> QED
      BY <2>3, <3>1, <3>2
  <2> QED
    BY <1>4, <2>2, <2>3, <2>4 DEF SslShutdown
<1> QED
  BY <1>2, <1>3, <1>4

-----------------------------------------------------------------------------
(* Output                                                                  *)

\* Parts of the type invariant that the steps below use again and again.
LEMMA Types ==
    ASSUME TlsInv
    PROVE  /\ queue \in Seq(Nat) /\ direct \in Seq(Nat) /\ wire \in Seq(Nat)
           /\ accepted \in Nat /\ sent \in Nat /\ Budget \in Nat /\ Budget # 0
           /\ tls \in Flags /\ ossl \in Sessions
           /\ tls.pending_write \in Seq(Nat) /\ ossl.record \in Seq(Nat)
BY TlsAssumption DEF TlsInv, TypeOK, Flags, Sessions

\* queue_write up to the mutex changes nothing but the call, ...
LEMMA QueueTestQuiet ==
    ASSUME TlsInv, NEW p \in Producers, NEW n \in Sizes, QueueWriteTest(p, n)
    PROVE  Quiet
<1>1. /\ UNCHANGED <<connVars, queue, direct, wire, accepted, badRetry, pollVars>>
      /\ tls' = tls /\ ossl' = ossl /\ due' = due /\ ops' = ops
      /\ call' = [call EXCEPT ![p] = n] /\ ~tls.shutdown_requested
  BY DEF QueueWriteTest, histVars
<1>2. QuietCalls
  BY <1>1, TlsAssumption DEF QuietCalls, TlsInv, TypeOK
<1>3. Alike(tls, tls')
  BY <1>1, Types, FlagUpdates
<1>4. due' \in BOOLEAN /\ ops' \in Nat
  BY <1>1 DEF TlsInv, TypeOK
<1> QED
  BY <1>1, <1>2, <1>3, <1>4, AlikeIsQuiet, SessionUpdates DEF Quiet, QuietMove

\* The payload of p is appended.
Appends(p) == QueueWriteLocked(p) /\ queue' = queue \o Bytes(call[p])
                                 /\ accepted' = accepted + call[p]

\* ... and so does a call that finds no room.
LEMMA QueueLockedKinds ==
    ASSUME TlsInv, NEW p \in Producers, QueueWriteLocked(p)
    PROVE  Quiet \/ Appends(p)
<1>1. CASE UNCHANGED <<queue, accepted>>
  <2>1. /\ UNCHANGED <<connVars, queue, direct, wire, accepted, badRetry, pollVars>>
        /\ tls' = tls /\ ossl' = ossl /\ due' = due /\ ops' = ops
        /\ call' = [call EXCEPT ![p] = 0] /\ call[p] # 0
    BY <1>1 DEF QueueWriteLocked, histVars
  <2>2. QuietCalls
    BY <2>1 DEF QuietCalls, TlsInv, TypeOK
  <2>3. Alike(tls, tls')
    BY <2>1, Types, FlagUpdates
  <2>4. due' \in BOOLEAN /\ ops' \in Nat
    BY <2>1 DEF TlsInv, TypeOK
  <2> QED
    BY <2>1, <2>2, <2>3, <2>4, AlikeIsQuiet, SessionUpdates DEF Quiet, QuietMove
<1> QED
  BY <1>1 DEF QueueWriteLocked, Appends

\* A payload that is appended keeps the invariant, whenever the call passed its
\* tests and whatever happened since: it changes no pending record and comes after
\* everything accepted before.
LEMMA QueueWriteStep ==
    ASSUME TlsInv, NEW p \in Producers, Appends(p)
    PROVE  TlsInv'
<1> DEFINE n == call[p]
<1>1. n \in Nat
  BY DEF TlsInv, TypeOK
<1>2. /\ queue' = queue \o Bytes(n) /\ accepted' = accepted + n
      /\ call' = [call EXCEPT ![p] = 0]
      /\ tls' = tls /\ ossl' = ossl /\ direct' = direct /\ wire' = wire /\ badRetry' = badRetry
      /\ pc' = pc /\ watch' = watch /\ seen' = seen /\ sent' = sent /\ flags' = flags
      /\ conn' = conn /\ open' = open /\ sockfd' = sockfd /\ session' = session
      /\ due' = due /\ ops' = ops
  BY DEF Appends, QueueWriteLocked, connVars, pollVars, histVars
<1> HIDE DEF n
<1>3. PICK b : b = Bytes(n)
  OBVIOUS
<1>4. /\ b \in Seq(Nat) /\ Len(b) = n /\ Ascending(b) /\ AtMost(b, accepted + n)
      /\ \A s \in Seq(Nat) : AtMost(s, accepted) => Below(s, b)
  BY <1>1, <1>3, Types, BytesFacts
<1>5. queue' = queue \o b /\ queue' \in Seq(Nat) /\ accepted' \in Nat
  BY <1>1, <1>2, <1>3, <1>4, Types, ConcatFacts
<1>6. TypeOK'
  <2>1. call' \in [Producers -> Nat]
    BY <1>2 DEF TlsInv, TypeOK
  <2> QED
    BY <1>2, <1>5, <2>1 DEF TlsInv, TypeOK
<1>7. PollKnows'
  BY <1>2 DEF TlsInv, PollKnows
<1>8. RecordIsPending'
  <2>1. CASE tls.pending_write_queued
    <3>1. PICK m \in Nat : m = Len(tls.pending_write)
      BY Types
    <3>2. m <= Len(queue) /\ m <= Budget /\ tls.pending_write = Prefix(queue, m)
      BY <2>1, <3>1 DEF TlsInv, RecordIsPending
    <3>3. m <= Len(queue') /\ Prefix(queue', m) = Prefix(queue, m)
      BY <1>4, <1>5, <3>2, Types, PrefixOfConcat
    <3> QED
      BY <1>2, <2>1, <3>1, <3>2, <3>3 DEF TlsInv, RecordIsPending
  <2>2. CASE ~tls.pending_write_queued
    BY <1>2, <2>2 DEF TlsInv, RecordIsPending
  <2> QED
    BY <2>1, <2>2
<1>9. StreamOrder'
  <2>1. /\ Ascending(wire) /\ Ascending(direct) /\ Ascending(queue)
        /\ Below(wire, direct) /\ Below(wire, queue) /\ Below(direct, queue)
        /\ AtMost(wire, accepted) /\ AtMost(direct, accepted) /\ AtMost(queue, accepted)
    BY DEF TlsInv, StreamOrder
  <2>2. Below(wire, b) /\ Below(direct, b) /\ Below(queue, b)
    BY <1>4, <2>1, Types
  <2>3. \A s \in Seq(Nat) : AtMost(s, accepted) => AtMost(s, accepted + n)
    <3> SUFFICES ASSUME NEW s \in Seq(Nat), AtMost(s, accepted), NEW i \in 1..Len(s)
                 PROVE  s[i] <= accepted + n
      BY DEF AtMost
    <3>1. s[i] <= accepted /\ s[i] \in Nat
      BY DEF AtMost
    <3>2. accepted \in Nat
      BY Types
    <3> QED
      BY <1>1, <3>1, <3>2
  <2>4. AtMost(wire, accepted + n) /\ AtMost(direct, accepted + n) /\ AtMost(queue, accepted + n)
    BY <2>1, <2>3, Types
  <2>5. accepted + n \in Nat
    BY <1>1, Types
  <2>6. /\ Ascending(queue \o b) /\ Below(wire, queue \o b) /\ Below(direct, queue \o b)
        /\ AtMost(queue \o b, accepted + n)
    BY <1>4, <2>1, <2>2, <2>4, <2>5, Types, OrderOfConcat
  <2> QED
    BY <1>2, <1>5, <2>1, <2>4, <2>6 DEF StreamOrder
<1>10. NotifyClosesOutput'
  BY <1>2 DEF TlsInv, NotifyClosesOutput
<1> QED
  BY <1>6, <1>7, <1>8, <1>9, <1>10 DEF TlsInv

\* The flags after a write that completed or failed, ...
LEMMA DoneFlags ==
    ASSUME TlsInv, NEW u, u = NoPending \/ u = [NoPending EXCEPT !.ssl_failed = TRUE]
    PROVE  /\ u \in Flags
           /\ u.pending_write = <<>> /\ u.pending_write_queued = FALSE
           /\ u.tls_ready = tls.tls_ready
           /\ u.shutdown_requested = tls.shutdown_requested
           /\ u.peer_notified_close = tls.peer_notified_close
<1>1. tls \in Flags
  BY Types
<1>2. PICK e \in Seq(Nat) : e = <<>>
  BY EmptySeq
<1>3. PICK t : t = NoPending
  OBVIOUS
<1>4. t = [tls EXCEPT !.pending_write = e, !.pending_write_queued = FALSE,
                      !.send_need_read = FALSE]
  BY <1>2, <1>3 DEF NoPending
<1>5. /\ t \in Flags /\ t.pending_write = e /\ t.pending_write_queued = FALSE
      /\ t.tls_ready = tls.tls_ready
      /\ t.shutdown_requested = tls.shutdown_requested
      /\ t.peer_notified_close = tls.peer_notified_close
  BY <1>1, <1>4 DEF Flags
<1>6. CASE u = [t EXCEPT !.ssl_failed = TRUE]
  <2>1. /\ u \in Flags
        /\ u.pending_write = t.pending_write
        /\ u.pending_write_queued = t.pending_write_queued
        /\ u.tls_ready = t.tls_ready
        /\ u.shutdown_requested = t.shutdown_requested
        /\ u.peer_notified_close = t.peer_notified_close
    BY <1>5, <1>6 DEF Flags
  <2> QED
    BY <1>2, <1>5, <2>1
<1> QED
  BY <1>2, <1>3, <1>5, <1>6

\* ... and after one that has to be retried.
LEMMA RetryFlags ==
    ASSUME TlsInv, NEW plain \in Seq(Nat), NEW queued \in BOOLEAN, NEW wants,
           Retry(plain, queued, wants)
    PROVE  /\ tls' \in Flags
           /\ tls'.pending_write = IF tls.pending_write = <<>> THEN plain ELSE tls.pending_write
           /\ tls'.pending_write_queued =
                  IF tls.pending_write = <<>> THEN queued ELSE tls.pending_write_queued
           /\ tls'.tls_ready = tls.tls_ready
           /\ tls'.shutdown_requested = tls.shutdown_requested
           /\ tls'.peer_notified_close = tls.peer_notified_close
<1>1. tls \in Flags
  BY Types
<1>2. PICK r \in BOOLEAN : r = (wants = "READ")
  OBVIOUS
<1>3. PICK p \in Seq(Nat) : p = IF tls.pending_write = <<>> THEN plain ELSE tls.pending_write
  BY Types
<1>4. PICK q \in BOOLEAN : q = IF tls.pending_write = <<>> THEN queued ELSE tls.pending_write_queued
  BY <1>1 DEF Flags
<1>5. tls' = [tls EXCEPT !.send_need_read = r, !.pending_write = p, !.pending_write_queued = q]
  BY <1>1, <1>2, <1>3, <1>4 DEF Retry, Flags
<1>6. /\ tls' \in Flags
      /\ tls'.pending_write = p /\ tls'.pending_write_queued = q
      /\ tls'.tls_ready = tls.tls_ready
      /\ tls'.shutdown_requested = tls.shutdown_requested
      /\ tls'.peer_notified_close = tls.peer_notified_close
  BY <1>1, <1>5 DEF Flags
<1> QED
  BY <1>3, <1>4, <1>6

\* The session after a write that completed, failed or has to be retried.
LEMMA WriteSessions ==
    ASSUME TlsInv, NEW plain \in Seq(Nat)
    PROVE  /\ LET o == [ossl EXCEPT !.record = plain] IN
              o \in Sessions /\ o.record = plain /\ o.notified = ossl.notified
           /\ LET o == [ossl EXCEPT !.record = <<>>] IN
              o \in Sessions /\ o.record = <<>> /\ o.notified = ossl.notified
           /\ LET o == [ossl EXCEPT !.broken = TRUE, !.record = <<>>] IN
              o \in Sessions /\ o.record = <<>> /\ o.notified = ossl.notified
<1>1. ossl \in Sessions
  BY Types
<1>2. PICK e \in Seq(Nat) : e = <<>>
  BY EmptySeq
<1>3. ASSUME NEW o, NEW p \in Seq(Nat), o = [ossl EXCEPT !.record = p]
      PROVE  o \in Sessions /\ o.record = p /\ o.notified = ossl.notified
  BY <1>1, <1>3 DEF Sessions
<1>4. ASSUME NEW o, o = [ossl EXCEPT !.broken = TRUE, !.record = e]
      PROVE  o \in Sessions /\ o.record = e /\ o.notified = ossl.notified
  BY <1>1, <1>4 DEF Sessions
<1> QED
  BY <1>2, <1>3, <1>4

\* flush_queued and send_tls.  The checks of send_tls stop a flush neither for
\* another's record nor for a record of other length or content, and for an
\* unfinished handshake only on a connection that replaced the watched one.  What
\* SSL_write gets is the record it holds, or new.
LEMMA FlushReaches ==
    ASSUME TlsInv, Sending
    PROVE  /\ ~SendBlocked(Offer, TRUE) /\ ~SendMismatch(Offer, TRUE)
           /\ SendRejected(Offer, TRUE) => ~tls.tls_ready /\ conn # seen
           /\ Plaintext(Offer) \in Seq(Nat)
           /\ Len(Plaintext(Offer)) <= Len(queue) /\ Len(Plaintext(Offer)) <= Budget - sent
           /\ Plaintext(Offer) = Prefix(queue, Len(Plaintext(Offer)))
           /\ tls.pending_write # <<>> => Plaintext(Offer) = tls.pending_write
           /\ ~Misuse(Plaintext(Offer))
           /\ direct = <<>>
<1>1. /\ pc = "send" /\ queue # <<>> /\ sent < Budget
      /\ open /\ session
      /\ conn = seen => tls.tls_ready
      /\ tls.pending_write # <<>> => tls.pending_write_queued /\ sent = 0
  BY DEF Sending, TlsInv, PollKnows
<1>2. PICK m \in Nat : m = IF Len(queue) <= Budget - sent THEN Len(queue) ELSE Budget - sent
  BY <1>1, Types
<1>3. m <= Len(queue) /\ m <= Budget - sent /\ Offer = Prefix(queue, m)
  BY <1>1, <1>2, Types DEF Offer
<1>4. Offer \in Seq(Nat) /\ Len(Offer) = m
  BY <1>3, Types, PrefixFacts
<1>5. direct = <<>> /\ ossl.record = tls.pending_write
  BY <1>1 DEF TlsInv, RecordIsPending
<1>6. /\ SendRejected(Offer, TRUE) => ~tls.tls_ready /\ conn # seen
      /\ ~SendBlocked(Offer, TRUE)
  BY <1>1 DEF SendRejected, SendBlocked
<1>7. CASE tls.pending_write = <<>>
  <2>1. Len(tls.pending_write) = 0
    BY <1>7
  <2>2. ~SendMismatch(Offer, TRUE)
    BY <2>1 DEF SendMismatch
  <2>3. Plaintext(Offer) = Offer /\ ~Misuse(Plaintext(Offer))
    BY <1>5, <1>7 DEF Plaintext, Misuse
  <2> QED
    BY <1>3, <1>4, <1>5, <1>6, <1>7, <2>2, <2>3
<1>8. CASE tls.pending_write # <<>>
  <2>1. PICK n \in Nat : n = Len(tls.pending_write)
    BY Types
  <2>2. n <= Len(queue) /\ n <= Budget /\ tls.pending_write = Prefix(queue, n) /\ sent = 0
    BY <1>1, <1>8, <2>1 DEF TlsInv, RecordIsPending
  <2>3. n <= m
    BY <1>2, <2>2, Types
  <2>4. Prefix(Offer, n) = tls.pending_write
    BY <1>3, <2>2, <2>3, Types, PrefixTwice
  <2>5. ~SendMismatch(Offer, TRUE)
    BY <1>4, <2>1, <2>3, <2>4 DEF SendMismatch
  <2>6. Plaintext(Offer) = tls.pending_write
    BY <1>8, <2>1, <2>4 DEF Plaintext
  <2>7. ~Misuse(Plaintext(Offer))
    BY <1>5, <2>6 DEF Misuse
  <2>8. Plaintext(Offer) \in Seq(Nat) /\ Len(Plaintext(Offer)) = n
    BY <2>1, <2>6, Types
  <2>9. n <= Budget - sent
    BY <2>2, Types
  <2> QED
    BY <1>5, <1>6, <2>2, <2>5, <2>6, <2>7, <2>8, <2>9
<1> QED
  BY <1>7, <1>8

\* SSL_write took k bytes of the queue's front.
LEMMA SendTakesStep ==
    ASSUME TlsInv, NEW k \in 1..Budget, SendTakes(k)
    PROVE  TlsInv'
<1>1. /\ Sending /\ k <= Len(Plaintext(Offer)) /\ Written(Plaintext(Offer), k)
      /\ queue' = Suffix(queue, k) /\ sent' = sent + k
      /\ pc' = pc /\ flags' = flags /\ watch' = watch /\ seen' = seen
      /\ conn' = conn /\ open' = open /\ sockfd' = sockfd /\ session' = session
      /\ due' = due /\ call' = call /\ direct' = direct /\ accepted' = accepted /\ ops' = ops
  BY DEF SendTakes, SendOnly, connVars
<1>2. PICK plain \in Seq(Nat) : plain = Plaintext(Offer)
  BY <1>1, FlushReaches
<1>3. /\ Len(plain) <= Len(queue) /\ plain = Prefix(queue, Len(plain))
      /\ ~Misuse(plain) /\ direct = <<>>
  BY <1>1, <1>2, FlushReaches
<1>4. k \in Nat /\ k <= Len(plain) /\ k <= Len(queue) /\ Len(plain) \in Nat
  <2>1. k <= Len(plain) /\ Len(plain) \in Nat
    BY <1>1, <1>2
  <2>2. Len(plain) <= Len(queue) /\ Len(queue) \in Nat
    BY <1>3, Types
  <2>3. k \in Nat
    BY Types
  <2> QED
    BY <2>1, <2>2, <2>3
<1>5. /\ tls' = NoPending /\ ossl' = [ossl EXCEPT !.record = <<>>]
      /\ wire' = wire \o Prefix(plain, k) /\ badRetry' = (badRetry \/ Misuse(plain))
  BY <1>1, <1>2 DEF Written
<1>6. Prefix(plain, k) = Prefix(queue, k)
  BY <1>3, <1>4, Types, PrefixTwice
<1>7. PICK p, q : p = Prefix(queue, k) /\ q = Suffix(queue, k)
  OBVIOUS
<1>8. p \in Seq(Nat) /\ q \in Seq(Nat) /\ wire' = wire \o p /\ queue' = q
  BY <1>1, <1>4, <1>5, <1>6, <1>7, Types, PrefixFacts, SuffixFacts
<1>9. wire' \in Seq(Nat) /\ queue' \in Seq(Nat)
  BY <1>8, Types, ConcatFacts
<1>10. /\ tls' \in Flags /\ tls'.pending_write = <<>> /\ tls'.pending_write_queued = FALSE
       /\ tls'.tls_ready = tls.tls_ready
       /\ tls'.shutdown_requested = tls.shutdown_requested
       /\ tls'.peer_notified_close = tls.peer_notified_close
  BY <1>5, DoneFlags
<1>11. ossl' \in Sessions /\ ossl'.record = <<>> /\ ossl'.notified = ossl.notified
  BY <1>2, <1>5, WriteSessions
<1>12. ~badRetry' /\ badRetry' \in BOOLEAN
  BY <1>3, <1>5 DEF TlsInv, RecordIsPending
<1>13. sent' \in Nat
  <2>1. sent \in Nat /\ sent' = sent + k
    BY <1>1 DEF TlsInv, TypeOK
  <2> QED
    BY <2>1, <1>4
<1>14. TypeOK'
  BY <1>1, <1>9, <1>10, <1>11, <1>12, <1>13 DEF TlsInv, TypeOK
<1>15. PollKnows'
  BY <1>1, <1>10 DEF TlsInv, PollKnows, Sending
<1>16. RecordIsPending'
  BY <1>1, <1>3, <1>10, <1>11, <1>12 DEF RecordIsPending
<1>17. StreamOrder'
  <2>1. /\ Ascending(wire) /\ Ascending(direct) /\ Ascending(queue)
        /\ Below(wire, queue) /\ AtMost(wire, accepted) /\ AtMost(direct, accepted)
        /\ AtMost(queue, accepted)
    BY DEF TlsInv, StreamOrder
  <2>2. /\ Ascending(p) /\ Ascending(q) /\ Below(p, q) /\ Below(wire, p) /\ Below(wire, q)
        /\ AtMost(p, accepted) /\ AtMost(q, accepted)
    BY <1>4, <1>7, <2>1, Types, OrderOfPart
  <2>3. Ascending(wire \o p) /\ Below(wire \o p, q) /\ AtMost(wire \o p, accepted)
    BY <1>8, <2>1, <2>2, Types, OrderOfConcat
  <2>4. \A t : Below(<<>>, t) /\ Below(t, <<>>)
    BY DEF Below
  <2> QED
    BY <1>1, <1>3, <1>8, <2>1, <2>2, <2>3, <2>4 DEF StreamOrder
<1>18. NotifyClosesOutput'
  BY <1>1, <1>3, <1>10, <1>11 DEF TlsInv, NotifyClosesOutput, Sending
<1> QED
  BY <1>14, <1>15, <1>16, <1>17, <1>18 DEF TlsInv

\* SSL_write wants to be repeated: the record is at the front of the queue.
LEMMA SendWantsStep ==
    ASSUME TlsInv, NEW wants \in {"READ", "WRITE"}, SendWants(wants)
    PROVE  TlsInv'
<1>1. /\ Sending /\ Retry(Plaintext(Offer), TRUE, wants) /\ Goto("idle")
      /\ queue' = queue /\ direct' = direct /\ accepted' = accepted /\ ops' = ops
      /\ conn' = conn /\ open' = open /\ sockfd' = sockfd /\ session' = session
      /\ due' = due /\ call' = call /\ tls.tls_ready
  BY DEF SendWants, SendOnly, SendReaches, SendRejected, connVars
<1>2. PICK plain \in Seq(Nat) : plain = Plaintext(Offer)
  BY <1>1, FlushReaches
<1>3. /\ Len(plain) <= Len(queue) /\ Len(plain) <= Budget - sent
      /\ plain = Prefix(queue, Len(plain))
      /\ tls.pending_write # <<>> => plain = tls.pending_write
      /\ ~Misuse(plain) /\ direct = <<>>
  BY <1>1, <1>2, FlushReaches
<1>4. /\ ossl' = [ossl EXCEPT !.record = plain]
      /\ badRetry' = (badRetry \/ Misuse(plain)) /\ wire' = wire
  BY <1>1, <1>2 DEF Retry
<1>5. /\ tls' \in Flags
      /\ tls'.pending_write = IF tls.pending_write = <<>> THEN plain ELSE tls.pending_write
      /\ tls'.pending_write_queued =
            IF tls.pending_write = <<>> THEN TRUE ELSE tls.pending_write_queued
      /\ tls'.tls_ready = tls.tls_ready
      /\ tls'.shutdown_requested = tls.shutdown_requested
      /\ tls'.peer_notified_close = tls.peer_notified_close
  BY <1>1, <1>2, RetryFlags
<1>6. ossl' \in Sessions /\ ossl'.record = plain /\ ossl'.notified = ossl.notified
  BY <1>4, WriteSessions
<1>7. ~badRetry' /\ badRetry' \in BOOLEAN
  BY <1>3, <1>4 DEF TlsInv, RecordIsPending
<1>8. /\ pc' = "idle" /\ flags' \subseteq {"IN", "OUT", "HUP", "ERR"}
      /\ watch' \in Nat /\ seen' \in Nat /\ sent' \in Nat
      /\ seen' = 0 \/ seen' = seen
  BY <1>1, GotoTypes DEF TlsInv, Places
<1>9. tls'.pending_write = plain /\ tls'.pending_write_queued
  BY <1>1, <1>3, <1>5 DEF TlsInv, PollKnows, Sending
<1>10. TypeOK'
  BY <1>1, <1>4, <1>5, <1>6, <1>7, <1>8 DEF TlsInv, TypeOK
<1>11. PollKnows'
  <2>1. seen' <= conn'
    BY <1>1, <1>8 DEF TlsInv, PollKnows, TypeOK
  <2> QED
    BY <1>1, <1>5, <1>8, <2>1 DEF TlsInv, PollKnows
<1>12. RecordIsPending'
  <2>1. Len(plain) <= Budget
    BY <1>3, Types
  <2> QED
    BY <1>1, <1>3, <1>6, <1>7, <1>9, <2>1 DEF RecordIsPending
<1>13. StreamOrder'
  BY <1>1, <1>4 DEF TlsInv, StreamOrder
<1>14. NotifyClosesOutput'
  BY <1>1, <1>3, <1>5, <1>6 DEF TlsInv, NotifyClosesOutput
<1> QED
  BY <1>10, <1>11, <1>12, <1>13, <1>14 DEF TlsInv

\* A fatal error discards the queue.
LEMMA SendFailsStep ==
    ASSUME TlsInv, SendFails
    PROVE  TlsInv'
<1>1. /\ Sending /\ WriteFailed /\ queue' = <<>> /\ Goto("flush_failed")
      /\ direct' = direct /\ accepted' = accepted /\ ops' = ops
      /\ conn' = conn /\ open' = open /\ sockfd' = sockfd /\ session' = session
      /\ due' = due /\ call' = call
  BY DEF SendFails, SendOnly, connVars
<1>2. direct = <<>>
  BY <1>1, FlushReaches
<1>3. /\ tls' = [NoPending EXCEPT !.ssl_failed = TRUE]
      /\ ossl' = [ossl EXCEPT !.broken = TRUE, !.record = <<>>]
      /\ wire' = wire /\ badRetry' = badRetry
  BY <1>1 DEF WriteFailed
<1>4. /\ tls' \in Flags /\ tls'.pending_write = <<>> /\ tls'.pending_write_queued = FALSE
      /\ tls'.shutdown_requested = tls.shutdown_requested
  BY <1>3, DoneFlags
<1>5. ossl' \in Sessions /\ ossl'.record = <<>> /\ ossl'.notified = ossl.notified
  BY <1>3, EmptySeq, WriteSessions
<1>6. /\ pc' = "flush_failed" /\ flags' \subseteq {"IN", "OUT", "HUP", "ERR"}
      /\ watch' \in Nat /\ seen' = seen /\ seen' \in Nat /\ sent' \in Nat
  BY <1>1, GotoTypes DEF TlsInv, Places
<1>7. TypeOK'
  BY <1>1, <1>3, <1>4, <1>5, <1>6, EmptySeq DEF TlsInv, TypeOK
<1>8. PollKnows'
  BY <1>1, <1>4, <1>6 DEF TlsInv, PollKnows
<1>9. RecordIsPending'
  BY <1>1, <1>2, <1>3, <1>4, <1>5 DEF TlsInv, RecordIsPending
<1>10. StreamOrder'
  <2>1. \A t : Ascending(<<>>) /\ Below(t, <<>>) /\ AtMost(<<>>, accepted)
    BY DEF Ascending, Below, AtMost
  <2> QED
    BY <1>1, <1>3, <2>1 DEF TlsInv, StreamOrder
<1>11. NotifyClosesOutput'
  BY <1>1, <1>2, <1>4, <1>5 DEF TlsInv, NotifyClosesOutput
<1> QED
  BY <1>7, <1>8, <1>9, <1>10, <1>11 DEF TlsInv

\* A flush of a connection whose handshake has not ended discards the queue, which
\* holds no record.
LEMMA SendRefusedStep ==
    ASSUME TlsInv, SendRefused
    PROVE  TlsInv'
<1>1. /\ Sending /\ SendRejected(Offer, TRUE) /\ queue' = <<>> /\ Goto("flush_failed")
      /\ tls' = tls /\ ossl' = ossl /\ wire' = wire /\ badRetry' = badRetry
      /\ direct' = direct /\ accepted' = accepted /\ ops' = ops
      /\ conn' = conn /\ open' = open /\ sockfd' = sockfd /\ session' = session
      /\ due' = due /\ call' = call
  BY DEF SendRefused, SendOnly, connVars, histVars
<1>2. direct = <<>> /\ tls.pending_write = <<>>
  BY <1>1, FlushReaches DEF TlsInv, PollKnows
<1>3. /\ pc' = "flush_failed" /\ flags' \subseteq {"IN", "OUT", "HUP", "ERR"}
      /\ watch' \in Nat /\ seen' = seen /\ seen' \in Nat /\ sent' \in Nat
  BY <1>1, GotoTypes DEF TlsInv, Places
<1>4. TypeOK'
  BY <1>1, <1>3, EmptySeq DEF TlsInv, TypeOK
<1>5. PollKnows'
  BY <1>1, <1>3 DEF TlsInv, PollKnows
<1>6. RecordIsPending'
  <2>1. Prefix(<<>>, 0) = <<>> /\ Len(<<>>) = 0
    <3>1. PICK e \in Seq(Nat) : e = <<>> /\ Len(e) = 0
      BY EmptySeq
    <3>2. Prefix(e, Len(e)) = e
      BY PrefixWhole
    <3> QED
      BY <3>1, <3>2
  <2>2. 0 <= Budget
    BY Types
  <2> QED
    BY <1>1, <1>2, <2>1, <2>2 DEF TlsInv, RecordIsPending
<1>7. StreamOrder'
  <2>1. \A t : Ascending(<<>>) /\ Below(t, <<>>) /\ AtMost(<<>>, accepted)
    BY DEF Ascending, Below, AtMost
  <2> QED
    BY <1>1, <2>1 DEF TlsInv, StreamOrder
<1>8. NotifyClosesOutput'
  BY <1>1 DEF TlsInv, NotifyClosesOutput
<1> QED
  BY <1>4, <1>5, <1>6, <1>7, <1>8 DEF TlsInv

\* What a direct write() that reaches SSL_write passes to it: all its data, which
\* is the record it has to repeat, or new data that finds nothing queued.
LEMMA DirectReaches ==
    ASSUME TlsInv, NEW data \in DirectWrites, WriteDirect(data)
    PROVE  /\ data \in Seq(Nat) /\ data # <<>> /\ Plaintext(data) = data /\ ~Misuse(data)
           /\ ~tls.shutdown_requested /\ tls.tls_ready
           /\ tls.pending_write # <<>> => tls.pending_write = data /\ ~tls.pending_write_queued
           /\ accepted' \in Nat /\ accepted <= accepted'
           /\ Ascending(data) /\ Below(wire, data) /\ Below(data, queue) /\ AtMost(data, accepted')
<1>1. /\ data # <<>> /\ ~SendRejected(data, FALSE) /\ ~SendBlocked(data, FALSE)
      /\ ~SendMismatch(data, FALSE)
      /\ accepted' = IF data = direct THEN accepted ELSE accepted + Len(data)
  BY DEF WriteDirect, SendReaches
<1>2. /\ Ascending(wire) /\ Ascending(direct) /\ Below(wire, direct) /\ Below(direct, queue)
      /\ AtMost(wire, accepted) /\ AtMost(direct, accepted)
  BY DEF TlsInv, StreamOrder
<1>3. ossl.record = tls.pending_write
  BY DEF TlsInv, RecordIsPending
<1>4. ~tls.shutdown_requested /\ tls.tls_ready
  BY <1>1 DEF SendRejected
<1>5. data = direct \/ \E n \in Sizes : data = Bytes(n)
  BY DEF DirectWrites
<1>6. data \in Seq(Nat)
  <2>1. \A n \in Sizes : Bytes(n) \in Seq(Nat)
    BY TlsAssumption, Types, BytesFacts
  <2> QED
    BY <1>5, <2>1, Types
<1>7. CASE tls.pending_write # <<>>
  <2>1. ~tls.pending_write_queued
    BY <1>1, <1>7 DEF SendBlocked
  <2>2. direct = tls.pending_write
    BY <2>1 DEF TlsInv, RecordIsPending
  <2>3. PICK n \in Nat : n = Len(tls.pending_write) /\ n # 0
    BY <1>7, Types, EmptySeq
  <2>4. Len(data) = n /\ Prefix(data, n) = tls.pending_write
    BY <1>1, <1>6, <2>3 DEF SendMismatch
  <2>5. data = tls.pending_write
    BY <1>6, <2>4, PrefixWhole
  <2>6. Plaintext(data) = data
    BY <1>7, <2>3, <2>4, <2>5 DEF Plaintext
  <2>7. ~Misuse(data)
    BY <1>3, <2>5 DEF Misuse
  <2>8. accepted' = accepted /\ accepted \in Nat
    BY <1>1, <2>2, <2>5, Types
  <2> QED
    BY <1>1, <1>2, <1>4, <1>6, <2>1, <2>2, <2>5, <2>6, <2>7, <2>8
<1>8. CASE tls.pending_write = <<>>
  <2>1. queue = <<>>
    BY <1>1, <1>8 DEF SendBlocked
  <2>2. direct = <<>>
    BY <1>8 DEF TlsInv, RecordIsPending
  <2>3. PICK n \in Sizes : data = Bytes(n)
    BY <1>1, <1>5, <2>2
  <2>4. n \in Nat
    BY TlsAssumption
  <2>5. /\ Len(data) = n /\ Ascending(data) /\ AtMost(data, accepted + n) /\ Below(wire, data)
    BY <1>2, <2>3, <2>4, Types, BytesFacts
  <2>6. accepted' = accepted + n /\ accepted' \in Nat /\ accepted <= accepted'
    BY <1>1, <2>2, <2>4, <2>5, Types
  <2>7. Below(data, queue)
    BY <2>1 DEF Below
  <2>8. Plaintext(data) = data /\ ~Misuse(data)
    BY <1>3, <1>8 DEF Plaintext, Misuse
  <2> QED
    BY <1>1, <1>4, <1>6, <1>8, <2>5, <2>6, <2>7, <2>8
<1> QED
  BY <1>7, <1>8

\* A direct write() keeps the invariant, whatever SSL_write answers.
LEMMA WriteDirectStep ==
    ASSUME TlsInv, NEW data \in DirectWrites, WriteDirect(data)
    PROVE  TlsInv'
<1>1. /\ data \in Seq(Nat) /\ data # <<>> /\ Plaintext(data) = data /\ ~Misuse(data)
      /\ ~tls.shutdown_requested /\ tls.tls_ready
      /\ tls.pending_write # <<>> => tls.pending_write = data /\ ~tls.pending_write_queued
      /\ accepted' \in Nat /\ accepted <= accepted'
      /\ Ascending(data) /\ Below(wire, data) /\ Below(data, queue) /\ AtMost(data, accepted')
  BY DirectReaches
<1>2. /\ UserRuns
      /\ conn' = conn /\ open' = open /\ sockfd' = sockfd /\ session' = session /\ due' = due
      /\ queue' = queue /\ call' = call /\ ops' = ops
      /\ pc' = pc /\ flags' = flags /\ watch' = watch /\ seen' = seen /\ sent' = sent
  BY DEF WriteDirect, connVars, pollVars
<1>3. /\ Ascending(wire) /\ Ascending(queue) /\ Below(wire, queue)
      /\ AtMost(wire, accepted') /\ AtMost(queue, accepted')
  <2>1. AtMost(wire, accepted) /\ AtMost(queue, accepted)
    BY DEF TlsInv, StreamOrder
  <2>2. ASSUME NEW s \in Seq(Nat), AtMost(s, accepted) PROVE AtMost(s, accepted')
    <3> SUFFICES ASSUME NEW i \in 1..Len(s) PROVE s[i] <= accepted'
      BY DEF AtMost
    <3>1. s[i] <= accepted /\ s[i] \in Nat
      BY <2>2 DEF AtMost
    <3>2. accepted \in Nat /\ accepted' \in Nat /\ accepted <= accepted'
      BY <1>1, Types
    <3> QED
      BY <3>1, <3>2
  <2>3. AtMost(wire, accepted') /\ AtMost(queue, accepted')
    BY <2>1, <2>2, Types
  <2> QED
    BY <2>3 DEF TlsInv, StreamOrder
<1>4. ~ossl.notified /\ ~badRetry
  BY <1>1 DEF TlsInv, NotifyClosesOutput, RecordIsPending
<1>5. \A t : Ascending(<<>>) /\ Below(<<>>, t) /\ Below(t, <<>>) /\ AtMost(<<>>, accepted')
  BY DEF Ascending, Below, AtMost
<1>6. ASSUME tls' \in Flags, ossl' \in Sessions, ~badRetry', badRetry' \in BOOLEAN,
             wire' \in Seq(Nat), direct' \in Seq(Nat),
             ossl'.notified = ossl.notified, tls'.tls_ready = tls.tls_ready,
             tls'.shutdown_requested = tls.shutdown_requested,
             ossl'.record = direct', tls'.pending_write = direct', ~tls'.pending_write_queued,
             Ascending(wire'), Ascending(direct'), Below(wire', direct'), Below(wire', queue),
             Below(direct', queue), AtMost(wire', accepted'), AtMost(direct', accepted')
      PROVE  TlsInv'
  <2>1. TypeOK'
    BY <1>1, <1>2, <1>6 DEF TlsInv, TypeOK
  <2>2. PollKnows'
    BY <1>1, <1>2, <1>6 DEF TlsInv, PollKnows, UserRuns
  <2>3. RecordIsPending'
    BY <1>6 DEF RecordIsPending
  <2>4. StreamOrder'
    BY <1>2, <1>3, <1>6 DEF StreamOrder
  <2>5. NotifyClosesOutput'
    BY <1>1, <1>4, <1>6 DEF NotifyClosesOutput
  <2> QED
    BY <2>1, <2>2, <2>3, <2>4, <2>5 DEF TlsInv
<1>7. CASE \E k \in 1..Len(data) : Written(data, k) /\ direct' = <<>>
  <2>1. PICK k \in 1..Len(data) : Written(data, k) /\ direct' = <<>>
    BY <1>7
  <2>2. /\ tls' = NoPending /\ ossl' = [ossl EXCEPT !.record = <<>>]
        /\ wire' = wire \o Prefix(data, k) /\ badRetry' = (badRetry \/ Misuse(data))
    BY <2>1 DEF Written
  <2>3. k \in Nat /\ k <= Len(data)
    BY <1>1
  <2>4. PICK p : p = Prefix(data, k)
    OBVIOUS
  <2>5. p \in Seq(Nat) /\ Ascending(p) /\ Below(wire, p) /\ Below(p, queue) /\ AtMost(p, accepted')
    BY <1>1, <2>3, <2>4, Types, PrefixFacts, OrderOfPart
  <2>6. /\ wire' \in Seq(Nat) /\ Ascending(wire') /\ Below(wire', queue)
        /\ AtMost(wire', accepted')
    BY <1>1, <1>3, <2>2, <2>4, <2>5, Types, ConcatFacts, OrderOfConcat
  <2>7. /\ tls' \in Flags /\ tls'.pending_write = <<>> /\ tls'.pending_write_queued = FALSE
        /\ tls'.tls_ready = tls.tls_ready
        /\ tls'.shutdown_requested = tls.shutdown_requested
    BY <2>2, DoneFlags
  <2>8. ossl' \in Sessions /\ ossl'.record = <<>> /\ ossl'.notified = ossl.notified
    BY <1>1, <2>2, WriteSessions
  <2>9. ~badRetry' /\ badRetry' \in BOOLEAN
    BY <1>1, <1>4, <2>2
  <2> QED
    BY <1>5, <1>6, <2>1, <2>6, <2>7, <2>8, <2>9, EmptySeq
<1>8. CASE \E wants \in {"READ", "WRITE"} : Retry(data, FALSE, wants) /\ direct' = data
  <2>1. PICK wants \in {"READ", "WRITE"} : Retry(data, FALSE, wants) /\ direct' = data
    BY <1>8
  <2>2. /\ ossl' = [ossl EXCEPT !.record = data]
        /\ badRetry' = (badRetry \/ Misuse(data)) /\ wire' = wire
    BY <2>1 DEF Retry
  <2>3. /\ tls' \in Flags
        /\ tls'.pending_write = IF tls.pending_write = <<>> THEN data ELSE tls.pending_write
        /\ tls'.pending_write_queued =
              IF tls.pending_write = <<>> THEN FALSE ELSE tls.pending_write_queued
        /\ tls'.tls_ready = tls.tls_ready
        /\ tls'.shutdown_requested = tls.shutdown_requested
    BY <1>1, <2>1, RetryFlags
  <2>4. ossl' \in Sessions /\ ossl'.record = data /\ ossl'.notified = ossl.notified
    BY <1>1, <2>2, WriteSessions
  <2>5. ~badRetry' /\ badRetry' \in BOOLEAN
    BY <1>1, <1>4, <2>2
  <2>6. tls'.pending_write = data /\ ~tls'.pending_write_queued
    BY <1>1, <2>3
  <2> QED
    BY <1>1, <1>3, <1>6, <2>1, <2>2, <2>3, <2>4, <2>5, <2>6, Types
<1>9. CASE WriteFailed /\ direct' = <<>>
  <2>1. /\ tls' = [NoPending EXCEPT !.ssl_failed = TRUE]
        /\ ossl' = [ossl EXCEPT !.broken = TRUE, !.record = <<>>]
        /\ wire' = wire /\ badRetry' = badRetry
    BY <1>9 DEF WriteFailed
  <2>2. /\ tls' \in Flags /\ tls'.pending_write = <<>> /\ tls'.pending_write_queued = FALSE
        /\ tls'.tls_ready = tls.tls_ready
        /\ tls'.shutdown_requested = tls.shutdown_requested
    BY <2>1, DoneFlags
  <2>3. ossl' \in Sessions /\ ossl'.record = <<>> /\ ossl'.notified = ossl.notified
    BY <1>1, <2>1, WriteSessions
  <2>4. ~badRetry' /\ badRetry' \in BOOLEAN
    BY <1>4, <2>1 DEF TlsInv, TypeOK
  <2> QED
    BY <1>3, <1>5, <1>6, <1>9, <2>1, <2>2, <2>3, <2>4, EmptySeq, Types
<1> QED
  BY <1>1, <1>7, <1>8, <1>9 DEF WriteDirect

-----------------------------------------------------------------------------
(* The next-state relation                                                 *)

\* poll() begins, or goes on to flush: only its own variables change.
Advances == PollAny \/ (Flush /\ pc' = "send")

\* A poll begins with the connection it watches, and a flush begins with its whole
\* budget on a connection that still has the watched number, with no record of a
\* direct write in OpenSSL.
LEMMA AdvancesStep == TlsInv /\ Advances => TlsInv'
<1> SUFFICES ASSUME TlsInv, Advances PROVE TlsInv'
  OBVIOUS
<1>1. /\ conn' = conn /\ open' = open /\ sockfd' = sockfd /\ session' = session
      /\ tls' = tls /\ due' = due /\ call' = call /\ queue' = queue /\ ossl' = ossl /\ direct' = direct /\ accepted' = accepted
      /\ ops' = ops /\ wire' = wire /\ badRetry' = badRetry
  <2>1. CASE PollAny
    BY <2>1 DEF PollAny, Poll, connVars, histVars
  <2>2. CASE Flush
    BY <2>2 DEF Flush, StepOnly, connVars, histVars
  <2> QED
    BY <2>1, <2>2 DEF Advances
<1>2. /\ PollKnows' /\ pc' \in Places
      /\ flags' \subseteq {"IN", "OUT", "HUP", "ERR"}
      /\ watch' \in Nat /\ seen' \in Nat /\ sent' \in Nat
  <2>1. CASE PollAny
    <3>1. PICK f \in SUBSET {"IN", "OUT", "HUP", "ERR"} :
             /\ open /\ pc' = "step" /\ flags' = f
             /\ watch' = sockfd /\ seen' = conn /\ sent' = 0
      BY <2>1 DEF PollAny, Poll
    <3>2. conn \in Nat /\ sockfd \in Nat /\ session = open
      BY DEF TlsInv, TypeOK, PollKnows
    <3>3. PollKnows'
      BY <1>1, <3>1, <3>2 DEF TlsInv, PollKnows
    <3> QED
      BY <3>1, <3>2, <3>3 DEF Places
  <2>2. CASE Flush /\ pc' = "send"
    <3>1. /\ pc = "flush" /\ open /\ PollQueueReady /\ Goto("send")
      BY <2>2 DEF Flush, Goto
    <3>2. /\ pc' = "send" /\ flags' \subseteq {"IN", "OUT", "HUP", "ERR"}
          /\ watch' \in Nat /\ seen' = seen /\ seen' \in Nat /\ sent' = 0 /\ sent' \in Nat
      BY <3>1, GotoTypes DEF TlsInv, Places
    <3>3. PollKnows'
      BY <1>1, <3>1, <3>2 DEF TlsInv, PollKnows, PollQueueReady
    <3> QED
      BY <3>2, <3>3 DEF Places
  <2> QED
    BY <2>1, <2>2 DEF Advances
<1>3. TypeOK'
  BY <1>1, <1>2 DEF TlsInv, TypeOK, Places
<1>4. RecordIsPending' /\ StreamOrder'
  BY <1>1, KeptOutput DEF OutputKept
<1>5. NotifyClosesOutput'
  BY <1>1 DEF TlsInv, NotifyClosesOutput
<1> QED
  BY <1>2, <1>3, <1>4, <1>5 DEF TlsInv

\* What is left of poll(): the end of a flush, and what follows a callback.
LEMMA RestOfPoll ==
    ASSUME TlsInv, Flush \/ SendDone \/ AfterCallbacks
    PROVE  Quiet \/ Gone \/ Advances
<1>1. CASE Flush
  <2>1. StepOnly /\ UNCHANGED <<tls, ossl>> /\ (Goto("send") \/ Goto("idle"))
    BY <1>1 DEF Flush
  <2>2. CASE Goto("send")
    BY <1>1, <2>2 DEF Advances, Goto
  <2>3. CASE Goto("idle")
    BY <2>1, <2>3, MoveOnlyQuiet DEF QuietMove
  <2> QED
    BY <2>1, <2>2, <2>3
<1>2. CASE SendDone
  <2>1. StepOnly /\ UNCHANGED <<tls, ossl>> /\ QuietMove
    BY <1>2 DEF SendDone, QuietMove
  <2> QED
    BY <2>1, MoveOnlyQuiet
<1>3. CASE AfterCallbacks
  <2>1. CASE pc = "data" /\ Goto("flush") /\ StepOnly /\ UNCHANGED <<tls, ossl>>
    BY <2>1, MoveOnlyQuiet DEF QuietMove
  <2>2. CASE Goto("idle") /\ Teardown
    BY <2>2, TeardownGone
  <2>3. CASE Goto("idle") /\ StepOnly /\ UNCHANGED <<tls, ossl>>
    BY <2>3, MoveOnlyQuiet DEF QuietMove
  <2> QED
    BY <1>3, <2>1, <2>2, <2>3 DEF AfterCallbacks
<1> QED
  BY <1>1, <1>2, <1>3

\* Every step, by what it does to output.
LEMMA StepKinds ==
    ASSUME TlsInv, [Next]_vars
    PROVE  \/ Quiet \/ Gone \/ Advances
           \/ \E p \in Producers : Appends(p)
           \/ \E data \in DirectWrites : WriteDirect(data)
           \/ \E k \in 1..Budget : SendTakes(k)
           \/ \E wants \in {"READ", "WRITE"} : SendWants(wants)
           \/ SendFails \/ SendRefused
<1>1. CASE UNCHANGED vars
  <2>1. StepOnly /\ UNCHANGED <<tls, ossl>> /\ QuietMove
    BY <1>1 DEF vars, StepOnly, QuietMove
  <2> QED
    BY <2>1, MoveOnlyQuiet
<1>2. CASE Close
  BY <1>2, TeardownGone DEF Close
<1>3. CASE Connect
  BY <1>3, ConnectGone
<1>4. CASE ReadDirect \/ Receive \/ NothingToRead
  BY <1>4, ReadQuiet
<1>5. CASE DeadlinePasses \/ SetHandshakeTimeout \/ BeginGracefulShutdown
  BY <1>5, UserQuiet
<1>6. CASE StepDue \/ HandshakeStep \/ ReadyStep
  BY <1>6, HandshakeQuiet
<1>7. CASE ShutdownBroken \/ ShutdownFlushes \/ ShutdownPending \/ SslShutdown
  BY <1>7, ShutdownStep
<1>8. CASE Flush \/ SendDone \/ AfterCallbacks
  BY <1>8, RestOfPoll
<1>9. CASE PollAny
  BY <1>9 DEF Advances
<1>10. CASE Producing
  BY <1>10, QueueTestQuiet, QueueLockedKinds DEF Producing
<1> QED
  BY <1>1, <1>2, <1>3, <1>4, <1>5, <1>6, <1>7, <1>8, <1>9, <1>10 DEF Next, UserStep, PollStep

\* The invariant is inductive.
LEMMA TlsStep == TlsInv /\ [Next]_vars => TlsInv'
<1> SUFFICES ASSUME TlsInv, [Next]_vars PROVE TlsInv'
  OBVIOUS
<1>1. CASE Quiet \/ Gone \/ Advances
  BY <1>1, QuietStep, GoneStep, AdvancesStep
<1>2. CASE \E p \in Producers : Appends(p)
  BY <1>2, QueueWriteStep
<1>3. CASE \E data \in DirectWrites : WriteDirect(data)
  BY <1>3, WriteDirectStep
<1>4. CASE \E k \in 1..Budget : SendTakes(k)
  BY <1>4, SendTakesStep
<1>5. CASE \E wants \in {"READ", "WRITE"} : SendWants(wants)
  BY <1>5, SendWantsStep
<1>6. CASE SendFails
  BY <1>6, SendFailsStep
<1>7. CASE SendRefused
  BY <1>7, SendRefusedStep
<1> QED
  BY <1>1, <1>2, <1>3, <1>4, <1>5, <1>6, <1>7, StepKinds

\* The invariant of every behaviour.
LEMMA TlsAlways == Spec => []TlsInv
BY TlsInit, TlsStep, PTL DEF Spec

-----------------------------------------------------------------------------
(* Theorems                                                                *)

\* OpenSSL gets the same plaintext on every retry of a record, and no early return
\* of send_tls stops a flush of the connection that poll() found ready: for every
\* payload size and every budget, whatever is queued, closed or reconnected in
\* between, also under the same descriptor number.
THEOREM RetryTheorem == Spec => []RetrySame
<1>1. TlsInv => RetrySame
  BY FlushReaches DEF TlsInv, RetrySame, RecordIsPending
<1> QED
  BY <1>1, TlsAlways, PTL

\* The peer reads bytes in the order in which they were accepted, by queue_write and
\* by direct writes.
THEOREM OvertakeTheorem == Spec => []DirectDoesNotOvertake
<1>1. TlsInv => DirectDoesNotOvertake
  <2> SUFFICES ASSUME TlsInv, NEW i \in 1..(Len(wire) - 1) PROVE wire[i] < wire[i + 1]
    BY DEF DirectDoesNotOvertake
  <2>1. PICK m \in Nat : m = Len(wire)
    BY Types
  <2>2. i \in 1..m /\ i + 1 \in 1..m /\ i < i + 1
    BY <2>1
  <2>3. Ascending(wire)
    BY DEF TlsInv, StreamOrder
  <2> QED
    BY <2>1, <2>2, <2>3 DEF Ascending
<1> QED
  BY <1>1, TlsAlways, PTL

\* The session after a step that calls SSL_write: no alert is sent, and none was
\* if anything was written.
LEMMA WriteKeepsNotified ==
    ASSUME TlsInv, NEW plain \in Seq(Nat), NEW queued,
           \/ \E k \in Nat : Written(plain, k)
           \/ \E wants \in {"READ", "WRITE"} : Retry(plain, queued, wants)
           \/ WriteFailed
    PROVE  ossl'.notified = ossl.notified /\ (ossl.notified => wire' = wire)
<1>1. CASE \E k \in Nat : Written(plain, k)
  <2>1. ossl' = [ossl EXCEPT !.record = <<>>] /\ ~ossl.notified
    BY <1>1 DEF Written
  <2> QED
    BY <2>1, WriteSessions
<1>2. CASE \E wants \in {"READ", "WRITE"} : Retry(plain, queued, wants)
  <2>1. ossl' = [ossl EXCEPT !.record = plain] /\ ~ossl.notified
    BY <1>2 DEF Retry
  <2> QED
    BY <2>1, WriteSessions
<1>3. CASE WriteFailed
  <2>1. ossl' = [ossl EXCEPT !.broken = TRUE, !.record = <<>>] /\ wire' = wire
    BY <1>3 DEF WriteFailed
  <2> QED
    BY <2>1, WriteSessions
<1> QED
  BY <1>1, <1>2, <1>3

\* The alert goes out with nothing queued and cuts no record of queued output in
\* two, nothing is written after it, and a shutdown accepts nothing once the
\* calls that had passed their tests are over.
LEMMA NotifyStep ==
    ASSUME TlsInv, [Next]_vars
    PROVE  /\ (~ossl.notified /\ ossl'.notified) =>
                  /\ queue = <<>>
                  /\ ossl.record # <<>> => direct = ossl.record /\ tls.peer_notified_close
           /\ ossl.notified /\ conn' = conn => wire' = wire
           /\ (/\ tls.shutdown_requested /\ tls'.shutdown_requested
               /\ \A p \in Producers : call[p] = 0) => UNCHANGED <<accepted, call>>
<1>1. CASE Quiet
  <2>1. wire' = wire /\ accepted' = accepted
    BY <1>1 DEF Quiet
  <2>2. ASSUME ~ossl.notified, ossl'.notified PROVE queue = <<>> /\ tls.shutdown_requested
    BY <1>1, <2>2 DEF Quiet, QuietSession
  <2>3. ASSUME ~ossl.notified, ossl'.notified, ossl.record # <<>>
        PROVE  direct = ossl.record /\ tls.peer_notified_close
    <3>1. tls.shutdown_requested /\ queue = <<>>
      BY <2>2, <2>3
    <3>2. ossl.record = tls.pending_write /\ Len(tls.pending_write) # 0 /\ Len(queue) = 0
      BY <2>3, <3>1, Types, EmptySeq DEF TlsInv, RecordIsPending
    <3>3. ~tls.pending_write_queued
      BY <3>2, Types DEF TlsInv, RecordIsPending
    <3>4. direct = ossl.record
      BY <3>3 DEF TlsInv, RecordIsPending
    <3> QED
      BY <2>3, <3>1, <3>4 DEF TlsInv, NotifyClosesOutput
  <2>4. tls.shutdown_requested /\ (\A p \in Producers : call[p] = 0) => call' = call
    BY <1>1 DEF Quiet, QuietCalls
  <2> QED
    BY <2>1, <2>2, <2>3, <2>4
<1>2. CASE Gone
  <2>1. ~ossl'.notified
    BY <1>2, FreshTypes DEF Gone, OutputGone
  <2>2. conn' = conn => wire' = wire
    BY <1>2 DEF Gone, TlsInv, TypeOK
  <2>3. accepted' = accepted /\ call' = call
    BY <1>2 DEF Gone, OutputGone
  <2> QED
    BY <2>1, <2>2, <2>3
<1>3. CASE Advances
  <2>1. wire' = wire /\ ossl' = ossl /\ accepted' = accepted /\ call' = call
    BY <1>3 DEF Advances, PollAny, Poll, Flush, StepOnly, histVars
  <2> QED
    BY <2>1
<1>4. CASE \E p \in Producers : Appends(p)
  <2>1. wire' = wire /\ ossl' = ossl /\ \E p \in Producers : call[p] # 0
    BY <1>4 DEF Appends, QueueWriteLocked, histVars
  <2> QED
    BY <2>1
<1>5. CASE \E data \in DirectWrites : WriteDirect(data)
  <2>1. PICK data \in DirectWrites : WriteDirect(data)
    BY <1>5
  <2>2. data \in Seq(Nat) /\ Plaintext(data) = data /\ ~tls.shutdown_requested
    BY <2>1, DirectReaches
  <2>3. \/ \E k \in Nat : Written(data, k)
        \/ \E wants \in {"READ", "WRITE"} : Retry(data, FALSE, wants)
        \/ WriteFailed
    <3>1. 1..Len(data) \subseteq Nat
      OBVIOUS
    <3>2. \/ \E k \in 1..Len(data) : Written(data, k)
          \/ \E wants \in {"READ", "WRITE"} : Retry(data, FALSE, wants)
          \/ WriteFailed
      BY <2>1, <2>2 DEF WriteDirect
    <3> QED
      BY <3>1, <3>2, Zenon
  <2>4. ossl'.notified = ossl.notified /\ (ossl.notified => wire' = wire)
    BY <2>2, <2>3, WriteKeepsNotified
  <2> QED
    BY <2>2, <2>4
<1>6. CASE \/ \E k \in 1..Budget : SendTakes(k)
           \/ \E wants \in {"READ", "WRITE"} : SendWants(wants)
           \/ SendFails
  <2>1. Sending /\ accepted' = accepted /\ call' = call
    BY <1>6 DEF SendTakes, SendWants, SendFails, SendOnly
  <2>2. PICK plain \in Seq(Nat) : plain = Plaintext(Offer)
    BY <2>1, FlushReaches
  <2>3. \/ \E k \in Nat : Written(plain, k)
        \/ \E wants \in {"READ", "WRITE"} : Retry(plain, TRUE, wants)
        \/ WriteFailed
    <3>1. 1..Budget \subseteq Nat
      BY Types
    <3>2. \/ \E k \in 1..Budget : Written(plain, k)
          \/ \E wants \in {"READ", "WRITE"} : Retry(plain, TRUE, wants)
          \/ WriteFailed
      BY <1>6, <2>2 DEF SendTakes, SendWants, SendFails
    <3> QED
      BY <3>1, <3>2, Zenon
  <2>4. ossl'.notified = ossl.notified /\ (ossl.notified => wire' = wire)
    BY <2>2, <2>3, WriteKeepsNotified
  <2> QED
    BY <2>1, <2>4
<1>7. CASE SendRefused
  <2>1. wire' = wire /\ ossl' = ossl /\ accepted' = accepted /\ call' = call
    BY <1>7 DEF SendRefused, SendOnly, histVars
  <2> QED
    BY <2>1
<1> QED
  BY <1>1, <1>2, <1>3, <1>4, <1>5, <1>6, <1>7, StepKinds

\* Our close_notify comes last, whichever side began the shutdown and whatever a
\* producer appends after it.
THEOREM NotifyTheorem == Spec => NotifyIsLast
BY NotifyStep, TlsAlways, PTL DEF Spec, NotifyIsLast
=============================================================================
