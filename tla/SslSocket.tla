------------------------------ MODULE SslSocket ------------------------------
(***************************************************************************)
(* A blocking TLS socket: an ssl_client_socket, or the peer that           *)
(* ssl_server_socket::accept makes (src/ssl_socket.cpp,                    *)
(* src/ssl_client_socket.cpp, src/ssl_server_socket.cpp).  The SSL object  *)
(* and the descriptor are made, verified and released on many paths.       *)
(*                                                                         *)
(* OpenSSL and the remote end are external: a blocking SSL_connect or      *)
(* SSL_accept waits while the remote end is silent.  No socket timeout is  *)
(* set on the descriptor: the timeouts of aeon::socket are fields that     *)
(* only its own read() and write() use.                                    *)
(***************************************************************************)
EXTENDS Integers

CONSTANTS
    MaxFds,         \* bound: descriptors made
    MaxSettings     \* bound: calls of setters

\* A client's constructor makes one descriptor.
ASSUME SslAssumption == MaxFds \in Nat \ {0} /\ MaxSettings \in Nat

VARIABLES
    server,                         \* a peer made by accept(), or a client; never changes
    fd, net_family, connected, error_code,
    ssl,                            \* the SSL object, or NoSsl
    verify_mode, allow_self_signed, \* settings for the next connection
    phase,                          \* "idle", "connecting", "handshake"
    last,                           \* what the last connect() or accept() returned
    remote,                         \* external: "silent", "speaks", "gone"
    openFds, fds, changes           \* external: open descriptors; counters

settings == <<verify_mode, allow_self_signed>>
sslVars == <<server, fd, net_family, connected, error_code, ssl, settings, phase, last,
             remote, openFds, fds, changes>>

Families == {"other", "inet", "inet6"}
Certificates == {"good", "self_signed", "bad"}
SslObjects == [fd : 0..MaxFds, strict : BOOLEAN, self : BOOLEAN, finished : BOOLEAN,
               cert : Certificates]
NoSsl == [fd |-> 0, strict |-> FALSE, self |-> FALSE, finished |-> FALSE, cert |-> "bad"]
NewSsl == [fd |-> fd, strict |-> ~server /\ verify_mode = "strict",
           self |-> allow_self_signed, finished |-> FALSE, cert |-> "bad"]

\* What OpenSSL makes of the peer's certificate with verify_self_signed_leaf.
Acceptable(s, cert) == cert = "good" \/ (s.self /\ cert = "self_signed")

-----------------------------------------------------------------------------
\* The remote end speaks TLS, or closes the connection.
RemoteActs(how) ==
    /\ fd # 0 /\ remote = "silent"
    /\ remote' = how
    /\ UNCHANGED <<server, fd, net_family, connected, error_code, ssl, settings, phase, last,
                   openFds, fds, changes>>

\* close(): the SSL object is freed, then the descriptor closed.
Release ==
    /\ ssl' = NoSsl
    /\ fd' = 0 /\ connected' = FALSE /\ remote' = "silent"
    /\ openFds' = openFds \ {fd}

SslClose ==
    /\ phase = "idle" /\ fd # 0
    /\ Release
    /\ last' = "none"
    /\ UNCHANGED <<server, net_family, error_code, settings, phase, fds, changes>>

SetVerification(mode) ==
    /\ phase = "idle" /\ changes < MaxSettings
    /\ verify_mode' = mode
    /\ changes' = changes + 1
    /\ UNCHANGED <<server, fd, net_family, connected, error_code, ssl, allow_self_signed,
                   phase, last, remote, openFds, fds>>

SetAllowSelfSigned(allow) ==
    /\ phase = "idle" /\ changes < MaxSettings
    /\ allow_self_signed' = allow
    /\ changes' = changes + 1
    /\ UNCHANGED <<server, fd, net_family, connected, error_code, ssl, verify_mode,
                   phase, last, remote, openFds, fds>>

\* write(), read() and the loops over them fail once the connection is gone; a
\* failure changes the error code only.
IoFails ==
    /\ phase = "idle" /\ changes < MaxSettings
    /\ ssl = NoSsl \/ ~connected \/ remote = "gone"
    /\ error_code' = IF ssl = NoSsl \/ ~connected THEN "no_socket" ELSE "io"
    /\ changes' = changes + 1
    /\ UNCHANGED <<server, fd, net_family, connected, ssl, settings, phase, last, remote,
                   openFds, fds>>

-----------------------------------------------------------------------------
(* ssl_client_socket::connect.                                             *)

\* Arguments are refused or the name has no address: nothing is touched.
ConnectRefused ==
    /\ phase = "idle" /\ ~server /\ changes < MaxSettings
    /\ error_code' = "no_host" /\ last' = "refused"
    /\ changes' = changes + 1
    /\ UNCHANGED <<server, fd, net_family, connected, ssl, settings, phase, remote, openFds, fds>>

\* The descriptor may be used for a connection to an address of family f.  The
\* constructor's never is: it passes the socket type in place of the family.
Reusable(f) == fd # 0 /\ ssl = NoSsl /\ ~connected /\ net_family = f

\* connect_to before connect(): what cannot be reused is closed.
ConnectStart(f) ==
    /\ phase = "idle" /\ ~server
    /\ IF Reusable(f)
       THEN /\ phase' = "connecting"
            /\ last' = "none"
            /\ UNCHANGED <<fd, net_family, connected, error_code, ssl, remote, openFds, fds>>
       ELSE /\ ssl' = NoSsl /\ connected' = FALSE /\ remote' = "silent"
            /\ \/ /\ fds < MaxFds /\ fds' = fds + 1
                  /\ fd' = fds + 1 /\ openFds' = (openFds \ {fd}) \cup {fds + 1}
                  /\ net_family' = f /\ phase' = "connecting" /\ last' = "none"
                  /\ UNCHANGED error_code
               \/ /\ fd' = 0 /\ openFds' = openFds \ {fd}
                  /\ error_code' = "no_socket" /\ last' = "failed"
                  /\ UNCHANGED <<net_family, phase, fds>>
    /\ UNCHANGED <<server, settings, changes>>

ConnectFails ==
    /\ phase = "connecting"
    /\ Release
    /\ error_code' = "native" /\ last' = "failed" /\ phase' = "idle"
    /\ UNCHANGED <<server, net_family, settings, fds, changes>>

\* connect() succeeds and setup_ssl makes an SSL object for the descriptor ...
SetupDone ==
    /\ phase = "connecting"
    /\ connected' = TRUE /\ ssl' = NewSsl
    /\ phase' = "handshake"
    /\ UNCHANGED <<server, fd, net_family, error_code, settings, last, remote,
                   openFds, fds, changes>>

\* ... or fails, at any of its steps, and all is closed.
SetupFails ==
    /\ phase = "connecting"
    /\ Release
    /\ error_code' \in {"init", "cert", "key"} /\ last' = "failed" /\ phase' = "idle"
    /\ UNCHANGED <<server, net_family, settings, fds, changes>>

-----------------------------------------------------------------------------
(* The handshake, of a client or in ssl_server_socket::accept.             *)

\* tcp_accept gave a descriptor: create_accepted_socket makes the peer and
\* calls SSL_accept.
Accept ==
    /\ phase = "idle" /\ server /\ fd = 0 /\ fds < MaxFds
    /\ fds' = fds + 1 /\ fd' = fds + 1 /\ openFds' = openFds \cup {fds + 1}
    /\ connected' = TRUE /\ net_family' \in {"inet", "inet6"}
    /\ ssl' = [NewSsl EXCEPT !.fd = fds + 1]
    /\ remote' = "silent" /\ phase' = "handshake" /\ last' = "none"
    /\ UNCHANGED <<server, error_code, settings, changes>>

\* The same before SSL_accept: set_blocking, SSL_new or SSL_set_fd fails and
\* the peer is destroyed with its descriptor.
AcceptFails ==
    /\ phase = "idle" /\ server /\ fd = 0 /\ fds < MaxFds
    /\ fds' = fds + 1
    /\ error_code' \in {"io", "init"} /\ last' = "failed"
    /\ UNCHANGED <<server, fd, net_family, connected, ssl, settings, phase, remote,
                   openFds, changes>>

\* Mutant: the result of the verification is not asked for.
HandshakeAccepts(cert) == TRUE

\* Whether perform_handshake takes a completed handshake for a success.
HandshakeVerified(cert) == ssl.strict => Acceptable(ssl, cert)

HandshakeDone(cert) ==
    /\ phase = "handshake" /\ remote = "speaks"
    /\ HandshakeVerified(cert)
    /\ ssl' = [ssl EXCEPT !.finished = TRUE, !.cert = cert]
    /\ error_code' = "none" /\ last' = "ok" /\ phase' = "idle"
    /\ UNCHANGED <<server, fd, net_family, connected, settings, remote, openFds, fds, changes>>

\* Mutant: a failed connection is left as it is.
HandshakeFailsOpen ==
    /\ phase = "handshake" /\ remote # "silent"
    /\ error_code' = "handshake" /\ last' = "failed" /\ phase' = "idle"
    /\ UNCHANGED <<server, fd, connected, ssl, remote, openFds, net_family, settings,
                   fds, changes>>

\* A failed handshake: the client closes and then reports the failure, the
\* server destroys the peer.
HandshakeFails ==
    /\ phase = "handshake" /\ remote # "silent"
    /\ Release
    /\ error_code' \in {"handshake", "cert", "no_socket"} /\ last' = "failed" /\ phase' = "idle"
    /\ UNCHANGED <<server, net_family, settings, fds, changes>>

\* After a handshake that succeeded server_socket::accept cannot give the peer
\* the mode the caller asked for and destroys it.  The server's error_code was
\* cleared by the handshake and stays so.
PeerDropped ==
    /\ phase = "handshake" /\ server /\ remote = "speaks"
    /\ Release
    /\ error_code' = "none" /\ last' = "dropped" /\ phase' = "idle"
    /\ UNCHANGED <<server, net_family, settings, fds, changes>>

-----------------------------------------------------------------------------
\* A client's constructor passes the socket type as the family of its first
\* descriptor ("other"), which may fail; a server has no peer yet.
SslInit ==
    /\ server \in BOOLEAN
    /\ fd \in IF server THEN {0} ELSE {0, 1}
    /\ net_family = "other" /\ connected = FALSE /\ error_code = "none"
    /\ ssl = NoSsl /\ verify_mode = "strict" /\ allow_self_signed = FALSE
    /\ phase = "idle" /\ last = "none" /\ remote = "silent"
    /\ openFds = {fd} \ {0} /\ fds = 1 /\ changes = 0

SslNext ==
    \/ \E how \in {"speaks", "gone"} : RemoteActs(how)
    \/ SslClose \/ IoFails
    \/ \E mode \in {"strict", "off"} : SetVerification(mode)
    \/ \E allow \in BOOLEAN : SetAllowSelfSigned(allow)
    \/ ConnectRefused
    \/ \E f \in {"inet", "inet6"} : ConnectStart(f)
    \/ ConnectFails \/ SetupDone \/ SetupFails
    \/ Accept \/ AcceptFails
    \/ \E cert \in Certificates : HandshakeDone(cert)
    \/ HandshakeFails \/ PeerDropped

SslSpec == SslInit /\ [][SslNext]_sslVars

\* The calling thread runs whenever OpenSSL has something to go on with.
SslFairSpec ==
    SslSpec /\ WF_sslVars((\E cert \in Certificates : HandshakeDone(cert)) \/ HandshakeFails)

-----------------------------------------------------------------------------
(* Properties.                                                             *)

\* Types, and a connected socket has a descriptor.
SslTypeOK ==
    /\ server \in BOOLEAN /\ fd \in 0..MaxFds /\ net_family \in Families
    /\ connected \in BOOLEAN /\ (connected => fd # 0)
    /\ ssl \in SslObjects
    /\ verify_mode \in {"strict", "off"} /\ allow_self_signed \in BOOLEAN
    /\ phase \in {"idle", "connecting", "handshake"}
    /\ last \in {"none", "refused", "failed", "dropped", "ok"}
    /\ remote \in {"silent", "speaks", "gone"}
    /\ openFds \subseteq 1..MaxFds /\ fds \in 1..MaxFds /\ changes \in 0..MaxSettings

\* An SSL object works on the descriptor its socket owns now: none is kept
\* over a close or a reconnection ("Reconnects must never retain the previous
\* SSL object"), and every other descriptor is closed.  A connect() or accept()
\* that fails at any step after it began leaves none, and an error code unless
\* it failed after the handshake.
SessionOnOwnDescriptor ==
    /\ SslTypeOK
    /\ ssl # NoSsl => fd # 0 /\ ssl.fd = fd
    /\ openFds = {fd} \ {0}
    /\ last \in {"failed", "dropped"} => fd = 0 /\ ~connected
    /\ last = "failed" => error_code # "none"

\* A socket on which read() and write() work between calls has completed its
\* handshake, and in strict mode with a certificate that the settings of that
\* connection accept, whatever was set or failed since.
UsableIsVerified ==
    phase = "idle" /\ ssl # NoSsl /\ connected =>
        /\ ssl.finished
        /\ ssl.strict => Acceptable(ssl, ssl.cert)

\* Every handshake of accept() ends, also with an idle peer ("Each handshake's
\* blocking socket reads/writes time out after this many milliseconds").
AcceptReturns ==
    server /\ phase = "handshake" ~> phase # "handshake"
==============================================================================
