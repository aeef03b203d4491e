------------------------------ MODULE Endpoint ------------------------------
(* The two QUIC endpoints of a session: how each side makes its own from what *)
(* it was configured with and what the control channel brought it, and        *)
(* whether the two fit.                                                       *)
(*                                                                            *)
(* Source: control/endpoint.rs, control/crypto.rs, util/cert.rs, transport.rs *)
(* (create_config), config/structure.rs (windows), util/socket.rs, os/mod.rs, *)
(* and the credentials and direction of protocol/control/client_msg.rs.       *)
(*                                                                            *)
(* Each side decides on its own, never seeing the other's choice: the type of *)
(* credentials twice (for the message and for TLS), the cipher suites, the    *)
(* windows, the socket buffers.  Which port is bound, and the congestion      *)
(* controller, are in Negotiation; keys are abstracted to who owns them.      *)
EXTENDS Naturals, Sequences, SequencesExt, TaggedData

CONSTANTS Levels,         \* compatibility levels two programs may agree on
          Rates, Rtts,    \* negotiated bandwidths and round-trip times
          Scale,          \* 1000 in the code: milliseconds in a second
          DefaultWindow,  \* quinn's receive window
          UdpBuffer,      \* the configuration's udp_buffer
          SocketSizes     \* what a kernel may have for default and for limit

ASSUME EndpointAssumption ==
  /\ Levels \subseteq Nat \ {0} /\ Rtts \subseteq Nat \ {0}
  /\ Rates \subseteq Nat \ {0} /\ SocketSizes \subseteq Nat \ {0}
  /\ {Scale, DefaultWindow, UdpBuffer} \subseteq Nat \ {0}

VARIABLES level,  \* the level agreed on
          dir,    \* "put" or "get": Direction::ClientToServer, ServerToClient
          pref,   \* each side's machine and configuration
          rate,   \* the bandwidths agreed on, up (to the server) and down
          rtt,
          cpc, spc,
          cmsg,   \* credentials in the client message
          smsg,   \* credentials in the server message
          ep,     \* the endpoints
          suite   \* the cipher suite of the connection

inputs == <<level, dir, pref, rate, rtt>>
vars == <<inputs, cpc, spc, cmsg, smsg, ep, suite>>

Side == {"c", "s"}
Peer(side) == IF side = "c" THEN "s" ELSE "c"
None == with_bytes("none", "none")

CredentialsType == {"any", "x509", "raw"}
Preference == [aes256 : BOOLEAN, cpu_supports_aes : BOOLEAN,
               tls_auth_type : CredentialsType]

SupportsMessage2(l) == l >= 3

-----------------------------------------------------------------------------
(* Credentials (util/cert.rs).                                             *)

type_tag_for(l, configured) ==
  IF configured # "any" THEN configured
  ELSE IF SupportsMessage2(l) THEN "raw" ELSE "x509"

\* A certificate or a raw key: bytes, here its owner, under the type's tag.
Credentials(side, type) == with_bytes(type, side)

\* What to_tagged_data gives for the control channel, where it does.
Tag(side) == type_tag_for(level, pref[side].tls_auth_type)
Sendable(side) == Tag(side) = "raw" => SupportsMessage2(level)

\* Plausible bug: TLS goes by the level alone.
ShownByLevel(side) == Credentials(side, type_tag_for(level, "any"))
\* What the side shows in the handshake (the resolvers of endpoint.rs).
Shown(side) == Credentials(side, type_tag_for(level, pref[side].tls_auth_type))

\* The verifier that a side sets up for the credentials it was sent: a raw key
\* verifier asks for raw keys and nothing else, WebPki for certificates.
Accepts(trust, shown) == trust = shown

-----------------------------------------------------------------------------
(* Cipher suites (control/crypto.rs).                                      *)

CIPHER_SUITES_FORCE_AES256 == <<"aes256", "aes128">>
CIPHER_SUITES_DEFAULT      == <<"aes128", "aes256", "chacha20">>
CIPHER_SUITES_NO_AES_HW    == <<"chacha20", "aes128", "aes256">>

select_cipher_suites(p) ==
  IF p.aes256 THEN CIPHER_SUITES_FORCE_AES256
  ELSE IF p.cpu_supports_aes THEN CIPHER_SUITES_DEFAULT
  ELSE CIPHER_SUITES_NO_AES_HW

\* Plausible bug: a server without AES hardware follows the client.
ignore_when_forced(p) == p.aes256
ignore_client_order(p) == p.aes256 \/ ~p.cpu_supports_aes

\* rustls: the first suite of the one list that is in the other.
FirstShared(s, t) == s[SelectInSeq(s, LAMBDA x : Contains(t, x))]
Chosen(client, server) ==
  IF server.serverOrder THEN FirstShared(server.suites, client.suites)
  ELSE FirstShared(client.suites, server.suites)

-----------------------------------------------------------------------------
(* Windows (config/structure.rs, transport.rs).                            *)

client_mode == IF dir = "put" THEN "tx" ELSE "rx"
server_mode == IF dir = "put" THEN "rx" ELSE "tx"
\* Plausible bug: each side takes the other's mode.
ModeOfPeer(side) == IF side = "c" THEN server_mode ELSE client_mode
Mode(side) == IF side = "c" THEN client_mode ELSE server_mode

\* The negotiated bandwidths, seen from a side.
tx(side) == IF side = "c" THEN rate.up ELSE rate.down
rx(side) == IF side = "c" THEN rate.down ELSE rate.up

\* Plausible bug: the send window is computed from the receive bandwidth.
SendWindowOfRx(side) == 8 * ((rx(side) * rtt) \div Scale)
send_window(side) == 8 * ((tx(side) * rtt) \div Scale)
recv_window(side) == (rx(side) * rtt) \div Scale

\* create_config sets the windows that the mode calls for, quinn has the others.
SendWindow(side) == IF Mode(side) = "tx" THEN send_window(side) ELSE 8 * DefaultWindow
RecvWindow(side) == IF Mode(side) = "rx" THEN recv_window(side) ELSE DefaultWindow

-----------------------------------------------------------------------------
(* Socket buffers (util/socket.rs, os/mod.rs).                             *)

Kernel == [default : SocketSizes, limit : SocketSizes, force : BOOLEAN]

Lower(a, b) == IF a < b THEN a ELSE b

\* set_udp_buffer_sizes for one of the two buffers: left alone if it is large
\* enough, else set, which the kernel cuts to its limit, else forced, for which
\* the kernel wants a privilege and Linux.
Sized(k, wanted) ==
  IF k.default >= wanted THEN k.default
  ELSE LET set == Lower(wanted, k.limit)
       IN  IF set < wanted /\ k.force THEN wanted ELSE set

\* create_endpoint asks for the buffers that the mode calls for.
SendBuffer(side, k) == IF Mode(side) = "tx" THEN Sized(k, UdpBuffer) ELSE k.default
RecvBuffer(side, k) == IF Mode(side) = "rx" THEN Sized(k, UdpBuffer) ELSE k.default

ShortBuffers(side, k) ==
  \/ Mode(side) = "tx" /\ SendBuffer(side, k) < UdpBuffer
  \/ Mode(side) = "rx" /\ RecvBuffer(side, k) < UdpBuffer

-----------------------------------------------------------------------------
NoEndpoint == [trust |-> None]

\* create_endpoint, on a machine with kernel k.
create_endpoint(side, peerCredentials, k) ==
  [trust |-> peerCredentials, shows |-> Shown(side),
   suites |-> select_cipher_suites(pref[side]),
   serverOrder |-> side = "s" /\ ignore_client_order(pref[side]),
   sendWindow |-> SendWindow(side), recvWindow |-> RecvWindow(side),
   sendBuffer |-> SendBuffer(side, k), recvBuffer |-> RecvBuffer(side, k),
   warning |-> ShortBuffers(side, k)]

Init ==
  /\ level \in Levels /\ dir \in {"put", "get"}
  /\ pref \in [Side -> Preference]
  /\ rate \in [up : Rates, down : Rates] /\ rtt \in Rtts
  /\ cpc = "send" /\ spc = "read"
  /\ cmsg = None /\ smsg = None
  /\ ep = [side \in Side |-> NoEndpoint]
  /\ suite = "none"

\* client_send_message, from the credentials on.
CSend == /\ cpc = "send"
         /\ Sendable("c")
         /\ cmsg' = Credentials("c", Tag("c"))
         /\ cpc' = "wait"
         /\ UNCHANGED <<inputs, spc, smsg, ep, suite>>

CCannotSend == /\ cpc = "send"
               /\ ~Sendable("c")
               /\ cpc' = "failed"
               /\ UNCHANGED <<inputs, spc, cmsg, smsg, ep, suite>>

\* run_server_inner: the endpoint is made before the server message.
SEndpoint == /\ spc = "read" /\ cmsg # None
             /\ \E k \in Kernel : ep' = [ep EXCEPT !["s"] = create_endpoint("s", cmsg, k)]
             /\ spc' = "reply"
             /\ UNCHANGED <<inputs, cpc, cmsg, smsg, suite>>

\* No message; or no endpoint, for want of a port or of the congestion controller.
SFails == /\ spc = "read" /\ (cmsg # None \/ cpc = "failed")
          /\ spc' = "failed"
          /\ UNCHANGED <<inputs, cpc, cmsg, smsg, ep, suite>>

\* server_send_message
SReply == /\ spc = "reply"
          /\ Sendable("s")
          /\ smsg' = Credentials("s", Tag("s"))
          /\ spc' = "accept"
          /\ UNCHANGED <<inputs, cpc, cmsg, ep, suite>>

SCannotReply == /\ spc = "reply"
                /\ ~Sendable("s")
                /\ spc' = "failed"
                /\ UNCHANGED <<inputs, cpc, cmsg, smsg, ep, suite>>

\* create_quic_endpoint
CEndpoint == /\ cpc = "wait" /\ smsg # None
             /\ \E k \in Kernel : ep' = [ep EXCEPT !["c"] = create_endpoint("c", smsg, k)]
             /\ cpc' = "connect"
             /\ UNCHANGED <<inputs, spc, cmsg, smsg, suite>>

CFails == /\ cpc = "wait" /\ (smsg # None \/ spc = "failed")
          /\ cpc' = "failed"
          /\ UNCHANGED <<inputs, spc, cmsg, smsg, ep, suite>>

\* The TLS handshake; what becomes of a server without a client is in Session.
Handshake == /\ cpc = "connect" /\ spc = "accept"
             /\ \A side \in Side : Accepts(ep[side].trust, ep[Peer(side)].shows)
             /\ suite' = Chosen(ep["c"], ep["s"])
             /\ cpc' = "up" /\ spc' = "up"
             /\ UNCHANGED <<inputs, cmsg, smsg, ep>>

Ended == /\ \/ cpc = "up"
            \/ cpc = "failed" /\ spc \in {"accept", "failed"}
         /\ UNCHANGED vars

Next == \/ CSend \/ CCannotSend \/ SEndpoint \/ SFails \/ SReply \/ SCannotReply
        \/ CEndpoint \/ CFails \/ Handshake \/ Ended

Spec == Init /\ [][Next]_vars

-----------------------------------------------------------------------------
(* What must hold.                                                         *)

Credential == {Credentials(side, type) : side \in Side, type \in {"x509", "raw"}} \cup {None}

TypeOK ==
  /\ cpc \in {"send", "wait", "connect", "up", "failed"}
  /\ spc \in {"read", "reply", "accept", "up", "failed"}
  /\ {cmsg, smsg} \subseteq Credential
  /\ suite \in {"none", "aes128", "aes256", "chacha20"}
  /\ \A side \in Side : ep[side].trust \in Credential

\* protocol/mod.rs "The endpoints will only establish a connection [...]
\* identified by a self-signed certificate that it just received over the
\* control channel": whatever either user configured, once both endpoints exist
\* each side shows the credentials, and the type of credentials, that the other
\* was sent, and their handshake succeeds.
CredentialsAccepted ==
  cpc = "connect" /\ spc = "accept" =>
    \A side \in Side : Accepts(ep[side].trust, ep[Peer(side)].shows)

\* protocol/mod.rs "Note on TLS cipher suite selection": the suite is one that
\* both have; where nobody forces AES256 it is ChaCha20 if one side has no AES
\* hardware and AES128 if both have it; a server's aes256 gives AES256, and so
\* does a client's on a server with AES hardware.  For a server without it the
\* note says AES256 too ("Either side may set the `aes256` configuration [...]
\* overriding the CPU detection"); but such a server goes by its own order
\* (ignore_client_order), in which AES128 comes first of what the client has
\* left, and AES128 it is.
SuitePreferred ==
  cpc = "up" =>
    LET c == pref["c"]
        s == pref["s"]
    IN /\ Contains(ep["c"].suites, suite) /\ Contains(ep["s"].suites, suite)
       /\ ~c.aes256 /\ ~s.aes256 =>
            suite = IF c.cpu_supports_aes /\ s.cpu_supports_aes THEN "aes128" ELSE "chacha20"
       /\ s.aes256 \/ (c.aes256 /\ s.cpu_supports_aes) => suite = "aes256"
       /\ c.aes256 /\ ~s.aes256 /\ ~s.cpu_supports_aes => suite = "aes128"

\* A side is warned exactly when the socket buffer that the payload goes through
\* is smaller than configured, whatever became of the other one.
ShortBuffersAreTold ==
  /\ ep["c"] # NoEndpoint =>
       LET e == ep["c"]
       IN  e.warning <=> (IF dir = "put" THEN e.sendBuffer ELSE e.recvBuffer) < UdpBuffer
  /\ ep["s"] # NoEndpoint =>
       LET e == ep["s"]
       IN  e.warning <=> (IF dir = "put" THEN e.recvBuffer ELSE e.sendBuffer) < UdpBuffer

\* The payload may have as much in flight as the agreed bandwidth and RTT make
\* the bandwidth-delay product: the sender's window, computed from its tx, is
\* never the smaller one; requests and responses the other way have quinn's.
PayloadCapacity ==
  cpc = "up" =>
    LET from == IF dir = "put" THEN "c" ELSE "s"
        bps == IF dir = "put" THEN rate.up ELSE rate.down
        InFlight(a) == Lower(ep[a].sendWindow, ep[Peer(a)].recvWindow)
    IN  /\ InFlight(from) = (bps * rtt) \div Scale
        /\ InFlight(Peer(from)) = DefaultWindow

-----------------------------------------------------------------------------
(* The inductive invariant: what has been sent is the sender's own, and an *)
(* endpoint is what create_endpoint made of what its side was sent.        *)

Sent == /\ cmsg \in {None, Credentials("c", Tag("c"))}
        /\ smsg \in {None, Credentials("s", Tag("s"))}
        /\ cpc = "send" => cmsg = None
        /\ spc \in {"read", "reply"} => smsg = None

Trusted(side) == IF side = "c" THEN smsg ELSE cmsg

Made(side) == /\ Trusted(side) # None
              /\ \E k \in Kernel : ep[side] = create_endpoint(side, Trusted(side), k)

Endpoints == /\ \A side \in Side : ep[side] = NoEndpoint \/ Made(side)
             /\ cpc \in {"connect", "up"} => Made("c")
             /\ spc \in {"reply", "accept", "up"} => Made("s")

Connected == /\ cpc = "up" <=> spc = "up"
             /\ cpc = "up" => suite = Chosen(ep["c"], ep["s"])

Given == /\ level \in Levels /\ dir \in {"put", "get"}
         /\ pref \in [Side -> Preference]
         /\ rate \in [up : Rates, down : Rates] /\ rtt \in Rtts
         /\ DOMAIN ep = Side

Inv == TypeOK /\ Given /\ Sent /\ Endpoints /\ Connected
=============================================================================
