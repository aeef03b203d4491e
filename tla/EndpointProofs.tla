---------------------------- MODULE EndpointProofs ----------------------------
(* What module Endpoint promises, proved for every bandwidth, round-trip time, *)
(* kernel and window size and every compatibility level.                       *)
(*                                                                             *)
(* Each property is about two endpoints made independently.  The invariant     *)
(* says that each of them still is what create_endpoint made of its side's     *)
(* configuration and of what the other side sent; the lemmas compare the two.  *)
EXTENDS Endpoint, TLAPS

-----------------------------------------------------------------------------
(* Cipher suites.                                                          *)

\* If the other side has the first one, that is the one.
LEMMA FirstIsShared ==
  ASSUME NEW s, NEW t, 1 \in 1..Len(s), Len(s) \in Nat, Contains(t, s[1])
  PROVE  FirstShared(s, t) = s[1]
<1> DEFINE I == {i \in 1..Len(s) : Contains(t, s[i])}
<1>1. 1 \in I /\ \A i \in I : 1 <= i /\ i \in Nat
  OBVIOUS
<1>2. Min(I) = CHOOSE x \in I : \A y \in I : x <= y
  BY DEF Min
<1>3. SelectInSeq(s, LAMBDA x : Contains(t, x)) = Min(I)
  BY <1>1 DEF SelectInSeq
<1> HIDE DEF I
<1>4. \A x \in I : (\A y \in I : x <= y) => x = 1
  BY <1>1
<1>5. Min(I) = 1
  BY <1>1, <1>2, <1>4
<1> QED
  BY <1>3, <1>5 DEF FirstShared

\* The three lists of cipher suites (control/crypto.rs), written out.
LEMMA SuiteLists ==
  /\ Len(CIPHER_SUITES_FORCE_AES256) = 2
  /\ CIPHER_SUITES_FORCE_AES256[1] = "aes256" /\ CIPHER_SUITES_FORCE_AES256[2] = "aes128"
  /\ Len(CIPHER_SUITES_DEFAULT) = 3
  /\ CIPHER_SUITES_DEFAULT[1] = "aes128" /\ CIPHER_SUITES_DEFAULT[2] = "aes256"
  /\ CIPHER_SUITES_DEFAULT[3] = "chacha20"
  /\ Len(CIPHER_SUITES_NO_AES_HW) = 3
  /\ CIPHER_SUITES_NO_AES_HW[1] = "chacha20" /\ CIPHER_SUITES_NO_AES_HW[2] = "aes128"
  /\ CIPHER_SUITES_NO_AES_HW[3] = "aes256"
BY DEF CIPHER_SUITES_FORCE_AES256, CIPHER_SUITES_DEFAULT, CIPHER_SUITES_NO_AES_HW

\* Forcing AES256 leaves ChaCha20 out; the other lists have all suites.
LEMMA SuitesHave ==
  /\ \A x : Contains(CIPHER_SUITES_FORCE_AES256, x) <=> x \in {"aes256", "aes128"}
  /\ \A x : Contains(CIPHER_SUITES_DEFAULT, x) <=> x \in {"aes128", "aes256", "chacha20"}
  /\ \A x : Contains(CIPHER_SUITES_NO_AES_HW, x) <=> x \in {"aes128", "aes256", "chacha20"}
<1>1. 1..2 = {1, 2} /\ 1..3 = {1, 2, 3}
  OBVIOUS
<1> QED
  BY <1>1, SuiteLists DEF Contains

\* The one case in which the first suite of a list is not in the other.
LEMMA SecondIsShared ==
  FirstShared(CIPHER_SUITES_NO_AES_HW, CIPHER_SUITES_FORCE_AES256) = "aes128"
<1> DEFINE s == CIPHER_SUITES_NO_AES_HW
           t == CIPHER_SUITES_FORCE_AES256
           I == {i \in 1..Len(s) : Contains(t, s[i])}
<1>1. Len(s) = 3 /\ s[1] = "chacha20" /\ s[2] = "aes128" /\ s[3] = "aes256"
      /\ \A x : Contains(t, x) <=> x \in {"aes256", "aes128"}
  BY SuiteLists, SuitesHave
<1>2. 1..3 = {1, 2, 3}
  OBVIOUS
<1> HIDE DEF s, t
<1>3. I = {2, 3}
  BY <1>1, <1>2
<1>4. Min({2, 3}) = 2
  BY DEF Min
<1>5. SelectInSeq(s, LAMBDA x : Contains(t, x)) = 2
  BY <1>3, <1>4 DEF SelectInSeq
<1> QED
  BY <1>1, <1>5 DEF FirstShared, s, t

\* What two sides end up with, by what each of them prefers.
LEMMA ChosenIs ==
  ASSUME NEW c \in Preference, NEW s \in Preference, NEW ce, NEW se,
         ce.suites = select_cipher_suites(c), se.suites = select_cipher_suites(s),
         se.serverOrder = ignore_client_order(s)
  PROVE  /\ Chosen(ce, se) =
              IF s.aes256 THEN "aes256"
              ELSE IF ~s.cpu_supports_aes
                   THEN IF c.aes256 THEN "aes128" ELSE "chacha20"
                   ELSE IF c.aes256 THEN "aes256"
                        ELSE IF c.cpu_supports_aes THEN "aes128" ELSE "chacha20"
         /\ Contains(ce.suites, Chosen(ce, se)) /\ Contains(se.suites, Chosen(ce, se))
<1>1. /\ c.aes256 \in BOOLEAN /\ c.cpu_supports_aes \in BOOLEAN
      /\ s.aes256 \in BOOLEAN /\ s.cpu_supports_aes \in BOOLEAN
  BY DEF Preference
<1> DEFINE F == CIPHER_SUITES_FORCE_AES256
           D == CIPHER_SUITES_DEFAULT
           N == CIPHER_SUITES_NO_AES_HW
<1>2. \A t \in {F, D, N} : FirstShared(F, t) = "aes256"
  <2> SUFFICES ASSUME NEW t \in {F, D, N} PROVE FirstShared(F, t) = "aes256"
    OBVIOUS
  <2>1. 1 \in 1..Len(F) /\ Len(F) \in Nat /\ F[1] = "aes256" /\ Contains(t, F[1])
    BY SuiteLists, SuitesHave
  <2> HIDE DEF F
  <2> QED
    BY <2>1, FirstIsShared
<1>3. \A t \in {F, D, N} : FirstShared(D, t) = "aes128"
  <2> SUFFICES ASSUME NEW t \in {F, D, N} PROVE FirstShared(D, t) = "aes128"
    OBVIOUS
  <2>1. 1 \in 1..Len(D) /\ Len(D) \in Nat /\ D[1] = "aes128" /\ Contains(t, D[1])
    BY SuiteLists, SuitesHave
  <2> HIDE DEF D
  <2> QED
    BY <2>1, FirstIsShared
<1>4. \A t \in {D, N} : FirstShared(N, t) = "chacha20"
  <2> SUFFICES ASSUME NEW t \in {D, N} PROVE FirstShared(N, t) = "chacha20"
    OBVIOUS
  <2>1. 1 \in 1..Len(N) /\ Len(N) \in Nat /\ N[1] = "chacha20" /\ Contains(t, N[1])
    BY SuiteLists, SuitesHave
  <2> HIDE DEF N
  <2> QED
    BY <2>1, FirstIsShared
<1>5. FirstShared(N, F) = "aes128"
  BY SecondIsShared
<1>6. /\ \A x : Contains(F, x) <=> x \in {"aes256", "aes128"}
      /\ \A x : Contains(D, x) <=> x \in {"aes128", "aes256", "chacha20"}
      /\ \A x : Contains(N, x) <=> x \in {"aes128", "aes256", "chacha20"}
  BY SuitesHave
<1>7. /\ ce.suites = IF c.aes256 THEN F ELSE IF c.cpu_supports_aes THEN D ELSE N
      /\ se.suites = IF s.aes256 THEN F ELSE IF s.cpu_supports_aes THEN D ELSE N
      /\ se.serverOrder <=> (s.aes256 \/ ~s.cpu_supports_aes)
      /\ Chosen(ce, se) = IF se.serverOrder THEN FirstShared(se.suites, ce.suites)
                          ELSE FirstShared(ce.suites, se.suites)
  BY DEF select_cipher_suites, ignore_client_order, Chosen
<1> HIDE DEF F, D, N
<1>8. CASE s.aes256
  BY <1>1, <1>2, <1>6, <1>7, <1>8
<1>9. CASE ~s.aes256 /\ ~s.cpu_supports_aes
  BY <1>1, <1>4, <1>5, <1>6, <1>7, <1>9
<1>10. CASE ~s.aes256 /\ s.cpu_supports_aes
  BY <1>1, <1>2, <1>3, <1>4, <1>6, <1>7, <1>10
<1> QED
  BY <1>1, <1>8, <1>9, <1>10

-----------------------------------------------------------------------------
(* Windows and socket buffers.                                             *)

\* The sender's window is computed as eight times what the receiver's is.
LEMMA WindowFacts ==
  ASSUME NEW r \in Rates, rtt \in Rtts
  PROVE  /\ (r * rtt) \div Scale \in Nat
         /\ Lower(8 * ((r * rtt) \div Scale), (r * rtt) \div Scale)
              = (r * rtt) \div Scale
         /\ Lower(8 * DefaultWindow, DefaultWindow) = DefaultWindow
<1>1. r \in Nat /\ rtt \in Nat /\ Scale \in Nat /\ Scale > 0 /\ DefaultWindow \in Nat
  BY EndpointAssumption
<1>2. r * rtt \in Nat
  BY <1>1
<1>3. \A x \in Nat : x \div Scale \in Nat
  BY <1>1
<1>4. \A x \in Nat : Lower(8 * x, x) = x
  BY DEF Lower
<1> QED
  BY <1>1, <1>2, <1>3, <1>4

-----------------------------------------------------------------------------
(* The steps.                                                              *)

\* Real credentials are not mistaken for none.
LEMMA NoneFacts ==
  /\ \A side, type : type \in {"x509", "raw"} => Credentials(side, type) # None
  /\ None \in Credential
  /\ NoEndpoint.trust = None
BY DEF Credentials, None, with_bytes, with_variant, Bytes, Credential, NoEndpoint

\* What a side puts in its message is what it shows in the handshake.
LEMMA TagFacts ==
  ASSUME Given, NEW side \in Side
  PROVE  /\ Tag(side) \in {"x509", "raw"}
         /\ Credentials(side, Tag(side)) \in Credential
         /\ Credentials(side, Tag(side)) # None
         /\ Shown(side) = Credentials(side, Tag(side))
<1>1. pref[side].tls_auth_type \in CredentialsType
  BY DEF Given, Preference
<1>2. Tag(side) \in {"x509", "raw"}
  BY <1>1 DEF Tag, type_tag_for, CredentialsType
<1> QED
  BY <1>2, NoneFacts DEF Credential, Shown, Tag

\* Before anything is sent there are no endpoints.
LEMMA InitInv == Init => Inv
<1> SUFFICES ASSUME Init PROVE Inv
  OBVIOUS
<1>1. TypeOK
  BY NoneFacts DEF Init, TypeOK, Side
<1>2. Given /\ Sent /\ Endpoints /\ Connected
  BY DEF Init, Given, Sent, Endpoints, Connected
<1> QED
  BY <1>1, <1>2 DEF Inv

\* While the configuration stays, so does what is computed from it.
LEMMA SameInputs ==
  ASSUME UNCHANGED inputs
  PROVE  /\ Given /\ DOMAIN ep' = DOMAIN ep => Given'
         /\ \A side : Credentials(side, Tag(side))' = Credentials(side, Tag(side))
         /\ \A side : ep'[side] = ep[side] /\ Trusted(side)' = Trusted(side)
                        /\ Made(side) => Made(side)'
<1>1. UNCHANGED <<level, dir, pref, rate, rtt>>
  BY DEF inputs
<1>2. Given /\ DOMAIN ep' = DOMAIN ep => Given'
  BY <1>1 DEF Given
<1>3. \A side : Tag(side)' = Tag(side)
  BY <1>1 DEF Tag
<1>4. \A side, t, k : create_endpoint(side, t, k)' = create_endpoint(side, t, k)
  BY <1>1 DEF create_endpoint, Shown, select_cipher_suites, ignore_client_order,
     SendWindow, RecvWindow, SendBuffer, RecvBuffer, ShortBuffers, Mode,
     client_mode, server_mode, send_window, recv_window, tx, rx
<1>5. \A side : ep'[side] = ep[side] /\ Trusted(side)' = Trusted(side)
                  /\ Made(side) => Made(side)'
  BY <1>4 DEF Made
<1>6. \A side : Credentials(side, Tag(side))' = Credentials(side, Tag(side))
  BY <1>3 DEF Credentials
<1> QED
  BY <1>2, <1>5, <1>6

\* A side sends its own credentials, once.
LEMMA SendKeeps ==
  ASSUME Inv, CSend \/ SReply
  PROVE  Inv'
<1>1. /\ UNCHANGED <<inputs, ep, suite>>
      /\ cpc # "up" /\ spc # "up" /\ cpc' # "up" /\ spc' # "up"
  BY DEF CSend, SReply, Inv, Connected
<1>2. Given' /\ Credentials("c", Tag("c"))' = Credentials("c", Tag("c"))
      /\ Credentials("s", Tag("s"))' = Credentials("s", Tag("s"))
  BY <1>1, SameInputs DEF Inv
<1>3. /\ Credentials("c", Tag("c")) \in Credential \ {None}
      /\ Credentials("s", Tag("s")) \in Credential \ {None}
  BY TagFacts DEF Inv, Side
<1>4. CASE CSend
  <2>1. /\ cpc = "send" /\ cmsg' = Credentials("c", Tag("c")) /\ cpc' = "wait"
        /\ UNCHANGED <<spc, smsg>> /\ cmsg = None
    BY <1>4 DEF CSend, Inv, Sent
  <2>2. TypeOK'
    BY <1>1, <1>3, <2>1 DEF Inv, TypeOK
  <2>3. Sent'
    BY <1>2, <2>1 DEF Inv, Sent
  <2>4. ~Made("s")
    BY <2>1 DEF Made, Trusted
  <2>5. ep["s"] = NoEndpoint /\ spc \notin {"reply", "accept", "up"}
    BY <2>4 DEF Inv, Endpoints, Side
  <2>6. Made("c") => Made("c")'
    BY <1>1, <2>1, SameInputs DEF Trusted
  <2>7. Endpoints'
    BY <1>1, <2>1, <2>5, <2>6 DEF Inv, Endpoints, Side
  <2>8. Connected'
    BY <1>1, <2>1 DEF Inv, Connected
  <2> QED
    BY <1>2, <2>2, <2>3, <2>7, <2>8 DEF Inv
<1>5. CASE SReply
  <2>1. /\ spc = "reply" /\ smsg' = Credentials("s", Tag("s")) /\ spc' = "accept"
        /\ UNCHANGED <<cpc, cmsg>> /\ smsg = None
    BY <1>5 DEF SReply, Inv, Sent
  <2>2. TypeOK'
    BY <1>1, <1>3, <2>1 DEF Inv, TypeOK
  <2>3. Sent'
    BY <1>2, <2>1 DEF Inv, Sent
  <2>4. ~Made("c")
    BY <2>1 DEF Made, Trusted
  <2>5. ep["c"] = NoEndpoint /\ cpc \notin {"connect", "up"}
    BY <2>4 DEF Inv, Endpoints, Side
  <2>6. Made("s") /\ Made("s")'
    BY <1>1, <2>1, SameInputs DEF Trusted, Inv, Endpoints
  <2>7. Endpoints'
    BY <1>1, <2>1, <2>5, <2>6 DEF Inv, Endpoints, Side
  <2>8. Connected'
    BY <1>1, <2>1 DEF Inv, Connected
  <2> QED
    BY <1>2, <2>2, <2>3, <2>7, <2>8 DEF Inv
<1> QED
  BY <1>4, <1>5

\* Either side stops where it is; the endpoints are as they were.
LEMMA FailureKeeps ==
  ASSUME Inv, CCannotSend \/ SFails \/ SCannotReply \/ CFails
  PROVE  Inv'
<1>1. /\ UNCHANGED <<inputs, cmsg, smsg, ep, suite>>
      /\ \/ cpc' = "failed" /\ spc' = spc /\ cpc # "up"
         \/ spc' = "failed" /\ cpc' = cpc /\ spc # "up"
  BY DEF CCannotSend, SFails, SCannotReply, CFails
<1>2. Given' /\ Credentials("c", Tag("c"))' = Credentials("c", Tag("c"))
      /\ Credentials("s", Tag("s"))' = Credentials("s", Tag("s"))
      /\ \A side : Made(side) => Made(side)'
  BY <1>1, SameInputs DEF Inv, Trusted
<1>3. TypeOK' /\ Sent' /\ Endpoints'
  BY <1>1, <1>2 DEF Inv, TypeOK, Sent, Endpoints
<1>4. Connected'
  BY <1>1 DEF Inv, Connected
<1> QED
  BY <1>2, <1>3, <1>4 DEF Inv

\* An endpoint is made, from what the other side sent.
LEMMA EndpointKeeps ==
  ASSUME Inv, NEW side \in Side, NEW k \in Kernel,
         Trusted(side) # None,
         ep' = [ep EXCEPT ![side] = create_endpoint(side, Trusted(side), k)],
         side = "c" => cpc = "wait" /\ cpc' = "connect" /\ spc' = spc,
         side = "s" => spc = "read" /\ spc' = "reply" /\ cpc' = cpc,
         UNCHANGED <<inputs, cmsg, smsg, suite>>
  PROVE  Inv'
<1>1. /\ DOMAIN ep = Side /\ DOMAIN ep' = Side
      /\ ep'[side] = create_endpoint(side, Trusted(side), k)
      /\ \A other \in Side : other # side => ep'[other] = ep[other]
  BY DEF Inv, Given
<1>2. Given' /\ Credentials("c", Tag("c"))' = Credentials("c", Tag("c"))
      /\ Credentials("s", Tag("s"))' = Credentials("s", Tag("s"))
      /\ \A other \in Side : other # side /\ Made(other) => Made(other)'
  BY <1>1, SameInputs DEF Inv, Trusted
<1>3. Made(side)'
  <2>1. create_endpoint(side, Trusted(side), k)' = create_endpoint(side, Trusted(side), k)
    BY DEF inputs, create_endpoint, Shown, select_cipher_suites, ignore_client_order,
       SendWindow, RecvWindow, SendBuffer, RecvBuffer, ShortBuffers, Mode,
       client_mode, server_mode, send_window, recv_window, tx, rx, Trusted
  <2> QED
    BY <1>1, <2>1 DEF Made, Trusted
<1>4. ep'[side].trust \in Credential
  BY <1>1 DEF create_endpoint, Trusted, Inv, TypeOK
<1>5. TypeOK'
  BY <1>1, <1>4 DEF Inv, TypeOK, Side
<1>6. Sent'
  BY <1>2 DEF Inv, Sent, Side
<1>7. Endpoints'
  BY <1>1, <1>2, <1>3 DEF Inv, Endpoints, Side
<1>8. Connected'
  BY DEF Inv, Connected, Side
<1> QED
  BY <1>2, <1>5, <1>6, <1>7, <1>8 DEF Inv

\* Two endpoints that were made, as records.
LEMMA MadeFacts ==
  ASSUME Inv, NEW side \in Side, Made(side)
  PROVE  /\ ep[side].trust = Credentials(Peer(side), Tag(Peer(side)))
         /\ ep[side].shows = Credentials(side, Tag(side))
         /\ ep[side].suites = select_cipher_suites(pref[side])
         /\ ep[side].serverOrder = (side = "s" /\ ignore_client_order(pref[side]))
         /\ ep[side].sendWindow = SendWindow(side)
         /\ ep[side].recvWindow = RecvWindow(side)
         /\ \E k \in Kernel : /\ ep[side].sendBuffer = SendBuffer(side, k)
                              /\ ep[side].recvBuffer = RecvBuffer(side, k)
                              /\ ep[side].warning = ShortBuffers(side, k)
<1>1. Trusted(side) = Credentials(Peer(side), Tag(Peer(side)))
  BY DEF Inv, Sent, Made, Trusted, Peer, Side
<1>2. Shown(side) = Credentials(side, Tag(side))
  BY TagFacts DEF Inv
<1> QED
  BY <1>1, <1>2 DEF Made, create_endpoint

\* Both sides enter the handshake together, each with its endpoint made.
LEMMA HandshakeKeeps ==
  ASSUME Inv, Handshake
  PROVE  Inv'
<1>1. /\ cpc = "connect" /\ spc = "accept" /\ cpc' = "up" /\ spc' = "up"
      /\ suite' = Chosen(ep["c"], ep["s"])
      /\ UNCHANGED <<inputs, cmsg, smsg, ep>>
  BY DEF Handshake
<1>2. Given' /\ Credentials("c", Tag("c"))' = Credentials("c", Tag("c"))
      /\ Credentials("s", Tag("s"))' = Credentials("s", Tag("s"))
      /\ \A side : Made(side) => Made(side)'
  BY <1>1, SameInputs DEF Inv, Trusted
<1>3. Made("c") /\ Made("s")
  BY <1>1 DEF Inv, Endpoints
<1>4. suite' \in {"aes128", "aes256", "chacha20"}
  <2>1. /\ ep["c"].suites = select_cipher_suites(pref["c"])
        /\ ep["s"].suites = select_cipher_suites(pref["s"])
        /\ ep["s"].serverOrder = ignore_client_order(pref["s"])
    BY <1>3, MadeFacts DEF Side, ignore_client_order
  <2>2. pref["c"] \in Preference /\ pref["s"] \in Preference
    BY DEF Inv, Given, Side
  <2> QED
    BY <1>1, <2>1, <2>2, ChosenIs
<1>5. TypeOK'
  BY <1>1, <1>4 DEF Inv, TypeOK
<1>6. Sent' /\ Endpoints'
  BY <1>1, <1>2, <1>3 DEF Inv, Sent, Endpoints
<1>7. Connected'
  BY <1>1 DEF Connected, Chosen
<1> QED
  BY <1>2, <1>5, <1>6, <1>7 DEF Inv

\* No step of either side leaves the invariant.
LEMMA Inductive == Inv /\ [Next]_vars => Inv'
<1> SUFFICES ASSUME Inv, [Next]_vars PROVE Inv'
  OBVIOUS
<1>1. CASE CSend \/ SReply
  BY <1>1, SendKeeps
<1>2. CASE CCannotSend \/ SFails \/ SCannotReply \/ CFails
  BY <1>2, FailureKeeps
<1>3. CASE SEndpoint
  BY <1>3, EndpointKeeps DEF SEndpoint, Side, Trusted
<1>4. CASE CEndpoint
  BY <1>4, EndpointKeeps DEF CEndpoint, Side, Trusted
<1>5. CASE Handshake
  BY <1>5, HandshakeKeeps
<1>6. CASE Ended \/ UNCHANGED vars
  <2>1. UNCHANGED <<inputs, cpc, spc, cmsg, smsg, ep, suite>>
    BY <1>6 DEF Ended, vars
  <2>2. Given' /\ Credentials("c", Tag("c"))' = Credentials("c", Tag("c"))
        /\ Credentials("s", Tag("s"))' = Credentials("s", Tag("s"))
        /\ \A side : Made(side) => Made(side)'
    BY <2>1, SameInputs DEF Inv, Trusted
  <2> QED
    BY <2>1, <2>2 DEF Inv, TypeOK, Sent, Endpoints, Connected
<1> QED
  BY <1>1, <1>2, <1>3, <1>4, <1>5, <1>6 DEF Next

-----------------------------------------------------------------------------
(* The theorems.                                                           *)

\* The inductive invariant holds at every moment of every session.
THEOREM Invariance == Spec => []Inv
BY InitInv, Inductive, PTL DEF Spec

\* Every variable keeps its type.
THEOREM TypeCorrect == Spec => []TypeOK
<1>1. Inv => TypeOK
  BY DEF Inv
<1> QED
  BY <1>1, Invariance, PTL

\* Whatever the two users configured, two endpoints that exist show each other
\* what each was told to expect (control/endpoint.rs, util/cert.rs): the type
\* of credentials chosen for the message is the type chosen for TLS.
THEOREM HandshakeSucceeds == Spec => []CredentialsAccepted
<1>1. Inv => CredentialsAccepted
  <2> SUFFICES ASSUME Inv, cpc = "connect", spc = "accept", NEW side \in Side
               PROVE  Accepts(ep[side].trust, ep[Peer(side)].shows)
    BY DEF CredentialsAccepted
  <2>1. Made("c") /\ Made("s")
    BY DEF Inv, Endpoints
  <2>2. Made(side) /\ Made(Peer(side)) /\ Peer(side) \in Side
    BY <2>1 DEF Side, Peer
  <2> QED
    BY <2>2, MadeFacts DEF Accepts
<1> QED
  BY <1>1, Invariance, PTL

\* The suite of the connection is one both sides have, and which one it is: in
\* every case but one the suite that protocol/mod.rs promises; AES128 where a
\* client forces AES256 on a server without AES hardware (control/crypto.rs
\* select_cipher_suites and ignore_client_order).
THEOREM SuiteIsPreferred == Spec => []SuitePreferred
<1>1. Inv => SuitePreferred
  <2> SUFFICES ASSUME Inv, cpc = "up" PROVE SuitePreferred
    BY DEF SuitePreferred
  <2>1. Made("c") /\ Made("s") /\ suite = Chosen(ep["c"], ep["s"])
    BY DEF Inv, Endpoints, Connected
  <2>2. /\ ep["c"].suites = select_cipher_suites(pref["c"])
        /\ ep["s"].suites = select_cipher_suites(pref["s"])
        /\ ep["s"].serverOrder = ignore_client_order(pref["s"])
    BY <2>1, MadeFacts DEF Side, ignore_client_order
  <2>3. pref["c"] \in Preference /\ pref["s"] \in Preference
    BY DEF Inv, Given, Side
  <2> DEFINE c == pref["c"]
             s == pref["s"]
  <2>4. /\ suite = IF s.aes256 THEN "aes256"
                   ELSE IF ~s.cpu_supports_aes
                        THEN IF c.aes256 THEN "aes128" ELSE "chacha20"
                        ELSE IF c.aes256 THEN "aes256"
                             ELSE IF c.cpu_supports_aes THEN "aes128" ELSE "chacha20"
        /\ Contains(ep["c"].suites, suite) /\ Contains(ep["s"].suites, suite)
    BY <2>1, <2>2, <2>3, ChosenIs
  <2>5. /\ c.aes256 \in BOOLEAN /\ c.cpu_supports_aes \in BOOLEAN
        /\ s.aes256 \in BOOLEAN /\ s.cpu_supports_aes \in BOOLEAN
    BY <2>3 DEF Preference
  <2> QED
    BY <2>4, <2>5 DEF SuitePreferred
<1> QED
  BY <1>1, Invariance, PTL

\* A warning is given exactly for the buffer that the payload goes through
\* (util/socket.rs set_udp_buffer_sizes, control/endpoint.rs create_endpoint).
THEOREM BuffersAreTold == Spec => []ShortBuffersAreTold
<1>1. Inv => ShortBuffersAreTold
  <2> SUFFICES ASSUME Inv PROVE ShortBuffersAreTold
    OBVIOUS
  <2>1. dir \in {"put", "get"}
    BY DEF Inv, Given
  <2>2. ASSUME ep["c"] # NoEndpoint
        PROVE  ep["c"].warning <=>
                 (IF dir = "put" THEN ep["c"].sendBuffer ELSE ep["c"].recvBuffer) < UdpBuffer
    <3>1. PICK k \in Kernel : /\ ep["c"].sendBuffer = SendBuffer("c", k)
                              /\ ep["c"].recvBuffer = RecvBuffer("c", k)
                              /\ ep["c"].warning = ShortBuffers("c", k)
      BY <2>2, MadeFacts DEF Inv, Endpoints, Side
    <3> QED
      BY <2>1, <3>1 DEF ShortBuffers, Mode, client_mode
  <2>3. ASSUME ep["s"] # NoEndpoint
        PROVE  ep["s"].warning <=>
                 (IF dir = "put" THEN ep["s"].recvBuffer ELSE ep["s"].sendBuffer) < UdpBuffer
    <3>1. PICK k \in Kernel : /\ ep["s"].sendBuffer = SendBuffer("s", k)
                              /\ ep["s"].recvBuffer = RecvBuffer("s", k)
                              /\ ep["s"].warning = ShortBuffers("s", k)
      BY <2>3, MadeFacts DEF Inv, Endpoints, Side
    <3> QED
      BY <2>1, <3>1 DEF ShortBuffers, Mode, server_mode
  <2> QED
    BY <2>2, <2>3 DEF ShortBuffersAreTold
<1> QED
  BY <1>1, Invariance, PTL

\* As much payload may be in flight as the agreed bandwidth and round-trip time
\* call for, and the other direction has quinn's default (transport.rs
\* create_config, structure.rs send_window and recv_window).
THEOREM CapacityIsAgreed == Spec => []PayloadCapacity
<1>1. Inv => PayloadCapacity
  <2> SUFFICES ASSUME Inv, cpc = "up" PROVE PayloadCapacity
    BY DEF PayloadCapacity
  <2>1. Made("c") /\ Made("s")
    BY DEF Inv, Endpoints, Connected
  <2>2. /\ ep["c"].sendWindow = SendWindow("c") /\ ep["c"].recvWindow = RecvWindow("c")
        /\ ep["s"].sendWindow = SendWindow("s") /\ ep["s"].recvWindow = RecvWindow("s")
    BY <2>1, MadeFacts DEF Side
  <2>3. dir \in {"put", "get"} /\ rate.up \in Rates /\ rate.down \in Rates /\ rtt \in Rtts
    BY DEF Inv, Given
  <2>4. CASE dir = "put"
    <3> DEFINE window == (rate.up * rtt) \div Scale
    <3>1. /\ ep["c"].sendWindow = 8 * window /\ ep["s"].recvWindow = window
          /\ ep["s"].sendWindow = 8 * DefaultWindow /\ ep["c"].recvWindow = DefaultWindow
      BY <2>2, <2>4 DEF SendWindow, RecvWindow, Mode, client_mode, server_mode,
         send_window, recv_window, tx, rx
    <3>2. /\ Lower(8 * window, window) = window
          /\ Lower(8 * DefaultWindow, DefaultWindow) = DefaultWindow
      BY <2>3, WindowFacts
    <3>3. Peer("c") = "s" /\ Peer("s") = "c"
      BY DEF Peer
    <3> HIDE DEF window
    <3>4. /\ Lower(ep["c"].sendWindow, ep["s"].recvWindow) = window
          /\ Lower(ep["s"].sendWindow, ep["c"].recvWindow) = DefaultWindow
      BY <3>1, <3>2
    <3> QED
      BY <2>4, <3>3, <3>4 DEF PayloadCapacity, window
  <2>5. CASE dir = "get"
    <3> DEFINE window == (rate.down * rtt) \div Scale
    <3>1. /\ ep["s"].sendWindow = 8 * window /\ ep["c"].recvWindow = window
          /\ ep["c"].sendWindow = 8 * DefaultWindow /\ ep["s"].recvWindow = DefaultWindow
      BY <2>2, <2>5 DEF SendWindow, RecvWindow, Mode, client_mode, server_mode,
         send_window, recv_window, tx, rx
    <3>2. /\ Lower(8 * window, window) = window
          /\ Lower(8 * DefaultWindow, DefaultWindow) = DefaultWindow
      BY <2>3, WindowFacts
    <3>3. Peer("c") = "s" /\ Peer("s") = "c"
      BY DEF Peer
    <3> HIDE DEF window
    <3>4. /\ Lower(ep["s"].sendWindow, ep["c"].recvWindow) = window
          /\ Lower(ep["c"].sendWindow, ep["s"].recvWindow) = DefaultWindow
      BY <3>1, <3>2
    <3> QED
      BY <2>5, <3>3, <3>4 DEF PayloadCapacity, window
  <2> QED
    BY <2>3, <2>4, <2>5
<1> QED
  BY <1>1, Invariance, PTL
=============================================================================
