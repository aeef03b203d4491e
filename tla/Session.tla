------------------------------ MODULE Session ------------------------------
(***************************************************************************)
(* One run of qcp, from the server's banner to the exit of both processes: *)
(* client/main_loop.rs `run` on one side, server/mod.rs `server_main_inner`*)
(* and server/connection.rs `handle_inner` on the other, and the control   *)
(* channel of control/channel.rs that runs between them over ssh.          *)
(*                                                                         *)
(*   client                                   server                       *)
(*              <- banner, greeting                                        *)
(*     greeting, client message ->            choose level, make endpoint  *)
(*              <- server message | failure   accept, or time out          *)
(*     connect (QUIC); requests, one          a detached handler for each  *)
(*     stream each                            stream                       *)
(*     close QUIC; read report   <- report    close, wait until idle       *)
(*                                                                         *)
(* A request is what modules Put and Get are about: the client may report  *)
(* it as done only after its handler's work is (Put!ConfirmationIsWhole).  *)
(* Each side runs this code, at its own compatibility level.               *)
(***************************************************************************)
EXTENDS Naturals, Sequences, FiniteSets

CONSTANTS Levels,       \* compatibility levels of the versions that may meet
          MaxRequests   \* bound on the requests of one run

ASSUME SessionAssumption == /\ Levels \subseteq Nat \ {0}
                            /\ MaxRequests \in Nat

VARIABLES
  lev,      \* OUR_COMPATIBILITY_NUMERIC of each side
  cfg,      \* client options: NewReno, raw public keys, dry run
  ssh,      \* the ssh process that carries the control channel: "up", "down"
  toC, toS, \* control messages on their way to the client, to the server
  cpc, spc, \* next await of each side, or how its process ended
  sel,      \* selected_compat of each side; 0 is Compatibility::Unknown
  link,     \* the UDP path: "ok" or "cut"
  qc, qs,   \* the QUIC connection as each side sees it
  n,        \* requests for which the client has opened a stream
  failed,   \* overall_success and full_success are not both true
  told,     \* result of each request, as the client was told
  handler,  \* server: the task of each request
  work      \* server: that task has done what the request asks for

ctrl  == <<ssh, toC, toS, sel>>
quic  == <<link, qc, qs>>
reqs  == <<n, failed, told>>
tasks == <<handler, work>>
given == <<lev, cfg>>
vars  == <<given, ctrl, cpc, spc, quic, reqs, tasks>>

Requests == 1..MaxRequests
Ended    == {"ok", "failed"}
Live     == {"running", "worked"}

Init == /\ lev \in [c : Levels, s : Levels]
        /\ cfg \in [newReno : BOOLEAN, rawKey : BOOLEAN, dry : BOOLEAN]
        /\ ssh = "up"
        /\ toC = <<>> /\ toS = <<>>
        /\ cpc = "banner" /\ spc = "start"
        /\ sel = [c |-> 0, s |-> 0]
        /\ link = "ok" /\ qc = "none" /\ qs = "none"
        /\ n = 0
        /\ failed \in BOOLEAN           \* prep: some sources were skipped
        /\ told = [k \in Requests |-> "none"]
        /\ handler = [k \in Requests |-> "none"]
        /\ work = [k \in Requests |-> FALSE]

-----------------------------------------------------------------------------
(* Compatibility.                                                          *)

\* choose_compatibility_level
Chosen(ours, theirs) == IF theirs < ours THEN theirs ELSE ours

NEW_RENO    == 2
CMSG_SMSG_2 == 3

\* Plausible bug: off by one level.
FormOneTooEarly(level) == IF level + 1 >= CMSG_SMSG_2 THEN "V2" ELSE "V1"

\* The control message a side of this level sends, and the credentials in it.
\* cfg.rawKey is a --tls-auth-type of RawPublicKey; that a side may ask for X509,
\* and may ask for something else than the other, is left to Endpoint.
Form(level)  == IF level >= CMSG_SMSG_2 THEN "V2" ELSE "V1"
Creds(level) == IF cfg.rawKey \/ level >= CMSG_SMSG_2 THEN "rawKey" ELSE "X509"

Message(level) == [kind |-> "message", form |-> Form(level),
                   creds |-> Creds(level)]
Greeting(level) == [kind |-> "greeting", level |-> level]

\* A program of level l knows the form of the message and its credentials.
Understands(l, m) == m.form = "V2" \/ m.creds = "rawKey" => l >= CMSG_SMSG_2

-----------------------------------------------------------------------------
(* The client: run_client, then run.                                       *)

\* The client returns from `run`: dropping the ProcessWrapper kills ssh, and
\* dropping the endpoint closes what QUIC connection there was.
CExit(result) == /\ cpc' = result
                 /\ ssh' = "down"
                 /\ qc' = IF qc = "none" THEN "none" ELSE "closed"

CSend(from, m, to) == /\ cpc = from
                      /\ ssh = "up" /\ spc \notin Ended
                      /\ toS' = Append(toS, m)
                      /\ cpc' = to
                      /\ UNCHANGED <<given, ssh, toC, spc, sel, quic, reqs, tasks>>

CBanner == /\ cpc = "banner"
           /\ toC # <<>> /\ Head(toC).kind = "banner"
           /\ toC' = Tail(toC)
           /\ cpc' = "greet"
           /\ UNCHANGED <<given, ssh, toS, spc, sel, quic, reqs, tasks>>

CSendGreeting == CSend("greet", Greeting(lev.c), "greeted")

CReadGreeting == /\ cpc = "greeted"
                 /\ toC # <<>>
                 /\ sel' = [sel EXCEPT !.c = Chosen(lev.c, Head(toC).level)]
                 /\ toC' = Tail(toC)
                 /\ cpc' = "message"
                 /\ UNCHANGED <<given, ssh, toS, spc, quic, reqs, tasks>>

\* client_send_message and to_tagged_data bail before anything is sent.
Unsupported == \/ cfg.newReno /\ sel.c < NEW_RENO
               \/ cfg.rawKey /\ sel.c < CMSG_SMSG_2

CSendMessage == ~Unsupported /\ CSend("message", Message(sel.c), "await")

CCannotSend == /\ cpc = "message"
               /\ Unsupported
               /\ CExit("failed")
               /\ UNCHANGED <<given, toC, toS, spc, sel, link, qs, reqs, tasks>>

\* The server message leads to the data channel, or in a dry run to the end.
CReadMessage == /\ cpc = "await"
                /\ toC # <<>>
                /\ toC' = Tail(toC)
                /\ CASE Head(toC).kind = "failure" -> CExit("failed")
                     [] Head(toC).kind = "message" /\ cfg.dry ->
                          CExit(IF failed THEN "failed" ELSE "ok")
                     [] OTHER -> cpc' = "connect" /\ UNCHANGED <<ssh, qc>>
                /\ UNCHANGED <<given, toS, spc, sel, link, qs, reqs, tasks>>

\* End of file or an error on a pipe of the control channel; the rest of the
\* banner not arriving in time is one more.
CPipeFails == /\ cpc \in {"banner", "greet", "greeted", "message", "await",
                          "report"}
              /\ \/ ssh = "down"
                 \/ spc \in Ended /\ (toC = <<>> \/ cpc \in {"greet", "message"})
                 \/ cpc = "banner" /\ toC # <<>>
              /\ CExit("failed")
              /\ UNCHANGED <<given, toC, toS, spc, sel, link, qs, reqs, tasks>>

CConnect == /\ cpc = "connect"
            /\ qc' = "connecting"
            /\ cpc' = "connecting"
            /\ UNCHANGED <<given, ctrl, spc, link, qs, reqs, tasks>>

CConnected == /\ cpc = "connecting"
              /\ spc = "handshake" /\ link = "ok"
              /\ qc' = "up"
              /\ cpc' = "run"
              /\ UNCHANGED <<given, ctrl, spc, link, qs, reqs, tasks>>

\* create_quic_endpoint fails, or the connection is refused or times out.
CConnectFails == /\ cpc \in {"connect", "connecting"}
                 /\ CExit("failed")
                 /\ UNCHANGED <<given, toC, toS, spc, sel, link, qs, reqs, tasks>>

\* max_concurrent_bidi_streams: a stream counts until its handler is dropped.
StreamLimit == 1
Unretired   == {k \in 1..n : handler[k] # "ended"}

\* open_stream().await: for the next request, of whichever phase.
CNext == /\ cpc = "run"
         /\ n < MaxRequests
         /\ cpc' = "open"
         /\ UNCHANGED <<given, ctrl, spc, quic, reqs, tasks>>

COpened == /\ cpc = "open"
           /\ qc = "up"
           /\ Cardinality(Unretired) < StreamLimit
           /\ n' = n + 1
           /\ cpc' = "request"
           /\ UNCHANGED <<given, ctrl, spc, quic, failed, told, tasks>>

\* No stream, or no file listing: fatal, there is no closedown.
CFatal == /\ \/ cpc = "open" /\ qc = "lost"
             \/ cpc = "request"
          /\ CExit("failed")
          /\ UNCHANGED <<given, toC, toS, spc, sel, link, qs, reqs, tasks>>

CRequestOk == /\ cpc = "request"
              /\ qc = "up"
              /\ work[n]
              /\ told' = [told EXCEPT ![n] = "ok"]
              /\ cpc' = "run"
              /\ UNCHANGED <<given, ctrl, spc, quic, n, failed, tasks>>

\* After a failure the client goes on with directory metadata, or closes.
CRequestFails == /\ cpc = "request"
                 /\ told' = [told EXCEPT ![n] = "failed"]
                 /\ failed' = TRUE
                 /\ cpc' = "run"
                 /\ UNCHANGED <<given, ctrl, spc, quic, n, tasks>>

\* closedown: close QUIC, then wait for the report with no time limit.
CClose == /\ cpc = "run"
          /\ qc' = "closed"
          /\ cpc' = "report"
          /\ UNCHANGED <<given, ctrl, spc, link, qs, reqs, tasks>>

CReport == /\ cpc = "report"
           /\ toC # <<>>
           /\ toC' = Tail(toC)
           /\ cpc' = "linger"
           /\ UNCHANGED <<given, ssh, toS, spc, sel, quic, reqs, tasks>>

\* Plausible bug: a closedown that goes well is a run that went well.
CFinishWell == /\ cpc = "linger"
               /\ CExit("ok")
               /\ UNCHANGED <<given, toC, toS, spc, sel, link, qs, reqs, tasks>>

\* The waits for QUIC and for ssh to end are both limited by the timeout.
CFinish == /\ cpc = "linger"
           /\ CExit(IF failed THEN "failed" ELSE "ok")
           /\ UNCHANGED <<given, toC, toS, spc, sel, link, qs, reqs, tasks>>

CQuicLost == /\ qc = "up"
             /\ link = "cut" \/ qs = "closed"
             /\ qc' = "lost"
             /\ UNCHANGED <<given, ctrl, cpc, spc, link, qs, reqs, tasks>>

-----------------------------------------------------------------------------
(* The server: run_server, then server_main_inner.                         *)

\* The process ends, and the runtime drops the handlers that still run.
SExit(result) == /\ spc' = result
                 /\ qs' = "closed"
                 /\ handler' = [k \in Requests |->
                                  IF handler[k] \in Live THEN "cut"
                                  ELSE handler[k]]

SSend(from, m, to) == /\ spc = from
                      /\ ssh = "up"
                      /\ toC' = Append(toC, m)
                      /\ spc' = to
                      /\ UNCHANGED <<given, ssh, toS, cpc, sel, quic, reqs, tasks>>

SBanner   == SSend("start", [kind |-> "banner"], "greet")
SGreeting == SSend("greet", Greeting(lev.s), "greeted")

SReadGreeting == /\ spc = "greeted"
                 /\ toS # <<>>
                 /\ sel' = [sel EXCEPT !.s = Chosen(lev.s, Head(toS).level)]
                 /\ toS' = Tail(toS)
                 /\ spc' = "message"
                 /\ UNCHANGED <<given, ssh, toC, cpc, quic, reqs, tasks>>

Failure(why) == [kind |-> "failure", why |-> why]

SReadMessage ==
  /\ spc = "message"
  /\ toS # <<>>
  /\ toS' = Tail(toS)
  /\ IF Understands(lev.s, Head(toS))
     THEN spc' = "prepare" /\ UNCHANGED <<toC, qs, handler>>
     ELSE SExit("failed") /\ toC' = Append(toC, Failure("malformed"))
  /\ UNCHANGED <<given, ssh, cpc, sel, link, qc, reqs, work>>

\* End of file or a broken pipe: a failure message cannot be sent either.
SPipeFails == /\ spc \in {"start", "greet", "greeted", "message", "prepare",
                          "report"}
              /\ ssh = "down"
              /\ SExit("failed")
              /\ UNCHANGED <<given, ctrl, cpc, link, qc, reqs, work>>

\* combine_bandwidth_configurations or create_endpoint refuses.
SRefuse == /\ spc = "prepare"
           /\ ssh = "up"
           /\ toC' = Append(toC, Failure("refused"))
           /\ SExit("failed")
           /\ UNCHANGED <<given, ssh, toS, sel, cpc, link, qc, reqs, work>>

\* setup_tracing, Credentials or to_tagged_data fails: no message is sent.
SGivesUp == /\ spc \in {"message", "prepare"}
            /\ SExit("failed")
            /\ UNCHANGED <<given, ctrl, cpc, link, qc, reqs, work>>

SSendMessage == SSend("prepare", Message(sel.s), "accept")

\* endpoint.accept(): the first packet of the client has arrived.
SAccept == /\ spc = "accept"
           /\ qc \in {"connecting", "closed"} /\ link = "ok"
           /\ spc' = "handshake"
           /\ UNCHANGED <<given, ctrl, cpc, quic, reqs, tasks>>

\* Plausible bug: the timer of the accept is armed again for ever.
SAcceptTimeoutRearms == spc = "accept" /\ UNCHANGED vars

SAcceptTimeout == /\ spc = "accept"
                  /\ SExit("failed")
                  /\ UNCHANGED <<given, ctrl, cpc, link, qc, reqs, work>>

SConnected == /\ spc = "handshake"
              /\ qc = "up" /\ link = "ok"
              /\ qs' = "up"
              /\ spc' = "serve"
              /\ UNCHANGED <<given, ctrl, cpc, link, qc, reqs, tasks>>

SLeavesLoop(from) == /\ spc = from
                     /\ spc' = "drain"
                     /\ UNCHANGED <<given, ctrl, cpc, quic, reqs, tasks>>

\* The handshake does not complete: the report will have default statistics.
SHandshakeFails == SLeavesLoop("handshake")

\* accept_bi fails with ApplicationClosed, or when the connection is lost.
SSeesClose == qc = "closed" /\ link = "ok" /\ SLeavesLoop("serve")
SQuicLost  == (link = "cut" \/ qc # "up") /\ SLeavesLoop("serve")

\* endpoint.close and wait_idle.  Only the accept loop is in the JoinSet:
\* nothing waits for the handlers it has spawned.
SDrain == /\ spc = "drain"
          /\ qs' = "closed"
          /\ spc' = "report"
          /\ UNCHANGED <<given, ctrl, cpc, link, qc, reqs, tasks>>

SReport == SSend("report", [kind |-> "report"], "leaving")

SLeave == /\ spc = "leaving"
          /\ SExit("ok")
          /\ UNCHANGED <<given, ctrl, cpc, link, qc, reqs, work>>

-----------------------------------------------------------------------------
(* The server's handlers: tasks spawned by handle_inner and not joined.    *)

\* Plausible bug: the accept loop outlives the closedown.
HStartAlways(k) == /\ spc \notin {"start", "greet"}
                   /\ k <= n
                   /\ handler[k] = "none"
                   /\ handler' = [handler EXCEPT ![k] = "running"]
                   /\ UNCHANGED <<given, ctrl, cpc, spc, quic, reqs, work>>

\* accept_bi returns streams in the order they were opened.
HStart(k) == /\ spc = "serve"
             /\ k <= n
             /\ handler[k] = "none"
             /\ \A j \in 1..k - 1 : handler[j] # "none"
             /\ handler' = [handler EXCEPT ![k] = "running"]
             /\ UNCHANGED <<given, ctrl, cpc, spc, quic, reqs, work>>

HWork(k) == /\ handler[k] = "running"
            /\ handler' = [handler EXCEPT ![k] = "worked"]
            /\ work' = [work EXCEPT ![k] = TRUE]
            /\ UNCHANGED <<given, ctrl, cpc, spc, quic, reqs>>

\* The handler is done, or fails.
HEnd(k) == /\ handler[k] \in Live
           /\ handler' = [handler EXCEPT ![k] = "ended"]
           /\ UNCHANGED <<given, ctrl, cpc, spc, quic, reqs, work>>

-----------------------------------------------------------------------------
(* What may go wrong around them.                                          *)

SshDies == /\ ssh = "up"
           /\ ssh' = "down"
           /\ UNCHANGED <<given, toC, toS, sel, cpc, spc, quic, reqs, tasks>>

LinkCut == /\ link = "ok"
           /\ link' = "cut"
           /\ UNCHANGED <<given, ctrl, cpc, spc, qc, qs, reqs, tasks>>

-----------------------------------------------------------------------------
ClientNext == \/ CBanner \/ CSendGreeting \/ CReadGreeting \/ CSendMessage
              \/ CCannotSend \/ CReadMessage \/ CPipeFails
              \/ CConnect \/ CConnected \/ CConnectFails
              \/ CNext \/ COpened \/ CFatal \/ CRequestOk \/ CRequestFails
              \/ CClose \/ CReport \/ CFinish \/ CQuicLost

ServerNext == \/ SBanner \/ SGreeting \/ SReadGreeting \/ SReadMessage
              \/ SPipeFails \/ SRefuse \/ SGivesUp \/ SSendMessage
              \/ SAccept \/ SAcceptTimeout \/ SConnected \/ SHandshakeFails
              \/ SSeesClose \/ SQuicLost \/ SDrain \/ SReport \/ SLeave

HandlerNext(k) == HStart(k) \/ HWork(k) \/ HEnd(k)

Over == cpc \in Ended /\ spc \in Ended /\ UNCHANGED vars

Next == \/ ClientNext \/ ServerNext
        \/ \E k \in Requests : HandlerNext(k)
        \/ SshDies \/ LinkCut
        \/ Over

\* The async runtimes keep polling both programs and every handler, and
\* timers fire; ssh dying and the UDP path failing need not happen.
Fairness == /\ WF_vars(ClientNext) /\ WF_vars(ServerNext)
            /\ \A k \in Requests : WF_vars(HandlerNext(k))

Spec == Init /\ [][Next]_vars /\ Fairness
-----------------------------------------------------------------------------
(* What must hold.                                                         *)

ControlMessage ==
  [kind : {"banner", "report"}]
    \cup [kind : {"greeting"}, level : Levels]
    \cup [kind : {"message"}, form : {"V1", "V2"}, creds : {"rawKey", "X509"}]
    \cup [kind : {"failure"}, why : {"malformed", "refused"}]

TypeOK == /\ lev \in [c : Levels, s : Levels]
          /\ cfg \in [newReno : BOOLEAN, rawKey : BOOLEAN, dry : BOOLEAN]
          /\ toC \in Seq(ControlMessage) /\ toS \in Seq(ControlMessage)
          /\ ssh \in {"up", "down"} /\ link \in {"ok", "cut"}
          /\ cpc \in {"banner", "greet", "greeted", "message", "await",
                      "connect", "connecting", "run", "open", "request",
                      "report", "linger"} \cup Ended
          /\ spc \in {"start", "greet", "greeted", "message", "prepare",
                      "accept", "handshake", "serve", "drain", "report",
                      "leaving"} \cup Ended
          /\ sel \in [c : {0} \cup Levels, s : {0} \cup Levels]
          /\ failed \in BOOLEAN
          /\ qc \in {"none", "connecting", "up", "lost", "closed"}
          /\ qs \in {"none", "up", "closed"}
          /\ n \in 0..MaxRequests
          /\ told \in [Requests -> {"none", "ok", "failed"}]
          /\ handler \in [Requests -> {"none", "ended", "cut"} \cup Live]
          /\ work \in [Requests -> BOOLEAN]
          /\ \A k \in Requests : k > n => handler[k] = "none" /\ ~work[k]

\* No message, and no type of credentials, reaches a version that does not
\* know it; so the server never finds a client message malformed.
FormsUnderstood ==
  /\ \A i \in DOMAIN toC : toC[i].kind = "message" => Understands(lev.c, toC[i])
  /\ \A i \in DOMAIN toS : toS[i].kind = "message" => Understands(lev.s, toS[i])
  /\ \A i \in DOMAIN toC : toC[i].kind = "failure" => toC[i].why # "malformed"

\* A client that ends well has been told so of every request, the work of
\* each was done on the server, and the server is done with the connection.
SuccessIsComplete ==
  cpc = "ok" /\ ~cfg.dry =>
    /\ \A k \in 1..n : told[k] = "ok" /\ work[k]
    /\ qs = "closed"
    /\ spc \in {"leaving", "ok"}

\* After the report nothing more is accepted, and once the client has ended
\* well nothing more is done for it.
NothingAfterSuccess ==
  [][(cpc = "ok" \/ spc \in {"leaving", "ok"}) =>
        (\A k \in Requests : handler[k] = "none" => handler'[k] = "none")
        /\ (cpc = "ok" => UNCHANGED work)]_vars

\* Whatever fails, both processes end: nobody waits for ever for a control
\* message, for a stream, for the report or for a handler.
BothExit == <>(cpc \in Ended /\ spc \in Ended)

-----------------------------------------------------------------------------
(* The inductive invariant behind the safety properties: how far each side *)
(* can be when the other is where it is, what the control channel carries  *)
(* between them then, and what the client knows of its requests.           *)

Agreed == Chosen(lev.c, lev.s)

\* The client has settled on the level and can be configured for it.
Ready == sel.c = Agreed /\ ~Unsupported

CData == {"connect", "connecting", "run", "open", "request", "report", "linger"}
SGreets == {"start", "greet", "greeted"}
SData == {"handshake", "serve", "drain", "report", "leaving", "ok"}

Positions ==
  /\ cpc = "banner" => spc \in SGreets \cup {"failed"}
  /\ cpc = "greet" => spc \in {"greet", "greeted", "failed"}
  /\ cpc = "greeted" => spc \in {"greet", "greeted", "message", "failed"}
  /\ cpc = "message" => spc \in {"greeted", "message", "failed"}
  /\ cpc = "await" => spc \in {"greeted", "message", "prepare", "accept", "failed"}
  /\ cpc \in CData => spc \in SData \cup {"accept", "failed"}
  /\ cpc = "linger" => spc \in {"leaving", "ok"}
  /\ cpc = "ok" /\ ~cfg.dry => spc \in {"leaving", "ok"}

ToServer ==
  /\ cpc \in {"banner", "greet"} => Len(toS) = 0
  /\ cpc \in {"greeted", "message"} =>
       /\ spc \in SGreets => Len(toS) = 1
       /\ spc = "message" => Len(toS) = 0
  /\ spc \in SGreets =>
       /\ Len(toS) <= 2
       /\ Len(toS) >= 1 => toS[1] = Greeting(lev.c)
       /\ Len(toS) = 2 => Ready /\ toS[2] = Message(Agreed)
  /\ spc = "message" =>
       /\ Len(toS) <= 1
       /\ Len(toS) = 1 => Ready /\ toS[1] = Message(Agreed)

ToClient ==
  /\ cpc = "banner" =>
       /\ Len(toC) <= 2
       /\ spc = "start" => Len(toC) = 0
       /\ spc = "greet" => Len(toC) = 1
       /\ Len(toC) = 2 => toC[2] = Greeting(lev.s)
  /\ cpc \in {"greet", "greeted"} =>
       /\ Len(toC) <= 1
       /\ spc = "greet" => Len(toC) = 0
       /\ Len(toC) = 1 => toC[1] = Greeting(lev.s)
  /\ cpc = "message" => Len(toC) = 0
  /\ cpc = "await" =>
       /\ Len(toC) <= 1
       /\ spc \in {"greeted", "message", "prepare"} => Len(toC) = 0
       /\ Len(toC) = 1 => toC[1].kind \in {"message", "failure"}
  /\ cpc \in CData =>
       /\ Len(toC) <= 1
       /\ spc \notin {"leaving", "ok"} => Len(toC) = 0

LevelsAgreed ==
  /\ cpc \in {"message", "await", "ok"} \cup CData => sel.c = Agreed
  /\ spc \in {"message", "prepare", "accept"} \cup SData => sel.s = Agreed
  /\ spc \in {"prepare", "accept"} \cup SData => Ready

DataChannel ==
  /\ cpc \in {"banner", "greet", "greeted", "message", "await", "connect"} =>
       qc = "none"
  /\ qc = "none" => n = 0 /\ spc \notin SData
  /\ cfg.dry => qc = "none" /\ cpc \notin CData
  /\ cpc = "connecting" => n = 0
  /\ cpc = "open" => n < MaxRequests
  /\ spc \in {"report", "leaving", "ok", "failed"} => qs = "closed"

Outcomes ==
  /\ \A k \in Requests : told[k] = "ok" => work[k]
  /\ cpc \in {"run", "open", "report", "linger", "ok"} /\ ~failed =>
       \A k \in 1..n : told[k] = "ok"
  /\ cpc = "request" /\ ~failed => \A k \in 1..n - 1 : told[k] = "ok"
  /\ cpc = "ok" => ~failed

Inv == /\ TypeOK
       /\ Positions
       /\ ToServer
       /\ ToClient
       /\ LevelsAgreed
       /\ FormsUnderstood
       /\ DataChannel
       /\ Outcomes
=============================================================================
