---------------------------- MODULE Negotiation ----------------------------
(***************************************************************************)
(* How client and server agree on the parameters of the connection:        *)
(* control/channel.rs `run_client` and `run_server_inner`, with the        *)
(* messages of protocol/control and transport.rs                           *)
(* `combine_bandwidth_configurations`.                                     *)
(*                                                                         *)
(*   client message (preferences)  ->                                      *)
(*                                 <-  server message (result) | failure   *)
(*                                                                         *)
(* A set of preferences is a partial function from keys to values, as it   *)
(* is in figment: a key outside its domain is one the user said nothing    *)
(* about.  The greetings came before (module Session), so both sides have  *)
(* selected the same `level`.                                              *)
(***************************************************************************)
EXTENDS Naturals, FiniteSets

CONSTANTS
  Bandwidth, Rtt, Window, Timeout,   \* the values a user may ask for
  Port,                \* UDP ports of the server
  Levels,              \* compatibility levels that may be selected
  MinimumBandwidth,    \* structure.rs MINIMUM_BANDWIDTH
  MaxU64,              \* largest bandwidth delay product
  DefaultRx, DefaultRtt, DefaultTimeout,
  MaxPreferences       \* each side asks for at most so many parameters

ASSUME ValuesAssumption ==
  /\ Bandwidth \subseteq Nat /\ Rtt \subseteq Nat
  /\ Window \subseteq Nat /\ Timeout \subseteq Nat
  /\ Port \subseteq Nat \ {0}
  /\ Levels \subseteq Nat
  /\ MinimumBandwidth \in Nat \ {0} /\ MaxU64 \in Nat

ASSUME DefaultAssumption ==
  /\ DefaultRx \in Nat /\ DefaultRtt \in Nat /\ DefaultTimeout \in Nat
  /\ DefaultRx >= MinimumBandwidth /\ DefaultRtt > 0
  /\ DefaultRx * DefaultRtt <= MaxU64

VARIABLES
  level,     \* selected compatibility level
  client,    \* what the client's user asked for; "port" is remote_port
  server,    \* what the server's configuration files ask for
  cpc, spc,  \* next step of each side
  request,   \* the client message, in the server's terms
  sconf,     \* the server's final configuration
  taken,     \* ports of the range that could not be had at bind time
  bound,     \* the port of the server's endpoint
  warning,   \* create_endpoint returned a warning
  reply,     \* what the server sent back
  cconf,     \* the client's final configuration
  warned     \* the client showed the server's warning

vars == <<level, client, server, cpc, spc, request, sconf, taken, bound,
          warning, reply, cconf, warned>>

Algorithm == {"cubic", "bbr", "newreno"}
PortRange == {r \in [begin : Port \cup {0}, end : Port \cup {0}] :
                /\ r.begin <= r.end
                /\ r.begin = 0 => r.end = 0}
AnyPort == [begin |-> 0, end |-> 0]

Configuration ==
  [rx : Nat, tx : Nat, rtt : Nat, congestion : Algorithm,
   initial_congestion_window : Nat, port : PortRange, timeout : Nat]

SystemDefault ==
  [rx |-> DefaultRx, tx |-> 0, rtt |-> DefaultRtt, congestion |-> "cubic",
   initial_congestion_window |-> 0, port |-> AnyPort,
   timeout |-> DefaultTimeout]

Keys == DOMAIN SystemDefault

\* What a user can write down: some of the keys, with values of their kind.
Preferences ==
  {[k \in K |-> full[k]] :
     K \in {S \in SUBSET Keys : Cardinality(S) <= MaxPreferences},
     full \in [rx : Bandwidth, tx : Bandwidth, rtt : Rtt,
               congestion : Algorithm, initial_congestion_window : Window,
               port : PortRange, timeout : Timeout]}

\* One layer of preferences put over another.
Over(f, g) == [k \in DOMAIN f \cup DOMAIN g |->
                 IF k \in DOMAIN f THEN f[k] ELSE g[k]]

\* The accessor tx(): the configuration's tx, or its rx where tx is 0.
Tx(c) == IF c.tx = 0 THEN c.rx ELSE c.tx

Valid(c) == /\ c.rx >= MinimumBandwidth
            /\ c.rtt > 0
            /\ c.rx * c.rtt <= MaxU64
            /\ Tx(c) >= MinimumBandwidth
            /\ Tx(c) * c.rtt <= MaxU64

SupportsNewReno(l) == l >= 2
SupportsMessage2(l) == l >= 3

----------------------------------------------------------------------------
(* The client message.  Its attribute BandwidthToServer is the server's    *)
(* rx, BandwidthToClient the server's tx.                                   *)

BandwidthToServer(l, p) ==
  IF "tx" \in DOMAIN p /\ p["tx"] # 0 THEN {p["tx"]}
  ELSE IF SupportsMessage2(l) /\ "rx" \in DOMAIN p THEN {p["rx"]}
  ELSE {}

ClientMessage(l, p) ==
  LET toServer == BandwidthToServer(l, p)
      toClient == IF "rx" \in DOMAIN p THEN {p["rx"]} ELSE {}
      asked == (DOMAIN p \ {"rx", "tx"})
                 \cup {k \in {"rx"} : toServer # {}}
                 \cup {k \in {"tx"} : toClient # {}}
  IN [k \in asked |-> CASE k = "rx" -> CHOOSE v \in toServer : TRUE
                        [] k = "tx" -> CHOOSE v \in toClient : TRUE
                        [] OTHER -> p[k]]

----------------------------------------------------------------------------
(* Combination, on the server.  c is the client's value, s the server's.   *)

Lower(a, b)  == IF a < b THEN a ELSE b
Higher(a, b) == IF a < b THEN b ELSE a

Intersection(a, b) == [begin |-> Higher(a.begin, b.begin),
                       end |-> Lower(a.end, b.end)]

Satisfiable(a, b) == \/ a = AnyPort \/ b = AnyPort
                     \/ Intersection(a, b).begin <= Intersection(a, b).end

Conflicts(c, s) == {k \in DOMAIN c \cap DOMAIN s : c[k] # s[k]}

\* The conflicts that resolve_conflict cannot settle.
Failures(c, s) ==
  {k \in Conflicts(c, s) :
     \/ k = "congestion"
     \/ k = "port" /\ ~Satisfiable(c[k], s[k])}

\* Plausible bug: a zero of the server's is taken for a preference.
ClientPicksOverZero(c, s) ==
  (DOMAIN c \ DOMAIN s)
    \cup {k \in Conflicts(c, s) : k \in {"rtt", "timeout"}}

\* client_picks: asked for by the client alone, or settled in its favour.
ClientPicks(c, s) ==
  (DOMAIN c \ DOMAIN s)
    \cup {k \in Conflicts(c, s) :
            \/ k \in {"rtt", "timeout"}
            \/ k \in {"rx", "tx"} /\ c[k] # 0 /\ s[k] = 0}

\* negotiated: settled by a value made of both.
Negotiated(c, s) ==
  {k \in Conflicts(c, s) :
     \/ k \in {"rx", "tx"} /\ c[k] # 0 /\ s[k] # 0
     \/ k = "port"}

\* Plausible bug: the server's own range wins.
CompromiseOurs(k, c, s) == IF k # "port" THEN Lower(c, s) ELSE s
Compromise(k, c, s) ==
  IF k # "port" THEN Lower(c, s)
  ELSE IF c = AnyPort THEN s
  ELSE IF s = AnyPort THEN c
  ELSE Intersection(c, s)

Combine(c, s) ==
  Over([k \in Negotiated(c, s) |-> Compromise(k, c[k], s[k])],
       Over([k \in ClientPicks(c, s) |-> c[k]],
            Over(s, SystemDefault)))

----------------------------------------------------------------------------
(* The server message: both bandwidths and the RTT always, what is left    *)
(* out is what has the value the receiver is supposed to assume.           *)

MessageKeys(l, c) ==
  {"rx", "tx", "rtt"}
    \cup {k \in {"congestion"} : SupportsMessage2(l) => c[k] # "cubic"}
    \cup {k \in {"initial_congestion_window", "timeout"} : c[k] # 0}

\* Plausible bug: tx is sent as it is stored, where 0 means the same as rx.
ServerMessageRaw(l, c) ==
  [k \in MessageKeys(l, c) |-> CASE k = "tx" -> c.rx
                                 [] k = "rx" -> c.tx
                                 [] OTHER -> c[k]]

ServerMessage(l, c) ==
  [k \in MessageKeys(l, c) |-> CASE k = "tx" -> c.rx
                                 [] k = "rx" -> Tx(c)
                                 [] OTHER -> c[k]]

\* Message version 1 carries the warning, version 2 is made without it.
CarriesWarning(l) == ~SupportsMessage2(l)

----------------------------------------------------------------------------
NoReply == [kind |-> "none"]
Refusal(why) == [kind |-> "failure", why |-> why]
Result(l, c, p, w) ==
  [kind |-> "message", config |-> ServerMessage(l, c), port |-> p,
   warning |-> w /\ CarriesWarning(l)]

Init == /\ level \in Levels
        /\ client \in {p \in Preferences : Valid(Over(p, SystemDefault))}
        /\ server \in Preferences
        /\ cpc = "send" /\ spc = "read"
        /\ request = << >> /\ reply = NoReply
        /\ sconf = SystemDefault /\ cconf = SystemDefault
        /\ taken = {} /\ bound = 0
        /\ warning = FALSE /\ warned = FALSE

\* client_send_message
CSend ==
  /\ cpc = "send"
  /\ \/ Over(client, SystemDefault).congestion # "newreno"
     \/ SupportsNewReno(level)
  /\ request' = ClientMessage(level, client)
  /\ cpc' = "wait"
  /\ UNCHANGED <<level, client, server, spc, sconf, taken, bound, warning,
                 reply, cconf, warned>>

CRefuses ==
  /\ cpc = "send"
  /\ Over(client, SystemDefault).congestion = "newreno"
  /\ ~SupportsNewReno(level)
  /\ cpc' = "failed"
  /\ UNCHANGED <<level, client, server, spc, request, sconf, taken, bound,
                 warning, reply, cconf, warned>>

\* server_read_client_message: the pipe ends without a message.
SNoMessage ==
  /\ spc = "read" /\ cpc = "failed"
  /\ spc' = "failed"
  /\ reply' = Refusal("malformed")
  /\ UNCHANGED <<level, client, server, cpc, request, sconf, taken, bound,
                 warning, cconf, warned>>

\* Plausible bug: the combined configuration is not validated.
SCombineUnchecked ==
  /\ spc = "read" /\ cpc = "wait"
  /\ Failures(request, server) = {}
  /\ sconf' = Combine(request, server)
  /\ spc' = "bind"
  /\ UNCHANGED <<level, client, server, cpc, request, taken, bound, warning,
                 reply, cconf, warned>>

\* combine_bandwidth_configurations
SCombine ==
  /\ spc = "read" /\ cpc = "wait"
  /\ Failures(request, server) = {}
  /\ Valid(Combine(request, server))
  /\ sconf' = Combine(request, server)
  /\ spc' = "bind"
  /\ UNCHANGED <<level, client, server, cpc, request, taken, bound, warning,
                 reply, cconf, warned>>

SRefuses ==
  /\ spc = "read" /\ cpc = "wait"
  /\ \/ Failures(request, server) # {}
     \/ ~Valid(Combine(request, server))
  /\ spc' = "failed"
  /\ reply' = Refusal("negotiation")
  /\ UNCHANGED <<level, client, server, cpc, request, sconf, taken, bound,
                 warning, cconf, warned>>

\* The ports of a range, and those that bind_range_for_address tries.
Span(r) == IF r = AnyPort THEN Port ELSE {p \in Port : r.begin <= p /\ p <= r.end}
Tried(r) == IF r.begin = r.end THEN Span(r)
            ELSE {p \in Port : r.begin <= p /\ p < r.end}

\* For port 0 the system picks, in a range the first that can be had is it.
PortChoices(r, busy) ==
  IF r = AnyPort THEN Tried(r) \ busy
  ELSE {p \in Tried(r) \ busy : \A q \in Tried(r) \ busy : p <= q}

\* create_endpoint, with the check of create_config, then server_send_message
SBind ==
  /\ spc = "bind"
  /\ sconf.congestion = "newreno" => SupportsNewReno(level)
  /\ \E busy \in SUBSET Span(sconf.port), w \in BOOLEAN :
       \E p \in PortChoices(sconf.port, busy) :
         /\ taken' = busy /\ bound' = p /\ warning' = w
         /\ reply' = Result(level, sconf, p, w)
  /\ spc' = "serving"
  /\ UNCHANGED <<level, client, server, cpc, request, sconf, cconf, warned>>

SBindFails ==
  /\ spc = "bind"
  /\ \/ /\ sconf.congestion = "newreno" /\ ~SupportsNewReno(level)
        /\ taken' = {}
     \/ /\ sconf.congestion = "newreno" => SupportsNewReno(level)
        /\ \E busy \in SUBSET Span(sconf.port) :
             PortChoices(sconf.port, busy) = {} /\ taken' = busy
  /\ spc' = "failed"
  /\ reply' = Refusal("endpoint")
  /\ UNCHANGED <<level, client, server, cpc, request, sconf, bound, warning,
                 cconf, warned>>

\* client_read_server_message and the rest of run_client
CMerge ==
  /\ cpc = "wait" /\ reply.kind = "message"
  /\ cconf' = Over(reply.config, Over(client, SystemDefault))
  /\ warned' = reply.warning
  /\ cpc' = "done"
  /\ UNCHANGED <<level, client, server, spc, request, sconf, taken, bound,
                 warning, reply>>

CFails ==
  /\ cpc = "wait" /\ reply.kind = "failure"
  /\ cpc' = "failed"
  /\ UNCHANGED <<level, client, server, spc, request, sconf, taken, bound,
                 warning, reply, cconf, warned>>

Ended == /\ cpc \in {"done", "failed"} /\ spc \in {"serving", "failed"}
         /\ UNCHANGED vars

Next == \/ CSend \/ CRefuses \/ SNoMessage \/ SCombine \/ SRefuses
        \/ SBind \/ SBindFails \/ CMerge \/ CFails \/ Ended

Spec == Init /\ [][Next]_vars

----------------------------------------------------------------------------
PartialConfig(p) == /\ DOMAIN p \subseteq Keys
                    /\ \A k \in DOMAIN p : p[k] \in [rx |-> Nat, tx |-> Nat,
                         rtt |-> Nat, congestion |-> Algorithm,
                         initial_congestion_window |-> Nat,
                         port |-> PortRange, timeout |-> Nat][k]

\* The type of every variable.
TypeOK ==
  /\ level \in Levels
  /\ PartialConfig(client) /\ PartialConfig(server) /\ PartialConfig(request)
  /\ cpc \in {"send", "wait", "done", "failed"}
  /\ spc \in {"read", "bind", "serving", "failed"}
  /\ sconf \in Configuration /\ cconf \in Configuration
  /\ taken \subseteq Port /\ bound \in Port \cup {0}
  /\ warning \in BOOLEAN /\ warned \in BOOLEAN
  /\ \/ reply = NoReply
     \/ reply \in [kind : {"failure"},
                   why : {"malformed", "negotiation", "endpoint"}]
     \/ /\ reply.kind = "message" /\ PartialConfig(reply.config)
        /\ reply.port \in Port /\ reply.warning \in BOOLEAN

\* Once the client has merged the server message the two ends use the same
\* bandwidths, each the other's way round, the same RTT and the same congestion
\* controller.  The message leaves the controller out where it is the default
\* (server_msg.rs apply_config_attributes), which is right only because a
\* client that asked for another one has been refused.
EndsAgree ==
  cpc = "done" => /\ cconf.tx = sconf.rx
                  /\ cconf.rx = Tx(sconf)
                  /\ cconf.rtt = sconf.rtt
                  /\ cconf.congestion = sconf.congestion

\* The least of the values other than zero, zero if there is no other.
LeastIgnoringZero(S) ==
  IF S \subseteq {0} THEN 0
  ELSE CHOOSE v \in S \ {0} : \A w \in S \ {0} : v <= w

Said(f, k) == IF k \in DOMAIN f THEN {f[k]} ELSE {}

\* What the client's message and the server's files say of a parameter.
SaidOf(k) == Said(request, k) \cup Said(server, k)

\* The server's configuration is what the table above
\* combine_bandwidth_configurations promises, row by row, all layers taken
\* together: the system default where neither side said anything; the least
\* bandwidth, zeros ignored; the client's times; the one congestion controller
\* that was asked for; the ports that both ranges have, of which there are some,
\* AnyPort being no preference.  Of the initial congestion window it says that
\* somebody asked for it, not that the client's wish wins, as the table has it:
\* code and unit test let the server's win.
AgreesWithTable ==
  spc \in {"bind", "serving"} =>
    /\ \A k \in {"rx", "tx"} :
         sconf[k] = IF SaidOf(k) = {} THEN SystemDefault[k]
                    ELSE LeastIgnoringZero(SaidOf(k))
    /\ \A k \in {"rtt", "timeout"} :
         sconf[k] = Over(request, Over(server, SystemDefault))[k]
    /\ {sconf.congestion} = IF SaidOf("congestion") = {}
                            THEN {SystemDefault.congestion}
                            ELSE SaidOf("congestion")
    /\ sconf.initial_congestion_window \in
         IF SaidOf("initial_congestion_window") = {}
         THEN {SystemDefault.initial_congestion_window}
         ELSE SaidOf("initial_congestion_window")
    /\ LET ranges == SaidOf("port") \ {AnyPort}
       IN IF ranges = {} THEN sconf.port = AnyPort
          ELSE /\ sconf.port # AnyPort
               /\ Span(sconf.port) = {p \in Port : \A r \in ranges : p \in Span(r)}
               /\ Span(sconf.port) # {}

\* Nothing is agreed on that either user did not allow: the port is one that
\* both of the ranges have, and no bandwidth is above what its user gave for it,
\* zero for no opinion; the server's last word counts for a preference set to 0.
Permitted ==
  spc = "serving" =>
    /\ \A r \in Said(request, "port") \cup Said(server, "port") : bound \in Span(r)
    /\ \A k \in {"rx", "tx"} :
         \A v \in (Said(request, k) \cup Said(server, k)) \ {0} : (IF k = "rx" THEN sconf.rx ELSE Tx(sconf)) <= v

\* The client does not validate the configuration it puts together from the
\* server message, and need not: it always is valid.
ClientConfigValid == cpc = "done" => Valid(cconf)

\* port_range.rs: "Last number in the range, inclusive."  Binding fails only
\* if no port of the range, the last one included, could be had.
WholeRangeTried ==
  reply = Refusal("endpoint")
    /\ (sconf.congestion = "newreno" => SupportsNewReno(level))
    => Span(sconf.port) \subseteq taken

----------------------------------------------------------------------------
(* The inductive invariant behind the properties above: each message and   *)
(* each configuration is what it was computed from, which does not change  *)
(* once it has been used.                                                  *)

Asked == /\ Valid(Over(client, SystemDefault))
         /\ cpc = "send" => spc = "read"
         /\ cpc \in {"wait", "done"} => request = ClientMessage(level, client)

Settled == spc \in {"bind", "serving"} =>
             /\ cpc \in {"wait", "done"}
             /\ Failures(request, server) = {}
             /\ sconf = Combine(request, server)
             /\ Valid(sconf)

Served == spc = "serving" => bound \in Span(sconf.port)

Answered ==
  /\ reply.kind = "message" =>
       spc = "serving" /\ reply.config = ServerMessage(level, sconf)
  /\ reply.kind = "failure" => spc = "failed"

Merged == cpc = "done" =>
            /\ reply.kind = "message"
            /\ cconf = Over(reply.config, Over(client, SystemDefault))

Inv == TypeOK /\ Asked /\ Settled /\ Served /\ Answered /\ Merged
=============================================================================
