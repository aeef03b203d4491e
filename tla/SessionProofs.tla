---------------------------- MODULE SessionProofs ----------------------------
(***************************************************************************)
(* The safety properties of module Session, proved for every set of levels *)
(* and every number of requests.                                           *)
(*                                                                         *)
(* The control channel is two sequences that the two sides fill and drain  *)
(* at their own pace.  What makes the properties provable is Positions:    *)
(* how far the server can be when the client is at a given point; from it  *)
(* follows what is in the pipes, and so what the next read finds there.    *)
(***************************************************************************)
EXTENDS Session, TLAPS

USE SessionAssumption

-----------------------------------------------------------------------------
(* The control channel.                                                    *)

\* A message sent is the last in the pipe, behind those that were there.
LEMMA SendFacts ==
  ASSUME NEW p \in Seq(ControlMessage), NEW m \in ControlMessage
  PROVE  /\ Append(p, m) \in Seq(ControlMessage)
         /\ Len(Append(p, m)) = Len(p) + 1 /\ Len(p) \in Nat
         /\ \A i \in 1..Len(p) : Append(p, m)[i] = p[i]
         /\ Append(p, m)[Len(p) + 1] = m
OBVIOUS

\* The first message in an empty pipe, and the second behind it.
LEMMA SendFirst ==
  ASSUME NEW p \in Seq(ControlMessage), NEW m \in ControlMessage, Len(p) = 0
  PROVE  Len(Append(p, m)) = 1 /\ Append(p, m)[1] = m
OBVIOUS

\* A second message lies behind the first.
LEMMA SendSecond ==
  ASSUME NEW p \in Seq(ControlMessage), NEW m \in ControlMessage, Len(p) = 1
  PROVE  /\ Len(Append(p, m)) = 2
         /\ Append(p, m)[1] = p[1] /\ Append(p, m)[2] = m
<1>1. /\ Len(Append(p, m)) = Len(p) + 1
      /\ \A i \in 1..Len(p) : Append(p, m)[i] = p[i]
      /\ Append(p, m)[Len(p) + 1] = m
  BY SendFacts
<1>2. Len(Append(p, m)) = 1 + 1 /\ Append(p, m)[1 + 1] = m
  BY <1>1
<1>3. Append(p, m)[1] = p[1]
  BY <1>1
<1>4. 1 + 1 = 2
  OBVIOUS
<1> QED
  BY <1>2, <1>3, <1>4

\* A message read is the first, and the others move up.
LEMMA TakeFacts ==
  ASSUME NEW p \in Seq(ControlMessage), p # <<>>
  PROVE  /\ Tail(p) \in Seq(ControlMessage)
         /\ Len(p) \in Nat /\ Len(p) >= 1
         /\ Len(Tail(p)) = Len(p) - 1
         /\ \A i \in 1..Len(p) - 1 : Tail(p)[i] = p[i + 1]
         /\ Head(p) = p[1] /\ Head(p) \in ControlMessage
OBVIOUS

\* choose_compatibility_level gives both sides the same level, which both
\* programs have.
LEMMA AgreedFacts ==
  ASSUME TypeOK
  PROVE  /\ Agreed \in Levels /\ Agreed \in Nat
         /\ lev.c \in Nat /\ lev.s \in Nat
         /\ Agreed <= lev.c /\ Agreed <= lev.s
         /\ Chosen(lev.s, lev.c) = Agreed
<1>1. lev.c \in Levels /\ lev.s \in Levels
  BY DEF TypeOK
<1>2. lev.c \in Nat /\ lev.s \in Nat
  BY <1>1
<1>3. CASE lev.s < lev.c
  BY <1>1, <1>2, <1>3 DEF Agreed, Chosen
<1>4. CASE ~(lev.s < lev.c)
  <2>1. lev.c <= lev.s
    BY <1>2, <1>4
  <2>2. CASE lev.c = lev.s
    BY <1>1, <1>2, <2>2 DEF Agreed, Chosen
  <2>3. CASE lev.c < lev.s
    BY <1>1, <1>2, <2>3 DEF Agreed, Chosen
  <2> QED
    BY <1>2, <2>1, <2>2, <2>3
<1> QED
  BY <1>3, <1>4

\* What is sent at the agreed level, both programs know.
LEMMA AgreedIsUnderstood ==
  ASSUME TypeOK, Ready
  PROVE  /\ Understands(lev.c, Message(Agreed))
         /\ Understands(lev.s, Message(Agreed))
         /\ Message(Agreed) \in ControlMessage
         /\ Message(Agreed).kind = "message"
<1>1. cfg.rawKey => Agreed >= CMSG_SMSG_2
  BY AgreedFacts DEF Ready, Unsupported, CMSG_SMSG_2
<1>2. Message(Agreed) = [kind |-> "message", form |-> Form(Agreed), creds |-> Creds(Agreed)]
  BY DEF Message
<1>3. /\ Form(Agreed) \in {"V1", "V2"} /\ Creds(Agreed) \in {"rawKey", "X509"}
      /\ Form(Agreed) = "V2" => Agreed >= CMSG_SMSG_2
      /\ Creds(Agreed) = "rawKey" => Agreed >= CMSG_SMSG_2
  BY <1>1 DEF Form, Creds
<1>4. Message(Agreed) \in ControlMessage
  BY <1>2, <1>3 DEF ControlMessage
<1> QED
  BY <1>2, <1>3, <1>4, AgreedFacts DEF Understands, CMSG_SMSG_2

\* A greeting is a control message.
LEMMA GreetingFacts ==
  ASSUME NEW l \in Levels
  PROVE  /\ Greeting(l) \in ControlMessage /\ Greeting(l).kind = "greeting"
         /\ Greeting(l).level = l
BY DEF Greeting, ControlMessage

\* The pipes keep what FormsUnderstood says of them while nothing is added.
LEMMA FormsWhenRead ==
  ASSUME Inv, UNCHANGED lev,
         toC' = toC \/ (toC # <<>> /\ toC' = Tail(toC)),
         toS' = toS \/ (toS # <<>> /\ toS' = Tail(toS))
  PROVE  FormsUnderstood'
<1>1. toC \in Seq(ControlMessage) /\ toS \in Seq(ControlMessage)
  BY DEF Inv, TypeOK
<1>2. FormsUnderstood
  BY DEF Inv
<1>3. \A i \in DOMAIN toC' : \E j \in DOMAIN toC : toC'[i] = toC[j]
  <2>1. CASE toC' = toC
    BY <2>1
  <2>2. CASE toC # <<>> /\ toC' = Tail(toC)
    BY <1>1, <2>2, TakeFacts
  <2> QED
    BY <2>1, <2>2
<1>4. \A i \in DOMAIN toS' : \E j \in DOMAIN toS : toS'[i] = toS[j]
  <2>1. CASE toS' = toS
    BY <2>1
  <2>2. CASE toS # <<>> /\ toS' = Tail(toS)
    BY <1>1, <2>2, TakeFacts
  <2> QED
    BY <2>1, <2>2
<1> QED
  BY <1>2, <1>3, <1>4 DEF FormsUnderstood, Understands

\* A message to the client is one that its program knows.
LEMMA FormsWhenToldClient ==
  ASSUME Inv, UNCHANGED <<lev, toS>>, NEW m \in ControlMessage,
         toC' = Append(toC, m),
         m.kind = "message" => Understands(lev.c, m),
         m.kind = "failure" => m.why # "malformed"
  PROVE  FormsUnderstood'
<1>1. toC \in Seq(ControlMessage) /\ FormsUnderstood
  BY DEF Inv, TypeOK
<1>2. \A i \in DOMAIN toC' : toC'[i] = m \/ \E j \in DOMAIN toC : toC'[i] = toC[j]
  BY <1>1, SendFacts
<1> QED
  BY <1>1, <1>2 DEF FormsUnderstood, Understands

\* A message to the server is one that its program knows.
LEMMA FormsWhenToldServer ==
  ASSUME Inv, UNCHANGED <<lev, toC>>, NEW m \in ControlMessage,
         toS' = Append(toS, m),
         m.kind = "message" => Understands(lev.s, m)
  PROVE  FormsUnderstood'
<1>1. toS \in Seq(ControlMessage) /\ FormsUnderstood
  BY DEF Inv, TypeOK
<1>2. \A i \in DOMAIN toS' : toS'[i] = m \/ \E j \in DOMAIN toS : toS'[i] = toS[j]
  BY <1>1, SendFacts
<1> QED
  BY <1>1, <1>2 DEF FormsUnderstood, Understands

-----------------------------------------------------------------------------
(* The client's end of the control channel.                                *)

\* The banner goes and leaves at most the greeting behind it.
LEMMA CBannerKeeps ==
  ASSUME Inv, CBanner
  PROVE  Inv'
<1>1. TypeOK /\ toC \in Seq(ControlMessage)
  BY DEF Inv, TypeOK
<1>2. toC # <<>> /\ toC' = Tail(toC) /\ cpc = "banner" /\ cpc' = "greet"
      /\ UNCHANGED <<given, ssh, toS, spc, sel, quic, reqs, tasks>>
  BY DEF CBanner
<1>3. /\ Tail(toC) \in Seq(ControlMessage)
      /\ Len(toC) \in Nat /\ Len(toC) >= 1
      /\ Len(toC') = Len(toC) - 1
      /\ \A i \in 1..Len(toC) - 1 : toC'[i] = toC[i + 1]
  BY <1>1, <1>2, TakeFacts
<1>4. TypeOK'
  BY <1>1, <1>2, <1>3 DEF TypeOK, given, ctrl, quic, reqs, tasks
<1>5. Positions'
  BY <1>2, <1>3 DEF Inv, Positions, ToClient, SGreets, SData, CData, given, quic, reqs, tasks
<1>6. ToServer'
  BY <1>2 DEF Inv, ToServer, Agreed, Ready, Unsupported, Message, Form, Creds, Greeting, given, SGreets
<1>7. ToClient'
  BY <1>2, <1>3 DEF Inv, ToClient, Positions, SGreets, CData, Greeting, given
<1>8. LevelsAgreed'
  BY <1>2 DEF Inv, LevelsAgreed, Positions, SGreets, Agreed, Ready, Unsupported, given, CData, SData
<1>9. FormsUnderstood'
  BY <1>2, FormsWhenRead DEF given
<1>10. DataChannel' /\ Outcomes'
  BY <1>2 DEF Inv, DataChannel, Outcomes, given, quic, reqs, tasks, CData
<1> QED
  BY <1>4, <1>5, <1>6, <1>7, <1>8, <1>9, <1>10 DEF Inv

\* The greeting is the first message in the server's pipe.
LEMMA CSendGreetingKeeps ==
  ASSUME Inv, CSendGreeting
  PROVE  Inv'
<1>1. TypeOK /\ toS \in Seq(ControlMessage) /\ lev.c \in Levels
  BY DEF Inv, TypeOK
<1>2. /\ cpc = "greet" /\ cpc' = "greeted" /\ ssh = "up" /\ spc \notin Ended
      /\ toS' = Append(toS, Greeting(lev.c))
      /\ UNCHANGED <<given, ssh, toC, spc, sel, quic, reqs, tasks>>
  BY DEF CSendGreeting, CSend
<1>3. Len(toS) = 0 /\ spc \in {"greet", "greeted"}
  BY <1>2 DEF Inv, ToServer, Positions, Ended
<1>4. /\ toS' \in Seq(ControlMessage) /\ Len(toS') = 1
      /\ toS'[1] = Greeting(lev.c)
  <2>1. Greeting(lev.c) \in ControlMessage
    BY <1>1, GreetingFacts
  <2> QED
    BY <1>1, <1>2, <1>3, <2>1, SendFirst, SendFacts
<1>5. TypeOK'
  BY <1>1, <1>2, <1>4 DEF TypeOK, given, quic, reqs, tasks
<1>6. Positions'
  BY <1>2, <1>3 DEF Positions, CData, given
<1>7. ToServer'
  BY <1>2, <1>3, <1>4 DEF ToServer, SGreets, given
<1>8. ToClient'
  BY <1>2, <1>3 DEF Inv, ToClient, CData, Greeting, given
<1>9. LevelsAgreed'
  BY <1>2, <1>3 DEF Inv, LevelsAgreed, CData, SData
<1>10. FormsUnderstood'
  BY <1>1, <1>2, GreetingFacts, FormsWhenToldServer DEF given
<1>11. DataChannel' /\ Outcomes'
  BY <1>2 DEF Inv, DataChannel, Outcomes, given, quic, reqs, tasks, CData
<1> QED
  BY <1>5, <1>6, <1>7, <1>8, <1>9, <1>10, <1>11 DEF Inv

\* The message behind the banner is the server's greeting, and both sides
\* settle on the same level.
LEMMA CReadGreetingKeeps ==
  ASSUME Inv, CReadGreeting
  PROVE  Inv'
<1>1. TypeOK /\ toC \in Seq(ControlMessage) /\ lev.s \in Levels
  BY DEF Inv, TypeOK
<1>2. /\ cpc = "greeted" /\ cpc' = "message" /\ toC # <<>>
      /\ toC' = Tail(toC)
      /\ sel' = [sel EXCEPT !.c = Chosen(lev.c, Head(toC).level)]
      /\ UNCHANGED <<given, ssh, toS, spc, quic, reqs, tasks>>
  BY DEF CReadGreeting
<1>3. /\ toC' \in Seq(ControlMessage)
      /\ Len(toC) \in Nat /\ Len(toC) >= 1 /\ Len(toC') = Len(toC) - 1
      /\ Head(toC) = toC[1]
  BY <1>1, <1>2, TakeFacts
<1>4. Len(toC) = 1 /\ toC[1] = Greeting(lev.s) /\ spc \in {"greeted", "message", "failed"}
  BY <1>2, <1>3 DEF Inv, ToClient, Positions
<1>5. Chosen(lev.c, Head(toC).level) = Agreed
  BY <1>1, <1>3, <1>4, GreetingFacts DEF Agreed
<1>6. Agreed \in Levels /\ Agreed' = Agreed
  BY <1>1, <1>2, AgreedFacts DEF Agreed, given
<1>7. sel \in [c : {0} \cup Levels, s : {0} \cup Levels]
  BY <1>1 DEF TypeOK
<1>8. /\ sel' \in [c : {0} \cup Levels, s : {0} \cup Levels]
      /\ sel'.c = Agreed /\ sel'.s = sel.s
  BY <1>2, <1>5, <1>6, <1>7
<1>9. TypeOK'
  BY <1>1, <1>2, <1>3, <1>8 DEF TypeOK, given, quic, reqs, tasks
<1>10. Positions'
  BY <1>2, <1>4 DEF Positions, CData
<1>11. ToServer'
  <2>1. cpc' = "message" /\ spc' = spc /\ toS' = toS /\ lev' = lev
    BY <1>2 DEF given
  <2>2. CASE spc = "greeted"
    <3>1. Len(toS') = 1 /\ toS'[1] = Greeting(lev.c)'
      BY <1>2, <2>1, <2>2 DEF Inv, ToServer, SGreets, Greeting
    <3> QED
      BY <2>1, <2>2, <3>1 DEF ToServer, SGreets
  <2>3. CASE spc = "message"
    <3>1. Len(toS') = 0
      BY <1>2, <2>1, <2>3 DEF Inv, ToServer
    <3> QED
      BY <2>1, <2>3, <3>1 DEF ToServer, SGreets
  <2>4. CASE spc = "failed"
    BY <2>1, <2>4 DEF ToServer, SGreets
  <2> QED
    BY <1>4, <2>2, <2>3, <2>4
<1>12. ToClient'
  BY <1>2, <1>3, <1>4 DEF ToClient, CData
<1>13. LevelsAgreed'
  BY <1>2, <1>4, <1>6, <1>8 DEF Inv, LevelsAgreed, CData, SData
<1>14. FormsUnderstood'
  BY <1>2, FormsWhenRead DEF given
<1>15. DataChannel' /\ Outcomes'
  BY <1>2 DEF Inv, DataChannel, Outcomes, given, quic, reqs, tasks, CData
<1> QED
  BY <1>9, <1>10, <1>11, <1>12, <1>13, <1>14, <1>15 DEF Inv

\* The client's message goes out at the agreed level, behind the greeting if
\* the server has not read that yet.
LEMMA CSendMessageKeeps ==
  ASSUME Inv, CSendMessage
  PROVE  Inv'
<1>1. TypeOK /\ toS \in Seq(ControlMessage)
  BY DEF Inv, TypeOK
<1>2. /\ cpc = "message" /\ cpc' = "await" /\ ssh = "up" /\ spc \notin Ended
      /\ ~Unsupported
      /\ toS' = Append(toS, Message(sel.c))
      /\ UNCHANGED <<given, ssh, toC, spc, sel, quic, reqs, tasks>>
  BY DEF CSendMessage, CSend
<1>3. spc \in {"greeted", "message"} /\ sel.c = Agreed /\ Len(toC) = 0
  BY <1>2 DEF Inv, Positions, LevelsAgreed, ToClient, Ended
<1>4. Ready /\ Ready' /\ Agreed' = Agreed /\ Message(Agreed)' = Message(Agreed)
      /\ Greeting(lev.c)' = Greeting(lev.c)
  BY <1>2, <1>3 DEF Ready, Unsupported, Agreed, Message, Form, Creds, Greeting, given
<1>5. /\ Message(Agreed) \in ControlMessage /\ Understands(lev.s, Message(Agreed))
  BY <1>1, <1>4, AgreedIsUnderstood
<1>6. toS' = Append(toS, Message(Agreed))
  BY <1>2, <1>3
<1>7. /\ toS' \in Seq(ControlMessage) /\ Len(toS') = Len(toS) + 1
      /\ \A i \in 1..Len(toS) : toS'[i] = toS[i]
      /\ toS'[Len(toS) + 1] = Message(Agreed)
  BY <1>1, <1>5, <1>6, SendFacts
<1>8. TypeOK'
  BY <1>1, <1>2, <1>7 DEF TypeOK, given, quic, reqs, tasks
<1>9. Positions'
  BY <1>2, <1>3 DEF Positions, CData
<1>10. ToServer'
  <2>1. cpc' = "await" /\ spc' = spc
    BY <1>2
  <2>2. CASE spc = "greeted"
    <3>1. Len(toS) = 1 /\ toS[1] = Greeting(lev.c)
      BY <1>2, <2>2 DEF Inv, ToServer, SGreets
    <3>2. Len(toS') = 2 /\ toS'[1] = Greeting(lev.c) /\ toS'[2] = Message(Agreed)
      BY <1>1, <1>5, <1>6, <3>1, SendSecond
    <3> QED
      BY <1>4, <2>1, <2>2, <3>2 DEF ToServer, SGreets
  <2>3. CASE spc = "message"
    <3>1. Len(toS) = 0
      BY <1>2, <2>3 DEF Inv, ToServer
    <3>2. Len(toS') = 1 /\ toS'[1] = Message(Agreed)
      BY <1>1, <1>5, <1>6, <3>1, SendFirst
    <3> QED
      BY <1>4, <2>1, <2>3, <3>2 DEF ToServer, SGreets
  <2> QED
    BY <1>3, <2>2, <2>3
<1>11. ToClient'
  BY <1>2, <1>3 DEF ToClient, CData
<1>12. LevelsAgreed'
  BY <1>2, <1>3, <1>4 DEF Inv, LevelsAgreed, CData, SData
<1>13. FormsUnderstood'
  BY <1>2, <1>5, <1>6, FormsWhenToldServer DEF given
<1>14. DataChannel' /\ Outcomes'
  BY <1>2 DEF Inv, DataChannel, Outcomes, given, quic, reqs, tasks, CData
<1> QED
  BY <1>8, <1>9, <1>10, <1>11, <1>12, <1>13, <1>14 DEF Inv

\* What the client leaves alone when it reads: the second half of every proof
\* in which it takes the only message there is.
LEMMA TakeOnly ==
  ASSUME NEW p \in Seq(ControlMessage), p # <<>>, Len(p) <= 1
  PROVE  Len(p) = 1 /\ Len(Tail(p)) = 0 /\ Head(p) = p[1]
<1>1. Len(p) \in Nat /\ Len(p) >= 1 /\ Len(Tail(p)) = Len(p) - 1 /\ Head(p) = p[1]
  BY TakeFacts
<1>2. Len(p) = 1
  BY <1>1
<1> QED
  BY <1>1, <1>2

\* The client ends in failure, wherever it is: nothing depends on that.
LEMMA ClientFailureKeeps ==
  ASSUME Inv, CExit("failed"), cpc \notin Ended,
         toC' = toC \/ (toC # <<>> /\ toC' = Tail(toC)),
         UNCHANGED <<given, toS, spc, sel, link, qs, reqs, tasks>>
  PROVE  Inv'
<1>1. TypeOK /\ toC \in Seq(ControlMessage)
  BY DEF Inv, TypeOK
<1>2. /\ cpc' = "failed" /\ ssh' = "down"
      /\ qc' = IF qc = "none" THEN "none" ELSE "closed"
  BY DEF CExit
<1>3. toC' \in Seq(ControlMessage)
  BY <1>1, TakeFacts
<1>4. TypeOK'
  <2>1. qc' \in {"none", "connecting", "up", "lost", "closed"}
    BY <1>2
  <2> QED
    BY <1>1, <1>2, <1>3, <2>1 DEF TypeOK, Ended, given, reqs, tasks
<1>5. Positions' /\ ToClient'
  BY <1>2 DEF Positions, ToClient, CData
<1>6. Ready' = Ready /\ Agreed' = Agreed /\ Message(Agreed)' = Message(Agreed)
      /\ Greeting(lev.c)' = Greeting(lev.c)
  BY DEF Ready, Unsupported, Agreed, Message, Form, Creds, Greeting, given
<1>7. ToServer'
  BY <1>2, <1>6 DEF Inv, ToServer
<1>8. LevelsAgreed'
  BY <1>2, <1>6 DEF Inv, LevelsAgreed, CData
<1>9. FormsUnderstood'
  BY FormsWhenRead DEF given
<1>10. DataChannel' /\ Outcomes'
  BY <1>2 DEF Inv, DataChannel, Outcomes, CData, given, reqs, tasks
<1> QED
  BY <1>4, <1>5, <1>7, <1>8, <1>9, <1>10 DEF Inv

\* The client may give up at any point of the dialogue.
LEMMA ClientFailsKeeps ==
  ASSUME Inv, CCannotSend \/ CPipeFails \/ CConnectFails \/ CFatal
  PROVE  Inv'
<1>1. CExit("failed") /\ toC' = toC
      /\ UNCHANGED <<given, toS, spc, sel, link, qs, reqs, tasks>>
  BY DEF CCannotSend, CPipeFails, CConnectFails, CFatal
<1>2. cpc \notin Ended
  BY DEF CCannotSend, CPipeFails, CConnectFails, CFatal, Ended, Inv, DataChannel
<1> QED
  BY <1>1, <1>2, ClientFailureKeeps

\* The answer is the last message before the report; in a dry run it is the
\* last of all.
LEMMA CReadMessageKeeps ==
  ASSUME Inv, CReadMessage
  PROVE  Inv'
<1>1. TypeOK /\ toC \in Seq(ControlMessage)
  BY DEF Inv, TypeOK
<1>2. /\ cpc = "await" /\ toC # <<>> /\ toC' = Tail(toC)
      /\ UNCHANGED <<given, toS, spc, sel, link, qs, reqs, tasks>>
  BY DEF CReadMessage
<1>3. /\ Len(toC) = 1 /\ Len(toC') = 0 /\ toC' \in Seq(ControlMessage)
  <2>1. Len(toC) <= 1
    BY <1>2 DEF Inv, ToClient
  <2> QED
    BY <1>1, <1>2, <2>1, TakeOnly, TakeFacts
<1>4. spc \in {"accept", "failed"} /\ sel.c = Agreed /\ qc = "none" /\ n = 0
  BY <1>2, <1>3 DEF Inv, ToClient, Positions, LevelsAgreed, DataChannel
<1>5. CASE Head(toC).kind = "failure"
  <2>1. CExit("failed")
    BY <1>5 DEF CReadMessage
  <2> QED
    BY <1>2, <2>1, ClientFailureKeeps DEF Ended
<1>6. Ready' = Ready /\ Agreed' = Agreed /\ Message(Agreed)' = Message(Agreed)
      /\ Greeting(lev.c)' = Greeting(lev.c)
  BY <1>2 DEF Ready, Unsupported, Agreed, Message, Form, Creds, Greeting, given
<1>7. CASE Head(toC).kind # "failure" /\ Head(toC).kind = "message" /\ cfg.dry
  <2>1. CASE failed
    <3>1. CExit("failed")
      BY <1>7, <2>1 DEF CReadMessage
    <3> QED
      BY <1>2, <3>1, ClientFailureKeeps DEF Ended
  <2>2. CASE ~failed
    <3>1. cpc' = "ok" /\ ssh' = "down" /\ qc' = "none"
      BY <1>4, <1>7, <2>2 DEF CReadMessage, CExit
    <3>2. TypeOK'
      BY <1>1, <1>2, <1>3, <3>1 DEF TypeOK, Ended, given, reqs, tasks
    <3>3. Positions' /\ ToClient'
      BY <1>2, <1>7, <3>1 DEF Positions, ToClient, CData, given
    <3>4. ToServer'
      BY <1>2, <1>6, <3>1 DEF Inv, ToServer
    <3>5. LevelsAgreed'
      BY <1>2, <1>4, <1>6, <3>1 DEF Inv, LevelsAgreed, CData
    <3>6. FormsUnderstood'
      BY <1>2, FormsWhenRead DEF given
    <3>7. DataChannel'
      BY <1>2, <1>4, <3>1 DEF Inv, DataChannel, CData, given, reqs
    <3>8. Outcomes'
      <4>1. \A k \in 1..0 : told[k] = "ok"
        OBVIOUS
      <4> QED
        BY <1>2, <1>4, <2>2, <3>1, <4>1 DEF Inv, Outcomes, reqs, tasks
    <3> QED
      BY <3>2, <3>3, <3>4, <3>5, <3>6, <3>7, <3>8 DEF Inv
  <2> QED
    BY <2>1, <2>2
<1>8. CASE Head(toC).kind # "failure" /\ ~(Head(toC).kind = "message" /\ cfg.dry)
  <2>1. cpc' = "connect" /\ UNCHANGED <<ssh, qc>>
    BY <1>8 DEF CReadMessage
  <2>2. ~cfg.dry
    <3>1. Head(toC).kind \in {"message", "failure"}
      BY <1>1, <1>2, <1>3, TakeOnly DEF Inv, ToClient
    <3> QED
      BY <1>8, <3>1
  <2>3. TypeOK'
    BY <1>1, <1>2, <1>3, <2>1 DEF TypeOK, given, reqs, tasks
  <2>4. Positions' /\ ToClient'
    BY <1>2, <1>3, <1>4, <2>1 DEF Positions, ToClient, CData
  <2>5. ToServer'
    BY <1>2, <1>6, <2>1 DEF Inv, ToServer
  <2>6. LevelsAgreed'
    BY <1>2, <1>4, <1>6, <2>1 DEF Inv, LevelsAgreed
  <2>7. FormsUnderstood'
    BY <1>2, FormsWhenRead DEF given
  <2>8. DataChannel'
    BY <1>2, <1>4, <2>1, <2>2 DEF Inv, DataChannel, CData, given, reqs, quic
  <2>9. Outcomes'
    BY <1>2, <2>1 DEF Inv, Outcomes, reqs, tasks
  <2> QED
    BY <2>3, <2>4, <2>5, <2>6, <2>7, <2>8, <2>9 DEF Inv
<1> QED
  BY <1>5, <1>7, <1>8

-----------------------------------------------------------------------------
(* The client on the data channel.                                         *)

\* From connect to report the control channel stands still.
LEMMA ClientDataFrame ==
  ASSUME Inv, cpc \in CData, cpc' \in CData \ {"linger"},
         UNCHANGED <<given, ctrl, spc>>
  PROVE  Positions' /\ ToServer' /\ ToClient' /\ LevelsAgreed' /\ FormsUnderstood'
<1>1. UNCHANGED <<lev, cfg, toC, toS, sel, spc>>
  BY DEF given, ctrl
<1>2. Ready' = Ready /\ Agreed' = Agreed /\ Message(Agreed)' = Message(Agreed)
      /\ Greeting(lev.c)' = Greeting(lev.c)
  BY <1>1 DEF Ready, Unsupported, Agreed, Message, Form, Creds, Greeting
<1>3. Positions'
  BY <1>1 DEF Inv, Positions, CData
<1>4. ToServer'
  BY <1>1, <1>2 DEF Inv, ToServer, CData
<1>5. ToClient'
  BY <1>1 DEF Inv, ToClient, CData
<1>6. LevelsAgreed'
  BY <1>1, <1>2 DEF Inv, LevelsAgreed
<1>7. FormsUnderstood'
  BY <1>1, FormsWhenRead
<1> QED
  BY <1>3, <1>4, <1>5, <1>6, <1>7

\* The client connects once the server's message is read.
LEMMA ClientConnectsKeeps ==
  ASSUME Inv, CConnect \/ CConnected
  PROVE  Inv'
<1>1. /\ cpc \in CData /\ cpc' \in {"connecting", "run"} /\ qc' \in {"connecting", "up"}
      /\ cpc' = "run" => cpc = "connecting"
      /\ UNCHANGED <<given, ctrl, spc, link, qs, reqs, tasks>>
  BY DEF CConnect, CConnected, CData
<1>2. cpc' \in CData \ {"linger"}
  BY <1>1 DEF CData
<1>3. Positions' /\ ToServer' /\ ToClient' /\ LevelsAgreed' /\ FormsUnderstood'
  BY <1>1, <1>2, ClientDataFrame
<1>4. TypeOK'
  BY <1>1 DEF Inv, TypeOK, given, ctrl, reqs, tasks
<1>5. n = 0
  BY DEF CConnect, CConnected, Inv, DataChannel
<1>6. DataChannel'
  BY <1>1, <1>5 DEF Inv, DataChannel, given, reqs
<1>7. Outcomes'
  <2>1. \A k \in 1..0 : told[k] = "ok"
    OBVIOUS
  <2> QED
    BY <1>1, <1>5, <2>1 DEF Inv, Outcomes, reqs, tasks
<1> QED
  BY <1>3, <1>4, <1>6, <1>7 DEF Inv

\* Between two requests all of those before are settled.
LEMMA ClientTurnsKeeps ==
  ASSUME Inv, CNext \/ CClose
  PROVE  Inv'
<1>1. /\ cpc = "run" /\ cpc' \in {"open", "report"} /\ qc' \in {qc, "closed"}
      /\ cpc' = "open" => n < MaxRequests /\ qc' = qc
      /\ UNCHANGED <<given, ctrl, spc, link, qs, reqs, tasks>>
  BY DEF CNext, CClose, quic
<1>2. cpc \in CData /\ cpc' \in CData \ {"linger"}
  BY <1>1 DEF CData
<1>3. Positions' /\ ToServer' /\ ToClient' /\ LevelsAgreed' /\ FormsUnderstood'
  BY <1>1, <1>2, ClientDataFrame
<1>4. TypeOK'
  BY <1>1 DEF Inv, TypeOK, given, ctrl, reqs, tasks
<1>5. DataChannel'
  BY <1>1, <1>2 DEF Inv, DataChannel, given, reqs
<1>6. Outcomes'
  BY <1>1 DEF Inv, Outcomes, reqs, tasks
<1> QED
  BY <1>3, <1>4, <1>5, <1>6 DEF Inv

\* A stream is opened for the next request.
LEMMA COpenedKeeps ==
  ASSUME Inv, COpened
  PROVE  Inv'
<1>1. /\ cpc = "open" /\ cpc' = "request" /\ qc = "up" /\ n' = n + 1
      /\ UNCHANGED <<given, ctrl, spc, quic, failed, told, tasks>>
  BY DEF COpened
<1>2. cpc \in CData /\ cpc' \in CData \ {"linger"}
  BY <1>1 DEF CData
<1>3. Positions' /\ ToServer' /\ ToClient' /\ LevelsAgreed' /\ FormsUnderstood'
  BY <1>1, <1>2, ClientDataFrame
<1>4. n \in Nat /\ n' \in 0..MaxRequests /\ n' - 1 = n
  BY <1>1 DEF Inv, TypeOK, DataChannel
<1>5. TypeOK'
  <2>1. \A k \in Requests : k > n' => handler[k] = "none" /\ ~work[k]
    BY <1>1, <1>4 DEF Inv, TypeOK, Requests
  <2> QED
    BY <1>1, <1>4, <2>1 DEF Inv, TypeOK, given, ctrl, quic, tasks
<1>6. DataChannel'
  BY <1>1, <1>2 DEF Inv, DataChannel, given, quic
<1>7. Outcomes'
  BY <1>1, <1>4 DEF Inv, Outcomes, tasks
<1> QED
  BY <1>3, <1>5, <1>6, <1>7 DEF Inv

\* A request is settled: as done only after its work is.
LEMMA ClientSettlesKeeps ==
  ASSUME Inv, CRequestOk \/ CRequestFails
  PROVE  Inv'
<1>1. /\ cpc = "request" /\ cpc' = "run"
      /\ UNCHANGED <<given, ctrl, spc, quic, n, tasks>>
  BY DEF CRequestOk, CRequestFails
<1>2. cpc \in CData /\ cpc' \in CData \ {"linger"}
  BY <1>1 DEF CData
<1>3. Positions' /\ ToServer' /\ ToClient' /\ LevelsAgreed' /\ FormsUnderstood'
  BY <1>1, <1>2, ClientDataFrame
<1>4. DataChannel'
  BY <1>1, <1>2 DEF Inv, DataChannel, given, quic
<1>5. told \in [Requests -> {"none", "ok", "failed"}] /\ n \in 0..MaxRequests
  BY DEF Inv, TypeOK
<1>6. /\ told' \in [Requests -> {"none", "ok", "failed"}]
      /\ \A k \in Requests : k # n => told'[k] = told[k]
      /\ failed' \in BOOLEAN
  BY <1>5 DEF CRequestOk, CRequestFails, Inv, TypeOK
<1>7. TypeOK'
  BY <1>1, <1>6 DEF Inv, TypeOK, given, ctrl, quic, tasks
<1>8. CASE CRequestFails
  <2>1. failed' = TRUE /\ \A k \in Requests : told'[k] = "ok" => told[k] = "ok"
    BY <1>5, <1>8 DEF CRequestFails
  <2>2. Outcomes'
    BY <1>1, <2>1 DEF Inv, Outcomes, tasks
  <2> QED
    BY <1>3, <1>4, <1>7, <2>2 DEF Inv
<1>9. CASE CRequestOk
  <2>1. failed' = failed /\ work[n] /\ (n \in Requests => told'[n] = "ok")
    BY <1>5, <1>9 DEF CRequestOk
  <2>2. \A k \in Requests : told'[k] = "ok" => work[k]
    BY <1>6, <2>1 DEF Inv, Outcomes
  <2>3. ~failed => \A k \in 1..n : told'[k] = "ok"
    <3>1. ~failed => \A k \in 1..n - 1 : told[k] = "ok"
      BY <1>1 DEF Inv, Outcomes
    <3>2. \A k \in 1..n : k \in Requests /\ (k = n \/ k \in 1..n - 1)
      BY <1>5 DEF Requests
    <3> QED
      BY <1>6, <2>1, <3>1, <3>2
  <2>4. Outcomes'
    BY <1>1, <2>1, <2>2, <2>3 DEF Inv, Outcomes, tasks
  <2> QED
    BY <1>3, <1>4, <1>7, <2>4 DEF Inv
<1> QED
  BY <1>8, <1>9

\* The report is there only when the server has nothing left to do.
LEMMA CReportKeeps ==
  ASSUME Inv, CReport
  PROVE  Inv'
<1>1. TypeOK /\ toC \in Seq(ControlMessage)
  BY DEF Inv, TypeOK
<1>2. /\ cpc = "report" /\ cpc' = "linger" /\ toC # <<>> /\ toC' = Tail(toC)
      /\ UNCHANGED <<given, ssh, toS, spc, sel, quic, reqs, tasks>>
  BY DEF CReport
<1>3. Len(toC) = 1 /\ Len(toC') = 0 /\ toC' \in Seq(ControlMessage)
  <2>1. Len(toC) <= 1
    BY <1>2 DEF Inv, ToClient, CData
  <2> QED
    BY <1>1, <1>2, <2>1, TakeOnly, TakeFacts
<1>4. spc \in {"leaving", "ok"}
  BY <1>2, <1>3 DEF Inv, ToClient, CData
<1>5. TypeOK'
  BY <1>1, <1>2, <1>3 DEF TypeOK, given, quic, reqs, tasks
<1>6. Positions' /\ ToClient'
  BY <1>2, <1>3, <1>4 DEF Positions, ToClient, CData, SData
<1>7. Ready' = Ready /\ Agreed' = Agreed
  BY <1>2 DEF Ready, Unsupported, Agreed, given
<1>8. ToServer'
  BY <1>2, <1>4 DEF ToServer, SGreets
<1>9. LevelsAgreed'
  BY <1>2, <1>7 DEF Inv, LevelsAgreed, CData
<1>10. FormsUnderstood'
  BY <1>2, FormsWhenRead DEF given
<1>11. DataChannel'
  BY <1>2 DEF Inv, DataChannel, CData, given, quic, reqs
<1>12. Outcomes'
  BY <1>2 DEF Inv, Outcomes, reqs, tasks
<1> QED
  BY <1>5, <1>6, <1>8, <1>9, <1>10, <1>11, <1>12 DEF Inv

\* The client ends, well only if nothing failed.
LEMMA CFinishKeeps ==
  ASSUME Inv, CFinish
  PROVE  Inv'
<1>1. /\ cpc = "linger"
      /\ UNCHANGED <<given, toC, toS, spc, sel, link, qs, reqs, tasks>>
  BY DEF CFinish
<1>2. CASE failed
  <2>1. CExit("failed")
    BY <1>2 DEF CFinish
  <2> QED
    BY <1>1, <2>1, ClientFailureKeeps DEF Ended
<1>3. CASE ~failed
  <2>1. /\ cpc' = "ok" /\ ssh' = "down"
        /\ qc' = IF qc = "none" THEN "none" ELSE "closed"
    BY <1>3 DEF CFinish, CExit
  <2>2. spc \in {"leaving", "ok"} /\ ~cfg.dry /\ qc' \in {"none", "closed"}
    BY <1>1, <2>1 DEF Inv, Positions, DataChannel, CData
  <2>3. TypeOK'
    BY <1>1, <2>1, <2>2 DEF Inv, TypeOK, Ended, given, reqs, tasks
  <2>4. Positions' /\ ToClient' /\ ToServer'
    BY <1>1, <2>1, <2>2 DEF Positions, ToClient, ToServer, CData, SGreets
  <2>5. Ready' = Ready /\ Agreed' = Agreed
    BY <1>1 DEF Ready, Unsupported, Agreed, given
  <2>6. LevelsAgreed'
    BY <1>1, <2>1, <2>5 DEF Inv, LevelsAgreed, CData
  <2>7. FormsUnderstood'
    BY <1>1, FormsWhenRead DEF given
  <2>8. DataChannel'
    BY <1>1, <2>1, <2>2 DEF Inv, DataChannel, CData, given, reqs
  <2>9. Outcomes'
    BY <1>1, <1>3, <2>1 DEF Inv, Outcomes, reqs, tasks
  <2> QED
    BY <2>3, <2>4, <2>6, <2>7, <2>8, <2>9 DEF Inv
<1> QED
  BY <1>2, <1>3

\* The connection is lost to the client only after it was up.
LEMMA CQuicLostKeeps ==
  ASSUME Inv, CQuicLost
  PROVE  Inv'
<1>1. /\ qc = "up" /\ qc' = "lost"
      /\ UNCHANGED <<given, ctrl, cpc, spc, link, qs, reqs, tasks>>
  BY DEF CQuicLost
<1>2. Ready' = Ready /\ Agreed' = Agreed /\ Message(Agreed)' = Message(Agreed)
      /\ Greeting(lev.c)' = Greeting(lev.c) /\ Greeting(lev.s)' = Greeting(lev.s)
  BY <1>1 DEF Ready, Unsupported, Agreed, Message, Form, Creds, Greeting, given, ctrl
<1>3. TypeOK' /\ Positions'
  BY <1>1 DEF Inv, TypeOK, Positions, given, ctrl, reqs, tasks
<1>4. ToServer' /\ ToClient' /\ LevelsAgreed'
  BY <1>1, <1>2 DEF Inv, ToServer, ToClient, LevelsAgreed, ctrl
<1>5. FormsUnderstood'
  BY <1>1, FormsWhenRead DEF given, ctrl
<1>6. DataChannel' /\ Outcomes'
  BY <1>1 DEF Inv, DataChannel, Outcomes, given, reqs, tasks
<1> QED
  BY <1>3, <1>4, <1>5, <1>6 DEF Inv

-----------------------------------------------------------------------------
(* The server.                                                             *)

\* SExit drops the handlers that still run: none is started by it.
LEMMA SExitFacts ==
  ASSUME TypeOK, NEW r, SExit(r)
  PROVE  /\ handler' \in [Requests -> {"none", "ended", "cut"} \cup Live]
         /\ \A k \in Requests : handler'[k] = "none" <=> handler[k] = "none"
         /\ spc' = r /\ qs' = "closed"
BY DEF SExit, TypeOK, Live

\* The server ends in failure: the client is not past the report then, and
\* what the server had still to read nobody will.
LEMMA ServerFailureKeeps ==
  ASSUME Inv, SExit("failed"), spc \notin Ended \cup {"leaving"},
         toC' \in Seq(ControlMessage), FormsUnderstood', ToClient',
         toS' \in Seq(ControlMessage), cpc \in {"banner", "greet"} => toS' = toS,
         UNCHANGED <<given, cpc, ssh, sel, link, qc, reqs, work>>
  PROVE  Inv'
<1>1. /\ handler' \in [Requests -> {"none", "ended", "cut"} \cup Live]
      /\ \A k \in Requests : handler'[k] = "none" <=> handler[k] = "none"
      /\ spc' = "failed" /\ qs' = "closed"
  BY SExitFacts DEF Inv
<1>2. TypeOK'
  BY <1>1 DEF Inv, TypeOK, Ended, given, reqs
<1>3. Positions'
  BY <1>1 DEF Inv, Positions, Ended, given
<1>4. Agreed' = Agreed
  BY DEF Agreed, given
<1>5. ToServer'
  BY <1>1 DEF Inv, ToServer, SGreets
<1>6. LevelsAgreed'
  BY <1>1, <1>4 DEF Inv, LevelsAgreed, SData
<1>7. DataChannel'
  BY <1>1 DEF Inv, DataChannel, SData, given, reqs
<1>8. Outcomes'
  BY DEF Inv, Outcomes, reqs
<1> QED
  BY <1>2, <1>3, <1>5, <1>6, <1>7, <1>8 DEF Inv

\* The server gives up without a word.
LEMMA ServerFailsKeeps ==
  ASSUME Inv, SPipeFails \/ SGivesUp \/ SAcceptTimeout
  PROVE  Inv'
<1>1. /\ SExit("failed") /\ spc \notin Ended \cup {"leaving"} /\ spc' = "failed"
      /\ UNCHANGED <<given, ctrl, cpc, link, qc, reqs, work>>
  BY DEF SPipeFails, SGivesUp, SAcceptTimeout, SExit, Ended
<1>2. UNCHANGED <<lev, toC, toS, ssh, sel>>
  BY <1>1 DEF given, ctrl
<1>3. toC' \in Seq(ControlMessage) /\ toS' \in Seq(ControlMessage)
  BY <1>2 DEF Inv, TypeOK
<1>4. FormsUnderstood'
  BY <1>2, FormsWhenRead
<1>5. ToClient'
  BY <1>1, <1>2 DEF Inv, ToClient, Greeting, Ended
<1> QED
  BY <1>1, <1>2, <1>3, <1>4, <1>5, ServerFailureKeeps

\* A refusal is the one answer to the client's message.
LEMMA SRefuseKeeps ==
  ASSUME Inv, SRefuse
  PROVE  Inv'
<1>1. /\ spc = "prepare" /\ SExit("failed")
      /\ toC' = Append(toC, Failure("refused"))
      /\ UNCHANGED <<given, ssh, toS, sel, cpc, link, qc, reqs, work>>
  BY DEF SRefuse
<1>2. toC \in Seq(ControlMessage) /\ toS \in Seq(ControlMessage)
  BY DEF Inv, TypeOK
<1>3. /\ Failure("refused") \in ControlMessage
      /\ Failure("refused").kind = "failure" /\ Failure("refused").why = "refused"
  BY DEF Failure, ControlMessage
<1>4. toC' \in Seq(ControlMessage)
  BY <1>1, <1>2, <1>3, SendFacts
<1>5. FormsUnderstood'
  BY <1>1, <1>3, FormsWhenToldClient DEF given
<1>6. spc' = "failed"
  BY <1>1 DEF SExit
<1>7. ToClient'
  <2>1. cpc \in {"await"} \cup Ended
    BY <1>1 DEF Inv, Positions, SGreets, CData, SData, TypeOK
  <2>2. CASE cpc = "await"
    <3>1. Len(toC) = 0
      BY <1>1, <2>2 DEF Inv, ToClient
    <3>2. Len(toC') = 1 /\ toC'[1] = Failure("refused")
      BY <1>1, <1>2, <1>3, <3>1, SendFirst
    <3> QED
      BY <1>1, <1>3, <1>6, <2>2, <3>2 DEF ToClient, CData
  <2>3. CASE cpc \in Ended
    BY <1>1, <2>3 DEF ToClient, CData, Ended
  <2> QED
    BY <2>1, <2>2, <2>3
<1> QED
  BY <1>1, <1>2, <1>4, <1>5, <1>7, ServerFailureKeeps DEF Ended

\* The server leaves once its report is sent.
LEMMA SLeaveKeeps ==
  ASSUME Inv, SLeave
  PROVE  Inv'
<1>1. /\ spc = "leaving" /\ SExit("ok")
      /\ UNCHANGED <<given, ctrl, cpc, link, qc, reqs, work>>
  BY DEF SLeave
<1>2. /\ handler' \in [Requests -> {"none", "ended", "cut"} \cup Live]
      /\ \A k \in Requests : handler'[k] = "none" <=> handler[k] = "none"
      /\ spc' = "ok" /\ qs' = "closed"
  BY <1>1, SExitFacts DEF Inv
<1>3. UNCHANGED <<lev, cfg, ssh, toC, toS, sel>>
  BY <1>1 DEF given, ctrl
<1>4. TypeOK'
  BY <1>1, <1>2, <1>3 DEF Inv, TypeOK, Ended, reqs
<1>5. Positions'
  BY <1>1, <1>2, <1>3 DEF Inv, Positions, SGreets, SData
<1>6. Ready' = Ready /\ Agreed' = Agreed
  BY <1>3 DEF Ready, Unsupported, Agreed
<1>7. ToServer'
  BY <1>1, <1>2, <1>3 DEF Inv, ToServer, SGreets
<1>8. ToClient'
  BY <1>1, <1>2, <1>3 DEF Inv, ToClient, Positions, SGreets, Greeting
<1>9. LevelsAgreed'
  BY <1>1, <1>2, <1>3, <1>6 DEF Inv, LevelsAgreed, SData
<1>10. FormsUnderstood'
  BY <1>3, FormsWhenRead
<1>11. DataChannel' /\ Outcomes'
  BY <1>1, <1>2, <1>3 DEF Inv, DataChannel, Outcomes, SData, reqs
<1> QED
  BY <1>4, <1>5, <1>7, <1>8, <1>9, <1>10, <1>11 DEF Inv

\* The banner and the greeting are the first two messages to the client.
LEMMA SGreetsKeeps ==
  ASSUME Inv, SBanner \/ SGreeting
  PROVE  Inv'
<1>1. toC \in Seq(ControlMessage) /\ lev.s \in Levels
  BY DEF Inv, TypeOK
<1>2. PICK m \in ControlMessage :
        /\ toC' = Append(toC, m) /\ m.kind \in {"banner", "greeting"}
        /\ \/ spc = "start" /\ spc' = "greet"
           \/ spc = "greet" /\ spc' = "greeted" /\ m = Greeting(lev.s)
        /\ UNCHANGED <<given, ssh, toS, cpc, sel, quic, reqs, tasks>>
  <2>1. [kind |-> "banner"] \in ControlMessage
    BY DEF ControlMessage
  <2>2. Greeting(lev.s) \in ControlMessage /\ Greeting(lev.s).kind = "greeting"
    BY <1>1, GreetingFacts
  <2> QED
    BY <2>1, <2>2 DEF SBanner, SGreeting, SSend
<1>3. toC' \in Seq(ControlMessage)
  BY <1>1, <1>2, SendFacts
<1>4. UNCHANGED <<lev, cfg, ssh, toS, cpc, sel>>
  BY <1>2 DEF given
<1>5. TypeOK'
  BY <1>2, <1>3, <1>4 DEF Inv, TypeOK, quic, reqs, tasks
<1>6. Positions'
  BY <1>2, <1>4 DEF Inv, Positions, SGreets, SData
<1>7. Ready' = Ready /\ Agreed' = Agreed /\ Message(Agreed)' = Message(Agreed)
      /\ Greeting(lev.c)' = Greeting(lev.c) /\ Greeting(lev.s)' = Greeting(lev.s)
  BY <1>4 DEF Ready, Unsupported, Agreed, Message, Form, Creds, Greeting
<1>8. ToServer'
  BY <1>2, <1>4, <1>7 DEF Inv, ToServer, SGreets
<1>9. ToClient'
  <2>1. cpc \in {"banner", "greet", "greeted"} \cup Ended
    BY <1>2 DEF Inv, Positions, TypeOK, SGreets, SData, CData
  <2>2. CASE cpc = "banner" /\ spc = "start"
    <3>1. Len(toC) = 0
      BY <2>2 DEF Inv, ToClient
    <3>2. Len(toC') = 1
      BY <1>1, <1>2, <3>1, SendFirst
    <3> QED
      BY <1>2, <1>4, <2>2, <3>2 DEF ToClient, CData
  <2>3. CASE cpc = "banner" /\ spc = "greet"
    <3>1. Len(toC) = 1
      BY <2>3 DEF Inv, ToClient
    <3>2. Len(toC') = 2 /\ toC'[2] = Greeting(lev.s)
      BY <1>1, <1>2, <2>3, <3>1, SendSecond
    <3> QED
      BY <1>2, <1>4, <1>7, <2>3, <3>2 DEF ToClient, CData
  <2>4. CASE cpc \in {"greet", "greeted"}
    <3>1. spc = "greet" /\ Len(toC) = 0
      BY <1>2, <2>4 DEF Inv, ToClient, Positions
    <3>2. Len(toC') = 1 /\ toC'[1] = Greeting(lev.s)
      BY <1>1, <1>2, <3>1, SendFirst
    <3> QED
      BY <1>2, <1>4, <1>7, <2>4, <3>1, <3>2 DEF ToClient, CData
  <2>5. CASE cpc \in Ended
    BY <1>4, <2>5 DEF ToClient, CData, Ended
  <2> QED
    BY <1>2, <2>1, <2>2, <2>3, <2>4, <2>5
<1>10. LevelsAgreed'
  BY <1>2, <1>4, <1>7 DEF Inv, LevelsAgreed, SData
<1>11. FormsUnderstood'
  BY <1>2, FormsWhenToldClient DEF given
<1>12. DataChannel' /\ Outcomes'
  BY <1>2, <1>4 DEF Inv, DataChannel, Outcomes, SData, quic, reqs, tasks
<1> QED
  BY <1>5, <1>6, <1>8, <1>9, <1>10, <1>11, <1>12 DEF Inv

\* The first message to the server is the client's greeting, and it settles
\* on the level that the client settles on.
LEMMA SReadGreetingKeeps ==
  ASSUME Inv, SReadGreeting
  PROVE  Inv'
<1>1. TypeOK /\ toS \in Seq(ControlMessage) /\ lev.c \in Levels
  BY DEF Inv, TypeOK
<1>2. /\ spc = "greeted" /\ spc' = "message" /\ toS # <<>> /\ toS' = Tail(toS)
      /\ sel' = [sel EXCEPT !.s = Chosen(lev.s, Head(toS).level)]
      /\ UNCHANGED <<given, ssh, toC, cpc, quic, reqs, tasks>>
  BY DEF SReadGreeting
<1>3. UNCHANGED <<lev, cfg, ssh, toC, cpc>>
  BY <1>2 DEF given
<1>4. /\ toS' \in Seq(ControlMessage)
      /\ Len(toS) \in Nat /\ Len(toS) >= 1 /\ Len(toS') = Len(toS) - 1
      /\ \A i \in 1..Len(toS) - 1 : toS'[i] = toS[i + 1]
      /\ Head(toS) = toS[1]
  BY <1>1, <1>2, TakeFacts
<1>5. /\ Len(toS) <= 2 /\ toS[1] = Greeting(lev.c)
      /\ Len(toS) = 2 => Ready /\ toS[2] = Message(Agreed)
  BY <1>2, <1>4 DEF Inv, ToServer, SGreets
<1>6. Chosen(lev.s, Head(toS).level) = Agreed
  BY <1>1, <1>4, <1>5, GreetingFacts, AgreedFacts
<1>7. Agreed \in Levels /\ Agreed' = Agreed
  BY <1>1, <1>3, AgreedFacts DEF Agreed
<1>8. sel \in [c : {0} \cup Levels, s : {0} \cup Levels]
  BY <1>1 DEF TypeOK
<1>9. /\ sel' \in [c : {0} \cup Levels, s : {0} \cup Levels]
      /\ sel'.s = Agreed /\ sel'.c = sel.c
  BY <1>2, <1>6, <1>7, <1>8
<1>10. /\ Ready' = Ready /\ Message(Agreed)' = Message(Agreed)
       /\ Greeting(lev.s)' = Greeting(lev.s)
  BY <1>3, <1>7, <1>9 DEF Ready, Unsupported, Message, Form, Creds, Greeting
<1>11. cpc \in {"greeted", "message", "await"} \cup Ended
  <2>1. ~(cpc \in {"banner", "greet"})
    BY <1>4 DEF Inv, ToServer
  <2> QED
    BY <1>2, <2>1 DEF Inv, Positions, TypeOK, SData, CData
<1>12. TypeOK'
  BY <1>1, <1>2, <1>3, <1>4, <1>9 DEF TypeOK, quic, reqs, tasks
<1>13. Positions'
  BY <1>2, <1>3, <1>11 DEF Inv, Positions, CData, Ended
<1>14. ToServer'
  <2>1. cpc \in {"greeted", "message"} => Len(toS) = 1
    BY <1>2 DEF Inv, ToServer, SGreets
  <2>2. CASE Len(toS) = 1
    <3>1. Len(toS') = 0
      BY <1>4, <2>2
    <3>2. cpc' \notin {"banner", "greet"}
      BY <1>3, <1>11 DEF Ended
    <3>3. spc' = "message"
      BY <1>2
    <3> QED
      BY <3>1, <3>2, <3>3 DEF ToServer, SGreets
  <2>3. CASE Len(toS) = 2
    <3>1. 2 - 1 = 1 /\ 1 \in 1..1 /\ 1 + 1 = 2
      OBVIOUS
    <3>2. Len(toS') = 1 /\ toS'[1] = Message(Agreed)' /\ Ready'
      BY <1>4, <1>5, <1>10, <2>3, <3>1
    <3>3. cpc' \notin {"banner", "greet", "greeted", "message"}
      BY <1>3, <1>11, <2>1, <2>3 DEF Ended
    <3>4. spc' = "message"
      BY <1>2
    <3> QED
      BY <3>2, <3>3, <3>4 DEF ToServer, SGreets
  <2> QED
    BY <1>4, <1>5, <2>2, <2>3
<1>15. ToClient'
  BY <1>2, <1>3, <1>10, <1>11 DEF Inv, ToClient, CData, Ended
<1>16. LevelsAgreed'
  BY <1>2, <1>3, <1>7, <1>9 DEF Inv, LevelsAgreed, SData
<1>17. FormsUnderstood'
  BY <1>2, <1>3, FormsWhenRead
<1>18. DataChannel' /\ Outcomes'
  BY <1>2, <1>3 DEF Inv, DataChannel, Outcomes, SData, quic, reqs, tasks
<1> QED
  BY <1>12, <1>13, <1>14, <1>15, <1>16, <1>17, <1>18 DEF Inv

\* The second is the client's message, at a level that the server knows: it
\* is never malformed.
LEMMA SReadMessageKeeps ==
  ASSUME Inv, SReadMessage
  PROVE  Inv'
<1>1. TypeOK /\ toS \in Seq(ControlMessage)
  BY DEF Inv, TypeOK
<1>2. /\ spc = "message" /\ toS # <<>> /\ toS' = Tail(toS)
      /\ UNCHANGED <<given, ssh, cpc, sel, link, qc, reqs, work>>
  BY DEF SReadMessage
<1>3. /\ Len(toS) = 1 /\ Len(toS') = 0 /\ Head(toS) = toS[1]
      /\ toS' \in Seq(ControlMessage)
  <2>1. Len(toS) <= 1
    BY <1>2 DEF Inv, ToServer
  <2> QED
    BY <1>1, <1>2, <2>1, TakeOnly, TakeFacts
<1>4. Ready /\ Head(toS) = Message(Agreed)
  BY <1>2, <1>3 DEF Inv, ToServer
<1>5. Understands(lev.s, Head(toS))
  BY <1>1, <1>4, AgreedIsUnderstood
<1>6. spc' = "prepare" /\ UNCHANGED <<toC, qs, handler>>
  BY <1>5 DEF SReadMessage
<1>7. UNCHANGED <<lev, cfg, ssh, toC, cpc, sel>>
  BY <1>2, <1>6 DEF given
<1>8. cpc \in {"await"} \cup Ended
  <2>1. ~(cpc \in {"greeted", "message"})
    BY <1>2, <1>3 DEF Inv, ToServer
  <2> QED
    BY <1>2, <2>1 DEF Inv, Positions, TypeOK, SData, SGreets, CData
<1>9. TypeOK'
  BY <1>1, <1>2, <1>3, <1>6, <1>7 DEF TypeOK, reqs
<1>10. Positions'
  BY <1>2, <1>6, <1>7, <1>8 DEF Inv, Positions, CData, Ended
<1>11. ToServer'
  BY <1>3, <1>6, <1>7, <1>8 DEF ToServer, SGreets, Ended
<1>12. ToClient'
  BY <1>2, <1>6, <1>7, <1>8 DEF Inv, ToClient, CData, Ended
<1>13. Ready' = Ready /\ Agreed' = Agreed
  BY <1>7 DEF Ready, Unsupported, Agreed
<1>14. LevelsAgreed'
  BY <1>2, <1>4, <1>6, <1>7, <1>13 DEF Inv, LevelsAgreed, SData
<1>15. FormsUnderstood'
  BY <1>2, <1>7, FormsWhenRead
<1>16. DataChannel' /\ Outcomes'
  BY <1>2, <1>6, <1>7 DEF Inv, DataChannel, Outcomes, SData, reqs
<1> QED
  BY <1>9, <1>10, <1>11, <1>12, <1>14, <1>15, <1>16 DEF Inv

\* What the server sends once it is prepared: its message, and the report.
LEMMA SAnswersKeeps ==
  ASSUME Inv, SSendMessage \/ SReport
  PROVE  Inv'
<1>1. TypeOK /\ toC \in Seq(ControlMessage)
  BY DEF Inv, TypeOK
<1>2. Ready /\ sel.s = Agreed
  BY DEF SSendMessage, SReport, SSend, Inv, LevelsAgreed, SData
<1>3. /\ Message(Agreed) \in ControlMessage /\ Message(Agreed).kind = "message"
      /\ Understands(lev.c, Message(Agreed))
  BY <1>1, <1>2, AgreedIsUnderstood
<1>4. PICK m \in ControlMessage :
        /\ toC' = Append(toC, m)
        /\ m.kind = "message" => Understands(lev.c, m)
        /\ \/ spc = "prepare" /\ spc' = "accept" /\ m.kind = "message"
           \/ spc = "report" /\ spc' = "leaving" /\ m.kind = "report"
        /\ UNCHANGED <<given, ssh, toS, cpc, sel, quic, reqs, tasks>>
  <2>1. [kind |-> "report"] \in ControlMessage
    BY DEF ControlMessage
  <2> QED
    BY <1>2, <1>3, <2>1 DEF SSendMessage, SReport, SSend
<1>5. toC' \in Seq(ControlMessage)
  BY <1>1, <1>4, SendFacts
<1>6. UNCHANGED <<lev, cfg, ssh, toS, cpc, sel>>
  BY <1>4 DEF given
<1>7. TypeOK'
  BY <1>1, <1>4, <1>5, <1>6 DEF TypeOK, quic, reqs, tasks
<1>8. Positions'
  BY <1>4, <1>6 DEF Inv, Positions, SGreets, SData
<1>9. ToServer'
  BY <1>4, <1>6 DEF Inv, ToServer, Positions, SGreets, SData
<1>10. ToClient'
  <2>1. CASE cpc = "await"
    <3>1. spc = "prepare" /\ Len(toC) = 0
      BY <1>4, <2>1 DEF Inv, ToClient, Positions
    <3>2. Len(toC') = 1 /\ toC'[1].kind = "message"
      BY <1>1, <1>4, <3>1, SendFirst
    <3> QED
      BY <1>4, <1>6, <2>1, <3>1, <3>2 DEF ToClient, CData
  <2>2. CASE cpc \in CData
    <3>1. spc = "report" /\ Len(toC) = 0
      BY <1>4, <2>2 DEF Inv, ToClient, Positions, SData
    <3>2. Len(toC') = 1
      BY <1>1, <1>4, <3>1, SendFirst
    <3> QED
      BY <1>4, <1>6, <2>2, <3>1, <3>2 DEF ToClient, CData
  <2>3. CASE cpc \in Ended
    BY <1>6, <2>3 DEF ToClient, CData, Ended
  <2>4. cpc \in {"await"} \cup CData \cup Ended
    BY <1>4 DEF Inv, Positions, TypeOK, SGreets, SData, CData
  <2> QED
    BY <2>1, <2>2, <2>3, <2>4
<1>11. Ready' = Ready /\ Agreed' = Agreed
  BY <1>6 DEF Ready, Unsupported, Agreed
<1>12. LevelsAgreed'
  BY <1>2, <1>4, <1>6, <1>11 DEF Inv, LevelsAgreed
<1>13. FormsUnderstood'
  BY <1>4, FormsWhenToldClient DEF given
<1>14. DataChannel' /\ Outcomes'
  BY <1>4, <1>6 DEF Inv, DataChannel, Outcomes, SData, quic, reqs, tasks
<1> QED
  BY <1>7, <1>8, <1>9, <1>10, <1>12, <1>13, <1>14 DEF Inv

\* On the data channel the server goes from accept to report; nothing of it
\* is seen on the control channel.
LEMMA ServerDataKeeps ==
  ASSUME Inv, SAccept \/ SConnected \/ SHandshakeFails \/ SSeesClose
              \/ SQuicLost \/ SDrain
  PROVE  Inv'
<1>1. /\ spc \in {"accept", "handshake", "serve", "drain"}
      /\ spc' \in {"handshake", "serve", "drain", "report"}
      /\ qs' \in {qs, "up", "closed"} /\ (spc' = "report" => qs' = "closed")
      /\ UNCHANGED <<given, ctrl, cpc, link, qc, reqs, tasks>>
  BY DEF SAccept, SConnected, SHandshakeFails, SSeesClose, SQuicLost, SDrain,
         SLeavesLoop, quic
<1>2. qc # "none"
  BY DEF SAccept, SConnected, SHandshakeFails, SSeesClose, SQuicLost, SDrain,
         SLeavesLoop, Inv, DataChannel, SData
<1>3. UNCHANGED <<lev, cfg, ssh, toC, toS, sel>>
  BY <1>1 DEF given, ctrl
<1>4. TypeOK'
  BY <1>1, <1>3 DEF Inv, TypeOK, reqs, tasks
<1>5. cpc \in CData \cup Ended /\ cpc # "linger"
  BY <1>1, <1>2 DEF Inv, Positions, DataChannel, TypeOK, CData
<1>6. cpc # "ok"
  BY <1>1, <1>2 DEF Inv, Positions, DataChannel
<1>7. Positions'
  BY <1>1, <1>3, <1>5, <1>6 DEF Positions, CData, SData, Ended
<1>8. Ready' = Ready /\ Agreed' = Agreed
  BY <1>3 DEF Ready, Unsupported, Agreed
<1>9. ToServer' /\ ToClient'
  BY <1>1, <1>3, <1>5 DEF Inv, ToServer, ToClient, SGreets, CData, Ended
<1>10. LevelsAgreed'
  BY <1>1, <1>3, <1>8 DEF Inv, LevelsAgreed, SData
<1>11. FormsUnderstood'
  BY <1>3, FormsWhenRead
<1>12. DataChannel' /\ Outcomes'
  BY <1>1, <1>2, <1>3 DEF Inv, DataChannel, Outcomes, reqs, tasks
<1> QED
  BY <1>4, <1>7, <1>9, <1>10, <1>11, <1>12 DEF Inv

-----------------------------------------------------------------------------
(* The handlers, and what may go wrong around both processes.              *)

\* Work once done stays done, and both processes are where they were.
LEMMA AsideKeeps ==
  ASSUME Inv, UNCHANGED <<lev, cfg, toC, toS, sel, cpc, spc, qc, qs, reqs>>,
         ssh' \in {"up", "down"}, link' \in {"ok", "cut"},
         handler' \in [Requests -> {"none", "ended", "cut"} \cup Live],
         work' \in [Requests -> BOOLEAN],
         \A k \in Requests : k > n => handler'[k] = "none" /\ ~work'[k],
         \A k \in Requests : work[k] => work'[k]
  PROVE  Inv'
<1>1. TypeOK'
  BY DEF Inv, TypeOK, reqs
<1>2. Ready' = Ready /\ Agreed' = Agreed /\ Message(Agreed)' = Message(Agreed)
      /\ Greeting(lev.c)' = Greeting(lev.c) /\ Greeting(lev.s)' = Greeting(lev.s)
  BY DEF Ready, Unsupported, Agreed, Message, Form, Creds, Greeting
<1>3. Positions' /\ ToServer' /\ ToClient' /\ LevelsAgreed'
  BY <1>2 DEF Inv, Positions, ToServer, ToClient, LevelsAgreed
<1>4. FormsUnderstood'
  BY FormsWhenRead
<1>5. DataChannel' /\ Outcomes'
  BY DEF Inv, DataChannel, Outcomes, reqs
<1> QED
  BY <1>1, <1>3, <1>4, <1>5 DEF Inv

\* A handler does its work before it tells of success.
LEMMA HandlerKeeps ==
  ASSUME Inv, NEW k \in Requests, HandlerNext(k)
  PROVE  Inv'
<1>1. UNCHANGED <<given, ctrl, cpc, spc, quic, reqs>>
  BY DEF HandlerNext, HStart, HWork, HEnd
<1>2. UNCHANGED <<lev, cfg, ssh, toC, toS, sel, link, qc, qs>>
  BY <1>1 DEF given, ctrl, quic
<1>3. /\ handler \in [Requests -> {"none", "ended", "cut"} \cup Live]
      /\ work \in [Requests -> BOOLEAN] /\ n \in 0..MaxRequests /\ k \in Nat
      /\ \A j \in Requests : j > n => handler[j] = "none" /\ ~work[j]
      /\ ssh \in {"up", "down"} /\ link \in {"ok", "cut"}
  BY DEF Inv, TypeOK, Requests
<1>4. ~(k > n)
  BY <1>3 DEF HandlerNext, HStart, HWork, HEnd, Live
<1>5. /\ handler' \in [Requests -> {"none", "ended", "cut"} \cup Live]
      /\ \A j \in Requests : j # k => handler'[j] = handler[j]
  BY <1>3 DEF HandlerNext, HStart, HWork, HEnd, Live
<1>6. /\ work' \in [Requests -> BOOLEAN]
      /\ \A j \in Requests : j # k => work'[j] = work[j]
      /\ work[k] => work'[k]
  BY <1>3 DEF HandlerNext, HStart, HWork, HEnd
<1>7. \A j \in Requests : j > n => handler'[j] = "none" /\ ~work'[j]
  BY <1>3, <1>4, <1>5, <1>6
<1>8. \A j \in Requests : work[j] => work'[j]
  BY <1>6
<1> QED
  BY <1>1, <1>2, <1>3, <1>5, <1>6, <1>7, <1>8, AsideKeeps

\* ssh and the network path fail without touching what is settled.
LEMMA WorldKeeps ==
  ASSUME Inv, SshDies \/ LinkCut \/ UNCHANGED vars
  PROVE  Inv'
<1>1. /\ UNCHANGED <<lev, cfg, toC, toS, sel, cpc, spc, qc, qs, reqs, handler, work>>
      /\ ssh' \in {ssh, "down"} /\ link' \in {link, "cut"}
  BY DEF SshDies, LinkCut, vars, given, ctrl, quic, tasks
<1>2. /\ handler \in [Requests -> {"none", "ended", "cut"} \cup Live]
      /\ work \in [Requests -> BOOLEAN]
      /\ \A j \in Requests : j > n => handler[j] = "none" /\ ~work[j]
      /\ ssh \in {"up", "down"} /\ link \in {"ok", "cut"}
  BY DEF Inv, TypeOK
<1> QED
  BY <1>1, <1>2, AsideKeeps

-----------------------------------------------------------------------------
(* The theorems.                                                           *)

\* Both pipes are empty and no level is selected.
LEMMA InitInv == Init => Inv
<1> SUFFICES ASSUME Init PROVE Inv
  OBVIOUS
<1>1. <<>> \in Seq(ControlMessage) /\ Len(<<>>) = 0
  OBVIOUS
<1>2. TypeOK
  BY <1>1 DEF Init, TypeOK
<1>3. Positions /\ ToServer /\ ToClient
  BY <1>1 DEF Init, Positions, ToServer, ToClient, SGreets, CData
<1>4. LevelsAgreed /\ FormsUnderstood
  BY DEF Init, LevelsAgreed, FormsUnderstood, SData, CData
<1>5. DataChannel /\ Outcomes
  BY DEF Init, DataChannel, Outcomes, SData, CData
<1> QED
  BY <1>2, <1>3, <1>4, <1>5 DEF Inv

\* No step of either program, of a handler or of the world leaves the invariant.
LEMMA Inductive == Inv /\ [Next]_vars => Inv'
<1> SUFFICES ASSUME Inv, [Next]_vars PROVE Inv'
  OBVIOUS
<1>1. CASE ClientNext
  BY <1>1, CBannerKeeps, CSendGreetingKeeps, CReadGreetingKeeps,
     CSendMessageKeeps, ClientFailsKeeps, CReadMessageKeeps,
     ClientConnectsKeeps, ClientTurnsKeeps, COpenedKeeps, ClientSettlesKeeps,
     CReportKeeps, CFinishKeeps, CQuicLostKeeps DEF ClientNext
<1>2. CASE ServerNext
  BY <1>2, SGreetsKeeps, SReadGreetingKeeps, SReadMessageKeeps,
     ServerFailsKeeps, SRefuseKeeps, SAnswersKeeps, ServerDataKeeps,
     SLeaveKeeps DEF ServerNext
<1>3. CASE \E k \in Requests : HandlerNext(k)
  BY <1>3, HandlerKeeps
<1>4. CASE SshDies \/ LinkCut \/ Over \/ UNCHANGED vars
  BY <1>4, WorldKeeps DEF Over
<1> QED
  BY <1>1, <1>2, <1>3, <1>4 DEF Next

\* The inductive invariant holds at every moment of every run.
THEOREM Invariance == Spec => []Inv
BY InitInv, Inductive, PTL DEF Spec

\* Every variable keeps its type, and nothing runs for a request that the
\* client has not made.
THEOREM TypeCorrect == Spec => []TypeOK
<1>1. Inv => TypeOK
  BY DEF Inv
<1> QED
  BY <1>1, Invariance, PTL

\* Programs of any two versions send each other only messages and
\* credentials that the other knows (control/channel.rs, compat.rs): the
\* server finds no client message malformed.
THEOREM NothingMalformed == Spec => []FormsUnderstood
<1>1. Inv => FormsUnderstood
  BY DEF Inv
<1> QED
  BY <1>1, Invariance, PTL

\* A client that exits with success (main_loop.rs `run`) was told of the
\* success of every request, each of them was carried out, and the server has
\* closed the connection and sent its report.
THEOREM SuccessMeansComplete == Spec => []SuccessIsComplete
<1>1. Inv => SuccessIsComplete
  <2> SUFFICES ASSUME Inv, cpc = "ok", ~cfg.dry
               PROVE  /\ \A k \in 1..n : told[k] = "ok" /\ work[k]
                      /\ qs = "closed"
                      /\ spc \in {"leaving", "ok"}
    BY DEF SuccessIsComplete
  <2>1. spc \in {"leaving", "ok"}
    BY DEF Inv, Positions
  <2>2. qs = "closed"
    BY <2>1 DEF Inv, DataChannel
  <2>3. \A k \in 1..n : told[k] = "ok" /\ k \in Requests
    BY DEF Inv, Outcomes, TypeOK, Requests
  <2>4. \A k \in 1..n : work[k]
    BY <2>3 DEF Inv, Outcomes
  <2> QED
    BY <2>1, <2>2, <2>3, <2>4
<1> QED
  BY <1>1, Invariance, PTL

\* No handler starts after the report (server/connection.rs: the accept loop
\* is over by then), and none does any work for a client that has ended well.
THEOREM QuietAfterSuccess == Spec => NothingAfterSuccess
<1>1. ASSUME Inv, [Next]_vars, cpc = "ok" \/ spc \in {"leaving", "ok"}
      PROVE  /\ \A k \in Requests : handler[k] = "none" => handler'[k] = "none"
             /\ cpc = "ok" => UNCHANGED work
  <2>1. spc # "serve"
    <3>1. CASE cpc = "ok" /\ cfg.dry
      BY <1>1, <3>1 DEF Inv, DataChannel, SData
    <3> QED
      BY <1>1, <3>1 DEF Inv, Positions
  <2>2. CASE \E k \in Requests : HandlerNext(k)
    <3>1. PICK k \in Requests : HWork(k) \/ HEnd(k)
      BY <2>1, <2>2 DEF HandlerNext, HStart
    <3>2. handler[k] \in Live
      BY <3>1 DEF HWork, HEnd, Live
    <3>3. \A j \in Requests : handler[j] = "none" => handler'[j] = "none"
      BY <3>1, <3>2, <1>1 DEF HWork, HEnd, Live, Inv, TypeOK
    <3>4. cpc = "ok" => work' = work
      <4>1. CASE cpc = "ok"
        <5>1. k \in 1..n
          BY <1>1, <3>2 DEF Inv, TypeOK, Requests, Live
        <5>2. told[k] = "ok"
          BY <1>1, <4>1, <5>1 DEF Inv, Outcomes
        <5>3. work[k] = TRUE
          BY <1>1, <5>2 DEF Inv, Outcomes, TypeOK
        <5>4. [work EXCEPT ![k] = TRUE] = work
          BY <1>1, <5>3 DEF Inv, TypeOK
        <5> QED
          BY <3>1, <5>4 DEF HWork, HEnd
      <4> QED
        BY <4>1
    <3> QED
      BY <3>3, <3>4
  <2>3. CASE ServerNext
    <3>1. UNCHANGED handler \/ (\E r : SExit(r))
      BY <2>3 DEF ServerNext, SBanner, SGreeting, SReadGreeting, SReadMessage,
         SPipeFails, SRefuse, SGivesUp, SSendMessage, SAccept, SAcceptTimeout,
         SConnected, SHandshakeFails, SSeesClose, SQuicLost, SDrain, SReport,
         SLeave, SSend, SLeavesLoop, tasks
    <3>2. UNCHANGED work
      BY <2>3 DEF ServerNext, SBanner, SGreeting, SReadGreeting, SReadMessage,
         SPipeFails, SRefuse, SGivesUp, SSendMessage, SAccept, SAcceptTimeout,
         SConnected, SHandshakeFails, SSeesClose, SQuicLost, SDrain, SReport,
         SLeave, SSend, SLeavesLoop, tasks
    <3> QED
      BY <1>1, <3>1, <3>2, SExitFacts DEF Inv
  <2>4. CASE ClientNext
    BY <2>4 DEF ClientNext, CBanner, CSendGreeting, CReadGreeting, CSendMessage,
       CCannotSend, CReadMessage, CPipeFails, CConnect, CConnected,
       CConnectFails, CNext, COpened, CFatal, CRequestOk, CRequestFails, CClose,
       CReport, CFinish, CQuicLost, CSend, tasks
  <2>5. CASE SshDies \/ LinkCut \/ Over \/ UNCHANGED vars
    BY <2>5 DEF SshDies, LinkCut, Over, vars, tasks
  <2> QED
    BY <1>1, <2>2, <2>3, <2>4, <2>5 DEF Next
<1>2. Inv /\ [Next]_vars =>
        [(cpc = "ok" \/ spc \in {"leaving", "ok"}) =>
           (\A k \in Requests : handler[k] = "none" => handler'[k] = "none")
           /\ (cpc = "ok" => UNCHANGED work)]_vars
  BY <1>1
<1> QED
  BY <1>2, Invariance, PTL DEF Spec, NothingAfterSuccess
=============================================================================
