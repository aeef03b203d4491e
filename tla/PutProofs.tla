------------------------------ MODULE PutProofs ------------------------------
(***************************************************************************)
(* The safety properties of module Put, proved for every window and every  *)
(* bound on the length of the source, and that a PUT implements FileCopy.  *)
(*                                                                         *)
(* Inv is inductive.  It is kept by each action; the actions that only     *)
(* make one side return, and the server's steps that only move its program *)
(* counter, share a lemma.                                                 *)
(***************************************************************************)
EXTENDS Put, TLAPS

USE WindowAssumption, MaxLenAssumption

-----------------------------------------------------------------------------
(* What the stream operators return, so that no proof below looks inside a *)
(* stream record.                                                          *)

\* A new stream is empty and both of its ends are held.
LEMMA NewStreamFacts ==
  /\ NewStream \in Stream
  /\ Len(NewStream.log) = 0 /\ NewStream.log = <<>>
  /\ NewStream.read = 0
  /\ ~NewStream.fin /\ ~NewStream.stop
BY DEF NewStream, Stream

\* A write appends one item and disturbs nothing else: streams keep order.
LEMMA WriteFacts ==
  ASSUME NEW s \in Stream, NEW k \in Kind, NEW v \in Nat
  PROVE  /\ Write(s, k, v) \in Stream
         /\ Len(Write(s, k, v).log) = Len(s.log) + 1
         /\ \A i \in 1..Len(s.log) : Write(s, k, v).log[i] = s.log[i]
         /\ Write(s, k, v).log[Len(s.log) + 1] = [kind |-> k, val |-> v]
         /\ Write(s, k, v).read = s.read
         /\ Write(s, k, v).fin = s.fin
         /\ Write(s, k, v).stop = s.stop
<1> DEFINE item == [kind |-> k, val |-> v]
<1>1. item \in Item
  BY DEF Item
<1>2. Write(s, k, v).log = Append(s.log, item)
  BY DEF Write, Stream
<1>3. Write(s, k, v) \in Stream
  <2>1. Append(s.log, item) \in Seq(Item)
    BY <1>1 DEF Stream
  <2>2. Write(s, k, v) = [s EXCEPT !.log = Append(s.log, item)]
    BY DEF Write, Stream
  <2> QED
    BY <2>1, <2>2 DEF Stream
<1>4. /\ Len(Append(s.log, item)) = Len(s.log) + 1
      /\ \A i \in 1..Len(s.log) : Append(s.log, item)[i] = s.log[i]
      /\ Append(s.log, item)[Len(s.log) + 1] = item
  BY <1>1 DEF Stream
<1>5. /\ Write(s, k, v).read = s.read
      /\ Write(s, k, v).fin = s.fin
      /\ Write(s, k, v).stop = s.stop
  BY DEF Write, Stream
<1> QED
  BY <1>2, <1>3, <1>4, <1>5

\* A read takes one item; the log itself is history.
LEMMA ConsumeFacts ==
  ASSUME NEW s \in Stream
  PROVE  /\ Consume(s) \in Stream
         /\ Consume(s).log = s.log
         /\ Consume(s).read = s.read + 1
         /\ Consume(s).fin = s.fin
         /\ Consume(s).stop = s.stop
BY DEF Consume, Stream

\* Dropping the sending half marks the end and leaves the items to be read.
LEMMA FinishFacts ==
  ASSUME NEW s \in Stream
  PROVE  /\ Finish(s) \in Stream
         /\ Finish(s).log = s.log
         /\ Finish(s).read = s.read
         /\ Finish(s).fin = TRUE
         /\ Finish(s).stop = s.stop
BY DEF Finish, Stream

\* Dropping the receiving half neither reads nor discards anything.
LEMMA StopFacts ==
  ASSUME NEW s \in Stream
  PROVE  /\ Stop(s) \in Stream
         /\ Stop(s).log = s.log
         /\ Stop(s).read = s.read
         /\ Stop(s).fin = s.fin
         /\ Stop(s).stop = TRUE
BY DEF Stop, Stream

\* An available item is one the writer put there.
LEMMA NextItemFacts ==
  ASSUME NEW s \in Stream, Available(s)
  PROVE  /\ NextItem(s) \in Item
         /\ s.read + 1 \in 1..Len(s.log)
         /\ NextItem(s) = s.log[s.read + 1]
BY DEF NextItem, Available, Stream

-----------------------------------------------------------------------------
(* Frames.                                                                 *)

\* What the arithmetic of the proofs needs to know of the types.
LEMMA Types ==
  ASSUME TypeOK
  PROVE  /\ up \in Stream /\ Len(up.log) \in Nat /\ up.read \in Nat
         /\ down \in Stream /\ Len(down.log) \in Nat /\ down.read \in Nat
         /\ Len(dest) \in Nat /\ sent \in Nat /\ declared \in Nat
         /\ srcLen \in Nat /\ size \in Nat
         /\ up.fin \in BOOLEAN /\ down.fin \in BOOLEAN
BY DEF TypeOK, Stream

\* send_impl returning drops both halves of its stream and reads nothing.
LEMMA ClientReturns ==
  ASSUME up \in Stream, down \in Stream, NEW o, CReturn(o)
  PROVE  /\ cpc' = o
         /\ up' \in Stream /\ up'.log = up.log /\ up'.read = up.read
         /\ up'.fin = TRUE
         /\ down' \in Stream /\ down'.log = down.log
         /\ down'.read = down.read
BY FinishFacts, StopFacts DEF CReturn

\* So does a handler that returns.
LEMMA ServerReturns ==
  ASSUME up \in Stream, down \in Stream, NEW o, SReturn(o)
  PROVE  /\ spc' = o
         /\ up' \in Stream /\ up'.log = up.log /\ up'.read = up.read
         /\ up'.fin = up.fin
         /\ down' \in Stream /\ down'.log = down.log
         /\ down'.read = down.read
BY FinishFacts, StopFacts DEF SReturn

\* The log of the upward stream keeps its shape while nothing is written.
LEMMA SameLog ==
  ASSUME Inv, UNCHANGED <<sent, declared, job>>, up'.log = up.log
  PROVE  \A i \in 1..Len(up'.log) : up'.log[i] = UpItem(i)'
<1> SUFFICES ASSUME NEW i \in 1..Len(up.log)
             PROVE  up'.log[i] = UpItem(i)'
  OBVIOUS
<1>1. up'.log[i] = UpItem(i)
  BY DEF Inv, UpInv
<1>2. UpItem(i)' = UpItem(i)
  BY DEF UpItem, TrailerItem, Carries
<1> QED
  BY <1>1, <1>2

\* What the handler reads next.
LEMMA NextIs ==
  ASSUME Inv, Available(up)
  PROVE  /\ NextItem(up) = UpItem(up.read + 1)
         /\ NextItem(up) \in Item
         /\ up.read + 1 \in 1..Len(up.log)
BY NextItemFacts, Types DEF Inv, UpInv, Available

\* The client gives up: its streams close and nothing else changes.
LEMMA ClientFails ==
  ASSUME Inv, cpc \notin CEnd, CReturn("failed"),
         UNCHANGED <<job, conn, srcLen, opened, declared, sent, svars>>
  PROVE  Inv'
<1>1. /\ cpc' = "failed"
      /\ up' \in Stream /\ up'.log = up.log /\ up'.read = up.read
      /\ up'.fin = TRUE
      /\ down' \in Stream /\ down'.log = down.log /\ down'.read = down.read
  BY ClientReturns DEF Inv, TypeOK
<1>2. TypeOK'
  BY <1>1 DEF Inv, TypeOK, CState, SState, Metadata, CEnd, SEnd, svars
<1>3. UpInv'
  BY <1>1, SameLog DEF Inv, TypeOK, UpInv, CEnd, svars
<1>4. ClientInv'
  BY <1>1 DEF Inv, TypeOK, UpInv, ClientInv, DownInv, CEnd, svars
<1>5. ServerInv'
  BY <1>1 DEF Inv, TypeOK, UpInv, ServerInv, ClientInv, AtEof, Available,
              Carries, CEnd, svars
<1>6. DownInv'
  BY <1>1 DEF Inv, TypeOK, DownInv, ServerInv, svars
<1>7. DestinationIsPrefix'
  BY <1>1 DEF Inv, TypeOK, DestinationIsPrefix, svars
<1> QED
  BY <1>2, <1>3, <1>4, <1>5, <1>6, <1>7 DEF Inv

\* The handler gives up: its streams close and nothing else changes.
LEMMA ServerFails ==
  ASSUME Inv, spc \notin SEnd, SReturn("failed"),
         UNCHANGED <<job, conn, srcLen, cvars, size, touched, dest, trailer,
                     stamp>>
  PROVE  Inv'
<1>1. /\ spc' = "failed"
      /\ up' \in Stream /\ up'.log = up.log /\ up'.read = up.read
      /\ up'.fin = up.fin
      /\ down' \in Stream /\ down'.log = down.log /\ down'.read = down.read
  BY ServerReturns DEF Inv, TypeOK
<1>2. TypeOK'
  BY <1>1 DEF Inv, TypeOK, CState, SState, Metadata, CEnd, SEnd, cvars, SEnd
<1>3. UpInv'
  BY <1>1, SameLog DEF Inv, TypeOK, UpInv, CEnd, cvars, SEnd
<1>4. ClientInv'
  BY <1>1 DEF Inv, TypeOK, UpInv, ClientInv, DownInv, CEnd, cvars, SEnd
<1>5. ServerInv'
  BY <1>1 DEF Inv, TypeOK, UpInv, ServerInv, ClientInv, AtEof, Available,
              Carries, CEnd, cvars, SEnd
<1>6. DownInv'
  BY <1>1 DEF Inv, TypeOK, DownInv, ServerInv, cvars, SEnd
<1>7. DestinationIsPrefix'
  BY <1>1 DEF Inv, TypeOK, DestinationIsPrefix, cvars, SEnd
<1> QED
  BY <1>2, <1>3, <1>4, <1>5, <1>6, <1>7 DEF Inv

-----------------------------------------------------------------------------
(* The client's actions.                                                   *)

\* send_impl opens the source before anything is written.
LEMMA COpenKeeps == Inv /\ COpen => Inv'
<1> SUFFICES ASSUME Inv, COpen PROVE Inv'
  OBVIOUS
<1>1. up' = up /\ down' = down
  BY DEF COpen
<1>2. TypeOK'
  BY <1>1 DEF Inv, TypeOK, CState, SState, Metadata, CEnd, SEnd, COpen, svars
<1>3. UpInv'
  <2>1. Len(up.log) = 0
    BY DEF Inv, ClientInv, COpen
  <2>2. \A i \in 1..Len(up'.log) : up'.log[i] = UpItem(i)'
    BY <2>1, <1>1
  <2>3. ~up.fin
    BY DEF Inv, UpInv, COpen, CEnd
  <2> QED
    BY <2>2, <2>3, <1>1 DEF Inv, UpInv
<1>4. ClientInv'
  <2>1. /\ Len(up'.log) = 0 /\ sent' = 0 /\ ~touched' /\ down'.read = 0
    BY <1>1 DEF Inv, ClientInv, ServerInv, COpen, svars
  <2>2. opened' = TRUE /\ cpc' = "cmd"
    BY DEF COpen
  <2> QED
    BY <2>1, <2>2 DEF ClientInv
<1>5. ServerInv'
  <2>1. /\ ~touched /\ Len(dest) = 0
        /\ spc \notin {"create", "ready", "payload", "trl", "meta",
                       "confirm", "ok"}
    BY DEF Inv, ClientInv, ServerInv, COpen
  <2>2. declared' \in Nat
    BY DEF Inv, TypeOK, COpen
  <2> QED
    BY <2>1, <2>2 DEF Inv, ServerInv, COpen, svars
<1>6. DownInv'
  BY <1>1 DEF Inv, TypeOK, DownInv, ServerInv, COpen, svars
<1>7. DestinationIsPrefix'
  BY <1>1 DEF Inv, TypeOK, DestinationIsPrefix, COpen, svars
<1> QED
  BY <1>2, <1>3, <1>4, <1>5, <1>6, <1>7 DEF Inv

\* Every way the client has of giving up before its last read.
LEMMA CGivesUpKeeps == Inv /\ (COpenFails \/ CWriteFails \/ CNoResponse \/ CCopyFails \/ CExplained) => Inv'
BY ClientFails DEF COpenFails, CWriteFails, CNoResponse, CCopyFails, CExplained, CEnd

\* The command is the first item of the stream.
LEMMA CSendCmdKeeps == Inv /\ CSendCmd => Inv'
<1> SUFFICES ASSUME Inv, CSendCmd PROVE Inv'
  OBVIOUS
<1>0. /\ up \in Stream /\ down \in Stream
      /\ Len(up.log) = 1 - 1 /\ Len(up.log) \in Nat /\ sent \in Nat
      /\ declared \in Nat /\ up.read \in Nat /\ down.read \in Nat
      /\ sent = 0
    BY Types DEF Inv, ClientInv, DownInv, UpInv, CSendCmd, CWrite, svars
<1>1. /\ up' \in Stream
      /\ Len(up'.log) = Len(up.log) + 1
      /\ \A i \in 1..Len(up.log) : up'.log[i] = up.log[i]
      /\ up'.log[Len(up.log) + 1] = [kind |-> "cmd", val |-> 0]
      /\ up'.read = up.read /\ up'.fin = up.fin
      /\ down' = down
  <2>1. up \in Stream /\ "cmd" \in Kind /\ 0 \in Nat
    BY DEF Inv, TypeOK, Kind
  <2> QED
    BY <2>1, WriteFacts DEF CSendCmd, CWrite
<1>2. TypeOK'
  BY <1>1 DEF Inv, TypeOK, CState, SState, Metadata, CEnd, SEnd, CSendCmd, CWrite, svars
<1>3. UpInv'
  <2>1. ASSUME NEW i \in 1..Len(up'.log)
        PROVE  up'.log[i] = UpItem(i)'
    <3>1. CASE i \in 1..Len(up.log)
      <4>1. up'.log[i] = UpItem(i)
        BY <1>1, <3>1 DEF Inv, UpInv
      <4>2. UpItem(i)' = UpItem(i)
        BY <1>0, <3>1 DEF UpItem, TrailerItem, Carries, CSendCmd, CWrite, svars
      <4> QED
        BY <4>1, <4>2
    <3>2. CASE i = Len(up.log) + 1
      BY <1>0, <1>1, <3>2 DEF UpItem, TrailerItem, Carries, CSendCmd, CWrite, svars
    <3> QED
      BY <1>0, <1>1, <3>1, <3>2
  <2>2. /\ up'.read <= Len(up'.log)
        /\ down'.read <= Len(down'.log)
        /\ up'.fin => cpc' \in CEnd
    BY <1>0, <1>1 DEF Inv, UpInv, CSendCmd, CWrite, svars, CEnd
  <2> QED
    BY <2>1, <2>2 DEF UpInv
<1>4. ClientInv'
  <2>1. /\ UNCHANGED <<opened, declared, touched, spc, down>>
        /\ cpc = "cmd" /\ cpc' = "hdr"
        /\ Len(up'.log) = Len(up.log) + 1
        /\ sent' = sent
    BY <1>1 DEF CSendCmd, CWrite, svars
  <2>2. ClientInv
    BY DEF Inv
  <2> QED
    BY <1>0, <2>1, <2>2 DEF ClientInv
<1>5. ServerInv'
  BY <1>1 DEF Inv, TypeOK, UpInv, ServerInv, ClientInv, AtEof, Available,
              Carries, CEnd, CSendCmd, CWrite, svars
<1>6. DownInv'
  BY <1>1 DEF Inv, TypeOK, DownInv, ServerInv, CSendCmd, CWrite, svars
<1>7. DestinationIsPrefix'
  BY <1>1 DEF Inv, TypeOK, DestinationIsPrefix, CSendCmd, CWrite, svars
<1> QED
  BY <1>2, <1>3, <1>4, <1>5, <1>6, <1>7 DEF Inv

\* The header is the second, and declares the length of the source.
LEMMA CSendHeaderKeeps == Inv /\ CSendHeader => Inv'
<1> SUFFICES ASSUME Inv, CSendHeader PROVE Inv'
  OBVIOUS
<1>0. /\ up \in Stream /\ down \in Stream
      /\ Len(up.log) = 2 - 1 /\ Len(up.log) \in Nat /\ sent \in Nat
      /\ declared \in Nat /\ up.read \in Nat /\ down.read \in Nat
      /\ sent = 0
    BY Types DEF Inv, ClientInv, DownInv, UpInv, CSendHeader, CWrite, svars
<1>1. /\ up' \in Stream
      /\ Len(up'.log) = Len(up.log) + 1
      /\ \A i \in 1..Len(up.log) : up'.log[i] = up.log[i]
      /\ up'.log[Len(up.log) + 1] = [kind |-> "hdr", val |-> declared]
      /\ up'.read = up.read /\ up'.fin = up.fin
      /\ down' = down
  <2>1. up \in Stream /\ "hdr" \in Kind /\ declared \in Nat
    BY DEF Inv, TypeOK, Kind
  <2> QED
    BY <2>1, WriteFacts DEF CSendHeader, CWrite
<1>2. TypeOK'
  BY <1>1 DEF Inv, TypeOK, CState, SState, Metadata, CEnd, SEnd, CSendHeader, CWrite, svars
<1>3. UpInv'
  <2>1. ASSUME NEW i \in 1..Len(up'.log)
        PROVE  up'.log[i] = UpItem(i)'
    <3>1. CASE i \in 1..Len(up.log)
      <4>1. up'.log[i] = UpItem(i)
        BY <1>1, <3>1 DEF Inv, UpInv
      <4>2. UpItem(i)' = UpItem(i)
        BY <1>0, <3>1 DEF UpItem, TrailerItem, Carries, CSendHeader, CWrite, svars
      <4> QED
        BY <4>1, <4>2
    <3>2. CASE i = Len(up.log) + 1
      BY <1>0, <1>1, <3>2 DEF UpItem, TrailerItem, Carries, CSendHeader, CWrite, svars
    <3> QED
      BY <1>0, <1>1, <3>1, <3>2
  <2>2. /\ up'.read <= Len(up'.log)
        /\ down'.read <= Len(down'.log)
        /\ up'.fin => cpc' \in CEnd
    BY <1>0, <1>1 DEF Inv, UpInv, CSendHeader, CWrite, svars, CEnd
  <2> QED
    BY <2>1, <2>2 DEF UpInv
<1>4. ClientInv'
  <2>1. /\ UNCHANGED <<opened, declared, touched, spc, down>>
        /\ cpc = "hdr" /\ cpc' = "resp"
        /\ Len(up'.log) = Len(up.log) + 1
        /\ sent' = sent
    BY <1>1 DEF CSendHeader, CWrite, svars
  <2>2. ClientInv
    BY DEF Inv
  <2> QED
    BY <1>0, <2>1, <2>2 DEF ClientInv
<1>5. ServerInv'
  BY <1>1 DEF Inv, TypeOK, UpInv, ServerInv, ClientInv, AtEof, Available,
              Carries, CEnd, CSendHeader, CWrite, svars
<1>6. DownInv'
  BY <1>1 DEF Inv, TypeOK, DownInv, ServerInv, CSendHeader, CWrite, svars
<1>7. DestinationIsPrefix'
  BY <1>1 DEF Inv, TypeOK, DestinationIsPrefix, CSendHeader, CWrite, svars
<1> QED
  BY <1>2, <1>3, <1>4, <1>5, <1>6, <1>7 DEF Inv

\* Units of payload follow in the order of the source.
LEMMA CSendUnitKeeps == Inv /\ CSendUnit => Inv'
<1> SUFFICES ASSUME Inv, CSendUnit PROVE Inv'
  OBVIOUS
<1>0. /\ up \in Stream /\ down \in Stream
      /\ Len(up.log) = sent + 3 - 1 /\ Len(up.log) \in Nat /\ sent \in Nat
      /\ declared \in Nat /\ up.read \in Nat /\ down.read \in Nat
      /\ down.log[1].kind = "ok" /\ touched
    BY Types DEF Inv, ClientInv, DownInv, UpInv, CSendUnit, svars
<1>1. /\ up' \in Stream
      /\ Len(up'.log) = Len(up.log) + 1
      /\ \A i \in 1..Len(up.log) : up'.log[i] = up.log[i]
      /\ up'.log[Len(up.log) + 1] = [kind |-> "data", val |-> sent + 1]
      /\ up'.read = up.read /\ up'.fin = up.fin
      /\ down' = down
  <2>1. up \in Stream /\ "data" \in Kind /\ sent + 1 \in Nat
    BY DEF Inv, TypeOK, Kind
  <2> QED
    BY <2>1, WriteFacts DEF CSendUnit
<1>2. TypeOK'
  BY <1>1 DEF Inv, TypeOK, CState, SState, Metadata, CEnd, SEnd, CSendUnit, svars
<1>3. UpInv'
  <2>1. ASSUME NEW i \in 1..Len(up'.log)
        PROVE  up'.log[i] = UpItem(i)'
    <3>1. CASE i \in 1..Len(up.log)
      <4>1. up'.log[i] = UpItem(i)
        BY <1>1, <3>1 DEF Inv, UpInv
      <4>2. UpItem(i)' = UpItem(i)
        BY <1>0, <3>1 DEF UpItem, TrailerItem, Carries, CSendUnit, svars
      <4> QED
        BY <4>1, <4>2
    <3>2. CASE i = Len(up.log) + 1
      BY <1>0, <1>1, <3>2 DEF UpItem, TrailerItem, Carries, CSendUnit, svars
    <3> QED
      BY <1>0, <1>1, <3>1, <3>2
  <2>2. /\ up'.read <= Len(up'.log)
        /\ down'.read <= Len(down'.log)
        /\ up'.fin => cpc' \in CEnd
    BY <1>0, <1>1 DEF Inv, UpInv, CSendUnit, svars, CEnd
  <2> QED
    BY <2>1, <2>2 DEF UpInv
<1>4. ClientInv'
  <2>1. /\ UNCHANGED <<opened, declared, touched, spc, down>>
        /\ cpc = "payload" /\ cpc' = "payload"
        /\ Len(up'.log) = Len(up.log) + 1
        /\ sent' = sent + 1
    BY <1>1 DEF CSendUnit, svars
  <2>2. ClientInv
    BY DEF Inv
  <2> QED
    BY <1>0, <2>1, <2>2 DEF ClientInv
<1>5. ServerInv'
  BY <1>1 DEF Inv, TypeOK, UpInv, ServerInv, ClientInv, AtEof, Available,
              Carries, CEnd, CSendUnit, svars
<1>6. DownInv'
  BY <1>1 DEF Inv, TypeOK, DownInv, ServerInv, CSendUnit, svars
<1>7. DestinationIsPrefix'
  BY <1>1 DEF Inv, TypeOK, DestinationIsPrefix, CSendUnit, svars
<1> QED
  BY <1>2, <1>3, <1>4, <1>5, <1>6, <1>7 DEF Inv

\* The trailer comes after `declared` units.
LEMMA CSendTrailerKeeps == Inv /\ CSendTrailer => Inv'
<1> SUFFICES ASSUME Inv, CSendTrailer PROVE Inv'
  OBVIOUS
<1>0. /\ up \in Stream /\ down \in Stream
      /\ Len(up.log) = sent + 3 - 1 /\ Len(up.log) \in Nat /\ sent \in Nat
      /\ declared \in Nat /\ up.read \in Nat /\ down.read \in Nat
      /\ sent = declared
    BY Types DEF Inv, ClientInv, DownInv, UpInv, CSendTrailer, CWrite, svars
<1>1. /\ up' \in Stream
      /\ Len(up'.log) = Len(up.log) + 1
      /\ \A i \in 1..Len(up.log) : up'.log[i] = up.log[i]
      /\ up'.log[Len(up.log) + 1] = [kind |-> "trl", val |-> (IF Carries THEN 1 ELSE 0)]
      /\ up'.read = up.read /\ up'.fin = up.fin
      /\ down' = down
  <2>1. up \in Stream /\ "trl" \in Kind /\ (IF Carries THEN 1 ELSE 0) \in Nat
    BY DEF Inv, TypeOK, Kind
  <2> QED
    BY <2>1, WriteFacts DEF CSendTrailer, CWrite
<1>2. TypeOK'
  BY <1>1 DEF Inv, TypeOK, CState, SState, Metadata, CEnd, SEnd, CSendTrailer, CWrite, svars
<1>3. UpInv'
  <2>1. ASSUME NEW i \in 1..Len(up'.log)
        PROVE  up'.log[i] = UpItem(i)'
    <3>1. CASE i \in 1..Len(up.log)
      <4>1. up'.log[i] = UpItem(i)
        BY <1>1, <3>1 DEF Inv, UpInv
      <4>2. UpItem(i)' = UpItem(i)
        BY <1>0, <3>1 DEF UpItem, TrailerItem, Carries, CSendTrailer, CWrite, svars
      <4> QED
        BY <4>1, <4>2
    <3>2. CASE i = Len(up.log) + 1
      BY <1>0, <1>1, <3>2 DEF UpItem, TrailerItem, Carries, CSendTrailer, CWrite, svars
    <3> QED
      BY <1>0, <1>1, <3>1, <3>2
  <2>2. /\ up'.read <= Len(up'.log)
        /\ down'.read <= Len(down'.log)
        /\ up'.fin => cpc' \in CEnd
    BY <1>0, <1>1 DEF Inv, UpInv, CSendTrailer, CWrite, svars, CEnd
  <2> QED
    BY <2>1, <2>2 DEF UpInv
<1>4. ClientInv'
  <2>1. /\ UNCHANGED <<opened, declared, touched, spc, down>>
        /\ cpc = "trl" /\ cpc' = "final"
        /\ Len(up'.log) = Len(up.log) + 1
        /\ sent' = sent
    BY <1>1 DEF CSendTrailer, CWrite, svars
  <2>2. ClientInv
    BY DEF Inv
  <2> QED
    BY <1>0, <2>1, <2>2 DEF ClientInv
<1>5. ServerInv'
  BY <1>1 DEF Inv, TypeOK, UpInv, ServerInv, ClientInv, AtEof, Available,
              Carries, CEnd, CSendTrailer, CWrite, svars
<1>6. DownInv'
  BY <1>1 DEF Inv, TypeOK, DownInv, ServerInv, CSendTrailer, CWrite, svars
<1>7. DestinationIsPrefix'
  BY <1>1 DEF Inv, TypeOK, DestinationIsPrefix, CSendTrailer, CWrite, svars
<1> QED
  BY <1>2, <1>3, <1>4, <1>5, <1>6, <1>7 DEF Inv

\* The reset is noticed; only the program counter moves.
LEMMA CStoppedKeeps == Inv /\ CStopped => Inv'
<1> SUFFICES ASSUME Inv, CStopped PROVE Inv'
  OBVIOUS
<1>1. up' = up /\ down' = down
  BY DEF CStopped
<1>2. TypeOK'
  BY <1>1 DEF Inv, TypeOK, CState, SState, Metadata, CEnd, SEnd, CStopped, svars
<1>3. UpInv'
  BY <1>1, SameLog DEF Inv, TypeOK, UpInv, CEnd, CStopped, svars
<1>4. ClientInv'
  BY <1>1 DEF Inv, TypeOK, UpInv, ClientInv, DownInv, CEnd, CStopped, svars
<1>5. ServerInv'
  BY <1>1 DEF Inv, TypeOK, UpInv, ServerInv, ClientInv, AtEof, Available,
              Carries, CEnd, CStopped, svars
<1>6. DownInv'
  BY <1>1 DEF Inv, TypeOK, DownInv, ServerInv, CStopped, svars
<1>7. DestinationIsPrefix'
  BY <1>1 DEF Inv, TypeOK, DestinationIsPrefix, CStopped, svars
<1> QED
  BY <1>2, <1>3, <1>4, <1>5, <1>6, <1>7 DEF Inv

\* An OK lets the payload flow; anything else ends the request.
LEMMA CResponseKeeps == Inv /\ CResponse => Inv'
<1> SUFFICES ASSUME Inv, CResponse PROVE Inv'
  OBVIOUS
<1>a. CASE NextItem(down).kind # "ok"
  BY <1>a, ClientFails DEF CResponse, CEnd
<1>b. CASE NextItem(down).kind = "ok"
  <2>1. /\ up' = up /\ cpc = "resp" /\ cpc' = "payload"
        /\ down' = Consume(down) /\ Available(down)
        /\ UNCHANGED <<job, conn, srcLen, opened, declared, sent, svars>>
    BY <1>b DEF CResponse
  <2>2. /\ down' \in Stream /\ down'.log = down.log /\ down'.read = 1
        /\ down.log[1].kind = "ok" /\ 1 <= Len(down.log)
    <3>1. down \in Stream /\ Len(down.log) \in Nat /\ down.read = 0
      BY <2>1, Types DEF Inv, ClientInv
    <3>2. NextItem(down) = down.log[1] /\ 1 <= Len(down.log)
      BY <2>1, <3>1, NextItemFacts
    <3>3. down' \in Stream /\ down'.log = down.log /\ down'.read = 1
      BY <2>1, <3>1, ConsumeFacts
    <3> QED
      BY <1>b, <3>2, <3>3
  <2>3. TypeOK'
    BY <2>1, <2>2 DEF Inv, TypeOK, CState, svars
  <2>4. UpInv'
    <3>1. \A i \in 1..Len(up'.log) : up'.log[i] = UpItem(i)'
      BY <2>1, SameLog
    <3>2. ~up.fin
      BY <2>1 DEF Inv, UpInv, CEnd
    <3> QED
      BY <2>1, <2>2, <3>1, <3>2 DEF Inv, UpInv
  <2>5. ClientInv'
    BY <2>1, <2>2, Types DEF Inv, ClientInv, svars
  <2>6. ServerInv' /\ DownInv' /\ DestinationIsPrefix'
    BY <2>1, <2>2 DEF Inv, ServerInv, DownInv, DestinationIsPrefix, AtEof,
                     Available, Carries, svars
  <2> QED
    BY <2>3, <2>4, <2>5, <2>6 DEF Inv
<1> QED
  BY <1>a, <1>b

\* At the end of the source the count decides between trailer and failure.
LEMMA CSourceEofKeeps == Inv /\ CSourceEof => Inv'
<1> SUFFICES ASSUME Inv, CSourceEof PROVE Inv'
  OBVIOUS
<1>a. CASE sent # declared
  BY <1>a, ClientFails DEF CSourceEof, CEnd
<1>b. CASE sent = declared
  <2>1. /\ up' = up /\ down' = down /\ cpc = "payload" /\ cpc' = "trl"
        /\ UNCHANGED <<job, conn, srcLen, opened, declared, sent, svars>>
    BY <1>b DEF CSourceEof
  <2>2. TypeOK'
    BY <2>1 DEF Inv, TypeOK, CState, svars
  <2>3. UpInv'
    <3>1. \A i \in 1..Len(up'.log) : up'.log[i] = UpItem(i)'
      BY <2>1, SameLog
    <3> QED
      BY <2>1, <3>1 DEF Inv, UpInv, CEnd
  <2>4. ClientInv'
    BY <1>b, <2>1 DEF Inv, ClientInv, svars
  <2>5. ServerInv' /\ DownInv' /\ DestinationIsPrefix'
    BY <2>1 DEF Inv, ServerInv, DownInv, DestinationIsPrefix, AtEof,
               Available, Carries, svars
  <2> QED
    BY <2>2, <2>3, <2>4, <2>5 DEF Inv
<1> QED
  BY <1>a, <1>b

\* The completion check: a second OK is there only if the server said "ok".
LEMMA CCompleteKeeps == Inv /\ CComplete => Inv'
<1> SUFFICES ASSUME Inv, CComplete PROVE Inv'
  OBVIOUS
<1>a. CASE CVerdict # "ok"
  BY <1>a, ClientFails DEF CComplete, CVerdict, CEnd
<1>b. CASE CVerdict = "ok"
  <2>1. /\ cpc = "final" /\ CReturn("ok") /\ Available(down)
        /\ UNCHANGED <<job, conn, srcLen, opened, declared, sent, svars>>
    BY <1>b DEF CComplete
  <2>2. /\ cpc' = "ok"
        /\ up' \in Stream /\ up'.log = up.log /\ up'.read = up.read
        /\ up'.fin = TRUE
        /\ down' \in Stream /\ down'.log = down.log
        /\ down'.read = down.read
    BY <2>1, ClientReturns, Types DEF Inv
  <2>3. spc = "ok"
    <3>1. NextItem(down).kind = "ok" /\ down.read = 1
      BY <1>b, <2>1 DEF CVerdict, Inv, ClientInv
    <3>2. NextItem(down) = down.log[2] /\ 2 <= Len(down.log)
      BY <2>1, <3>1, NextItemFacts, Types DEF Inv
    <3>3. Len(down.log) = 2
      <4>1. Len(down.log) <= 2
        BY DEF Inv, DownInv
      <4>2. Len(down.log) \in Nat /\ 2 <= Len(down.log)
        BY <3>2, Types DEF Inv
      <4>3. \A n \in Nat : n <= 2 /\ 2 <= n => n = 2
        OBVIOUS
      <4> QED
        BY <4>1, <4>2, <4>3
    <3>4. Len(down.log) = 2 /\ down.log[2].kind = "ok" => spc = "ok"
      BY DEF Inv, DownInv
    <3> QED
      BY <3>1, <3>2, <3>3, <3>4
  <2>4. TypeOK'
    BY <2>1, <2>2 DEF Inv, TypeOK, CState, CEnd, svars
  <2>5. UpInv'
    <3>1. \A i \in 1..Len(up'.log) : up'.log[i] = UpItem(i)'
      BY <2>1, <2>2, SameLog
    <3> QED
      BY <2>1, <2>2, <3>1 DEF Inv, UpInv, CEnd
  <2>6. ClientInv'
    BY <2>1, <2>2, <2>3 DEF Inv, ClientInv, svars
  <2>7. ServerInv' /\ DownInv' /\ DestinationIsPrefix'
    BY <2>1, <2>2, <2>3 DEF Inv, ServerInv, DownInv, DestinationIsPrefix,
                            Carries, svars
  <2> QED
    BY <2>4, <2>5, <2>6, <2>7 DEF Inv
<1> QED
  BY <1>a, <1>b

-----------------------------------------------------------------------------
(* The server's actions.                                                   *)

\* Every way the handler has of giving up without a response.
LEMMA SGivesUpKeeps == Inv /\ (SNoMessage \/ SMetadataFails \/ SRespondFails) => Inv'
BY ServerFails DEF SNoMessage, SMetadataFails, SRespondFails, SEnd

\* The handler takes the command.
LEMMA SCommandKeeps == Inv /\ SCommand => Inv'
<1> SUFFICES ASSUME Inv, SCommand PROVE Inv'
  OBVIOUS
<1>1. /\ up' \in Stream /\ up'.log = up.log /\ up'.fin = up.fin
      /\ up'.read = up.read + 1 /\ up.read < Len(up.log)
      /\ down' = down
  BY ConsumeFacts DEF Inv, TypeOK, SCommand, Available
<1>2. TypeOK'
  BY <1>1 DEF Inv, TypeOK, CState, SState, Metadata, CEnd, SEnd, SCommand, cvars
<1>3. UpInv'
  <2>1. \A i \in 1..Len(up'.log) : up'.log[i] = UpItem(i)'
    BY <1>1, SameLog DEF SCommand, cvars
  <2> QED
    BY <1>1, <2>1, Types DEF Inv, UpInv, SCommand, cvars
<1>4. ClientInv'
  BY <1>1 DEF Inv, TypeOK, UpInv, ClientInv, DownInv, CEnd, SCommand, cvars
<1>5. ServerInv'
  BY <1>1 DEF Inv, TypeOK, UpInv, ServerInv, ClientInv, AtEof, Available,
              Carries, CEnd, SCommand, cvars
<1>6. DownInv'
  BY <1>1 DEF Inv, TypeOK, DownInv, ServerInv, SCommand, cvars
<1>7. DestinationIsPrefix'
  BY <1>1 DEF Inv, TypeOK, DestinationIsPrefix, SCommand, cvars
<1> QED
  BY <1>2, <1>3, <1>4, <1>5, <1>6, <1>7 DEF Inv

\* The destination is a place a file can be put.
LEMMA SDestinationOkKeeps == Inv /\ SDestinationOk => Inv'
<1> SUFFICES ASSUME Inv, SDestinationOk PROVE Inv'
  OBVIOUS
<1>1. up' = up /\ down' = down
  BY DEF SDestinationOk, SFileStep, cvars
<1>2. TypeOK'
  BY <1>1 DEF Inv, TypeOK, CState, SState, Metadata, CEnd, SEnd, SDestinationOk, SFileStep, cvars
<1>3. UpInv'
  BY <1>1, SameLog DEF Inv, TypeOK, UpInv, CEnd, SDestinationOk, SFileStep, cvars
<1>4. ClientInv'
  BY <1>1 DEF Inv, TypeOK, UpInv, ClientInv, DownInv, CEnd, SDestinationOk, SFileStep, cvars
<1>5. ServerInv'
  BY <1>1 DEF Inv, TypeOK, UpInv, ServerInv, ClientInv, AtEof, Available,
              Carries, CEnd, SDestinationOk, SFileStep, cvars
<1>6. DownInv'
  BY <1>1 DEF Inv, TypeOK, DownInv, ServerInv, SDestinationOk, SFileStep, cvars
<1>7. DestinationIsPrefix'
  BY <1>1 DEF Inv, TypeOK, DestinationIsPrefix, SDestinationOk, SFileStep, cvars
<1> QED
  BY <1>2, <1>3, <1>4, <1>5, <1>6, <1>7 DEF Inv

\* It is not: nothing has been touched.
LEMMA SDestinationBadKeeps == Inv /\ SDestinationBad => Inv'
<1> SUFFICES ASSUME Inv, SDestinationBad PROVE Inv'
  OBVIOUS
<1>1. up' = up /\ down' = down
  BY DEF SDestinationBad, SFileStep, cvars
<1>2. TypeOK'
  BY <1>1 DEF Inv, TypeOK, CState, SState, Metadata, CEnd, SEnd, SDestinationBad, SFileStep, cvars
<1>3. UpInv'
  BY <1>1, SameLog DEF Inv, TypeOK, UpInv, CEnd, SDestinationBad, SFileStep, cvars
<1>4. ClientInv'
  BY <1>1 DEF Inv, TypeOK, UpInv, ClientInv, DownInv, CEnd, SDestinationBad, SFileStep, cvars
<1>5. ServerInv'
  BY <1>1 DEF Inv, TypeOK, UpInv, ServerInv, ClientInv, AtEof, Available,
              Carries, CEnd, SDestinationBad, SFileStep, cvars
<1>6. DownInv'
  BY <1>1 DEF Inv, TypeOK, DownInv, ServerInv, SDestinationBad, SFileStep, cvars
<1>7. DestinationIsPrefix'
  BY <1>1 DEF Inv, TypeOK, DestinationIsPrefix, SDestinationBad, SFileStep, cvars
<1> QED
  BY <1>2, <1>3, <1>4, <1>5, <1>6, <1>7 DEF Inv

\* The destination cannot be created: nothing has been touched.
LEMMA SCreateFailsKeeps == Inv /\ SCreateFails => Inv'
<1> SUFFICES ASSUME Inv, SCreateFails PROVE Inv'
  OBVIOUS
<1>1. up' = up /\ down' = down
  BY DEF SCreateFails, SFileStep, cvars
<1>2. TypeOK'
  BY <1>1 DEF Inv, TypeOK, CState, SState, Metadata, CEnd, SEnd, SCreateFails, SFileStep, cvars
<1>3. UpInv'
  BY <1>1, SameLog DEF Inv, TypeOK, UpInv, CEnd, SCreateFails, SFileStep, cvars
<1>4. ClientInv'
  BY <1>1 DEF Inv, TypeOK, UpInv, ClientInv, DownInv, CEnd, SCreateFails, SFileStep, cvars
<1>5. ServerInv'
  BY <1>1 DEF Inv, TypeOK, UpInv, ServerInv, ClientInv, AtEof, Available,
              Carries, CEnd, SCreateFails, SFileStep, cvars
<1>6. DownInv'
  BY <1>1 DEF Inv, TypeOK, DownInv, ServerInv, SCreateFails, SFileStep, cvars
<1>7. DestinationIsPrefix'
  BY <1>1 DEF Inv, TypeOK, DestinationIsPrefix, SCreateFails, SFileStep, cvars
<1> QED
  BY <1>2, <1>3, <1>4, <1>5, <1>6, <1>7 DEF Inv

\* The payload ends with the declared size, or with the stream.
LEMMA SPayloadEndsKeeps == Inv /\ SPayloadEnds => Inv'
<1> SUFFICES ASSUME Inv, SPayloadEnds PROVE Inv'
  OBVIOUS
<1>1. up' = up /\ down' = down
  BY DEF SPayloadEnds, SFileStep, cvars
<1>2. TypeOK'
  BY <1>1 DEF Inv, TypeOK, CState, SState, Metadata, CEnd, SEnd, SPayloadEnds, SFileStep, cvars
<1>3. UpInv'
  BY <1>1, SameLog DEF Inv, TypeOK, UpInv, CEnd, SPayloadEnds, SFileStep, cvars
<1>4. ClientInv'
  BY <1>1 DEF Inv, TypeOK, UpInv, ClientInv, DownInv, CEnd, SPayloadEnds, SFileStep, cvars
<1>5. ServerInv'
  BY <1>1 DEF Inv, TypeOK, UpInv, ServerInv, ClientInv, AtEof, Available,
              Carries, CEnd, SPayloadEnds, SFileStep, cvars
<1>6. DownInv'
  BY <1>1 DEF Inv, TypeOK, DownInv, ServerInv, SPayloadEnds, SFileStep, cvars
<1>7. DestinationIsPrefix'
  BY <1>1 DEF Inv, TypeOK, DestinationIsPrefix, SPayloadEnds, SFileStep, cvars
<1> QED
  BY <1>2, <1>3, <1>4, <1>5, <1>6, <1>7 DEF Inv

\* The payload cannot be written.
LEMMA SWriteFailsKeeps == Inv /\ SWriteFails => Inv'
<1> SUFFICES ASSUME Inv, SWriteFails PROVE Inv'
  OBVIOUS
<1>1. up' = up /\ down' = down
  BY DEF SWriteFails, SFileStep, cvars
<1>2. TypeOK'
  BY <1>1 DEF Inv, TypeOK, CState, SState, Metadata, CEnd, SEnd, SWriteFails, SFileStep, cvars
<1>3. UpInv'
  BY <1>1, SameLog DEF Inv, TypeOK, UpInv, CEnd, SWriteFails, SFileStep, cvars
<1>4. ClientInv'
  BY <1>1 DEF Inv, TypeOK, UpInv, ClientInv, DownInv, CEnd, SWriteFails, SFileStep, cvars
<1>5. ServerInv'
  BY <1>1 DEF Inv, TypeOK, UpInv, ServerInv, ClientInv, AtEof, Available,
              Carries, CEnd, SWriteFails, SFileStep, cvars
<1>6. DownInv'
  <2>1. /\ Len(down.log) = 1 /\ down.log[1].kind = "ok" /\ touched
    BY DEF Inv, DownInv, ServerInv, SWriteFails, SFileStep
  <2> QED
    BY <1>1, <2>1 DEF DownInv, SWriteFails, SFileStep
<1>7. DestinationIsPrefix'
  BY <1>1 DEF Inv, TypeOK, DestinationIsPrefix, SWriteFails, SFileStep, cvars
<1> QED
  BY <1>2, <1>3, <1>4, <1>5, <1>6, <1>7 DEF Inv

\* The handler takes the header and with it the size.
LEMMA SHeaderKeeps == Inv /\ SHeader => Inv'
<1> SUFFICES ASSUME Inv, SHeader PROVE Inv'
  OBVIOUS
<1>0. size' = declared /\ declared \in Nat
  <2>1. up.read = 1 /\ Available(up)
    BY DEF Inv, ServerInv, SHeader
  <2> QED
    BY <2>1, NextIs, Types DEF Inv, UpItem, SHeader
<1>1. /\ up' \in Stream /\ up'.log = up.log /\ up'.fin = up.fin
      /\ up'.read = up.read + 1 /\ up.read < Len(up.log)
      /\ down' = down
  BY ConsumeFacts DEF Inv, TypeOK, SHeader, Available
<1>2. TypeOK'
  BY <1>0, <1>1 DEF Inv, TypeOK, SState, SHeader, cvars
<1>3. UpInv'
  <2>1. \A i \in 1..Len(up'.log) : up'.log[i] = UpItem(i)'
    BY <1>1, SameLog DEF SHeader, cvars
  <2> QED
    BY <1>1, <2>1, Types DEF Inv, UpInv, SHeader, cvars
<1>4. ClientInv'
  BY <1>1 DEF Inv, TypeOK, UpInv, ClientInv, DownInv, CEnd, SHeader, cvars
<1>5. ServerInv'
  <2>1. spc = "hdr" /\ spc' = "create" /\ up.read = 1 /\ up'.read = 2
    BY <1>1 DEF Inv, ServerInv, SHeader
  <2>2. /\ UNCHANGED <<touched, dest, trailer, stamp, opened, declared, sent>>
        /\ ~touched /\ Len(dest) = 0
    BY <2>1 DEF Inv, ServerInv, SHeader, cvars
  <2>3. opened
    BY <1>1, <2>1, Types DEF Inv, ClientInv
  <2> QED
    BY <1>0, <2>1, <2>2, <2>3 DEF ServerInv
<1>6. DownInv'
  BY <1>1 DEF Inv, TypeOK, DownInv, ServerInv, SHeader, cvars
<1>7. DestinationIsPrefix'
  BY <1>1 DEF Inv, TypeOK, DestinationIsPrefix, SHeader, cvars
<1> QED
  BY <1>2, <1>3, <1>4, <1>5, <1>6, <1>7 DEF Inv

\* The destination is created or truncated.
LEMMA SCreateKeeps == Inv /\ SCreate => Inv'
<1> SUFFICES ASSUME Inv, SCreate PROVE Inv'
  OBVIOUS
<1>1. up' = up /\ down' = down
  BY DEF SCreate, cvars
<1>2. TypeOK'
  BY <1>1 DEF Inv, TypeOK, CState, SState, Metadata, CEnd, SEnd, SCreate, cvars
<1>3. UpInv'
  BY <1>1, SameLog DEF Inv, TypeOK, UpInv, CEnd, SCreate, cvars
<1>4. ClientInv'
  BY <1>1 DEF Inv, TypeOK, UpInv, ClientInv, DownInv, CEnd, SCreate, cvars
<1>5. ServerInv'
  BY <1>1 DEF Inv, TypeOK, UpInv, ServerInv, ClientInv, AtEof, Available,
              Carries, CEnd, SCreate, cvars
<1>6. DownInv'
  BY <1>1 DEF Inv, TypeOK, DownInv, ServerInv, SCreate, cvars
<1>7. DestinationIsPrefix'
  BY <1>1 DEF Inv, TypeOK, DestinationIsPrefix, SCreate, cvars
<1> QED
  BY <1>2, <1>3, <1>4, <1>5, <1>6, <1>7 DEF Inv

\* The first OK follows the opening of the destination.
LEMMA SReadyKeeps == Inv /\ SReady => Inv'
<1> SUFFICES ASSUME Inv, SReady PROVE Inv'
  OBVIOUS
<1>1. /\ up' = up /\ down \in Stream /\ down' \in Stream
      /\ Len(down'.log) = Len(down.log) + 1 /\ down'.read = down.read
      /\ \A i \in 1..Len(down.log) : down'.log[i] = down.log[i]
      /\ down'.log[Len(down.log) + 1] = [kind |-> "ok", val |-> 0]
  <2>1. down \in Stream /\ "ok" \in Kind /\ 0 \in Nat
    BY DEF Inv, TypeOK, Kind
  <2> QED
    BY <2>1, WriteFacts DEF SReady
<1>2. TypeOK'
  BY <1>1 DEF Inv, TypeOK, CState, SState, Metadata, CEnd, SEnd, SReady, cvars
<1>3. UpInv'
  <2>1. \A i \in 1..Len(up'.log) : up'.log[i] = UpItem(i)'
    BY <1>1, SameLog DEF SReady, cvars
  <2>2. /\ up.read <= Len(up.log) /\ down.read <= Len(down.log)
        /\ up.fin => cpc \in CEnd
    BY DEF Inv, UpInv
  <2>3. cpc' = cpc
    BY DEF SReady, cvars
  <2> QED
    BY <1>1, <2>1, <2>2, <2>3, Types DEF Inv, UpInv, CEnd
<1>4. ClientInv'
  BY <1>1 DEF Inv, TypeOK, UpInv, ClientInv, DownInv, CEnd, SReady, cvars
<1>5. ServerInv'
  BY <1>1 DEF Inv, TypeOK, UpInv, ServerInv, ClientInv, AtEof, Available,
              Carries, CEnd, SReady, cvars
<1>6. DownInv'
  <2>1. Len(down.log) = 0 /\ touched /\ touched' = touched
    BY DEF Inv, DownInv, ServerInv, SReady
  <2>2. /\ Len(down'.log) = 1 /\ down'.log[1].kind = "ok"
        /\ spc' = "payload"
    BY <1>1, <2>1 DEF SReady
  <2> QED
    BY <2>1, <2>2 DEF DownInv
<1>7. DestinationIsPrefix'
  BY <1>1 DEF Inv, TypeOK, DestinationIsPrefix, SReady, cvars
<1> QED
  BY <1>2, <1>3, <1>4, <1>5, <1>6, <1>7 DEF Inv

\* limited_copy takes the next item, which is the next unit of payload.
LEMMA SReceiveKeeps == Inv /\ SReceive => Inv'
<1> SUFFICES ASSUME Inv, SReceive PROVE Inv'
  OBVIOUS
<1>0. /\ NextItem(up) = [kind |-> "data", val |-> Len(dest) + 1]
      /\ NextItem(up) \in Item
      /\ Len(dest) < declared
  <2>1. /\ up.read = Len(dest) + 2 /\ size = declared /\ Available(up)
        /\ Len(dest) < size
        /\ Len(up.log) <= sent + 3
        /\ Len(up.log) = sent + 3 => sent = declared
    BY DEF Inv, ServerInv, ClientInv, SReceive
  <2>2. up.read + 1 <= sent + 2
    BY <2>1, NextIs, Types DEF Inv
  <2>3. NextItem(up) = UpItem(Len(dest) + 3) /\ NextItem(up) \in Item
    BY <2>1, NextIs, Types DEF Inv
  <2> QED
    BY <2>1, <2>2, <2>3, Types DEF Inv, UpItem
<1>1. /\ up' \in Stream /\ up'.log = up.log /\ up'.fin = up.fin
      /\ up'.read = up.read + 1 /\ up.read < Len(up.log)
      /\ down' = down
  BY ConsumeFacts DEF Inv, TypeOK, SReceive, Available
<1>2. TypeOK'
  <2>1. dest' \in Seq(Item)
    BY <1>0 DEF Inv, TypeOK, SReceive
  <2> QED
    BY <1>1, <2>1 DEF Inv, TypeOK, SReceive, cvars
<1>3. UpInv'
  <2>1. \A i \in 1..Len(up'.log) : up'.log[i] = UpItem(i)'
    BY <1>1, SameLog DEF SReceive, cvars
  <2> QED
    BY <1>1, <2>1, Types DEF Inv, UpInv, SReceive, cvars
<1>4. ClientInv'
  BY <1>1 DEF Inv, TypeOK, UpInv, ClientInv, DownInv, CEnd, SReceive, cvars
<1>5. ServerInv'
  BY <1>1 DEF Inv, TypeOK, UpInv, ServerInv, ClientInv, AtEof, Available,
              Carries, CEnd, SReceive, cvars
<1>6. DownInv'
  BY <1>1 DEF Inv, TypeOK, DownInv, ServerInv, SReceive, cvars
<1>7. DestinationIsPrefix'
  <2>1. /\ dest' = Append(dest, [kind |-> "data", val |-> Len(dest) + 1])
        /\ dest \in Seq(Item)
    BY <1>0 DEF Inv, TypeOK, SReceive
  <2>2. /\ Len(dest') = Len(dest) + 1 /\ Len(dest) \in Nat
        /\ dest'[Len(dest) + 1] = [kind |-> "data", val |-> Len(dest) + 1]
        /\ \A i \in 1..Len(dest) : dest'[i] = dest[i]
    BY <2>1
  <2>3. \A i \in 1..Len(dest) : dest[i] = [kind |-> "data", val |-> i]
    BY DEF Inv, DestinationIsPrefix
  <2>4. ASSUME NEW i \in 1..Len(dest')
        PROVE  dest'[i] = [kind |-> "data", val |-> i]
    <3>1. i \in 1..Len(dest) \/ i = Len(dest) + 1
      BY <2>2
    <3> QED
      BY <2>2, <2>3, <3>1
  <2> QED
    BY <2>4 DEF DestinationIsPrefix
<1> QED
  BY <1>2, <1>3, <1>4, <1>5, <1>6, <1>7 DEF Inv

\* update_metadata applies what the trailer said.
LEMMA SMetadataKeeps == Inv /\ SMetadata => Inv'
<1> SUFFICES ASSUME Inv, SMetadata PROVE Inv'
  OBVIOUS
<1>1. up' = up /\ down' = down
  BY DEF SMetadata, cvars
<1>2. TypeOK'
  BY <1>1 DEF Inv, TypeOK, CState, SState, Metadata, CEnd, SEnd, SMetadata, cvars
<1>3. UpInv'
  BY <1>1, SameLog DEF Inv, TypeOK, UpInv, CEnd, SMetadata, cvars
<1>4. ClientInv'
  BY <1>1 DEF Inv, TypeOK, UpInv, ClientInv, DownInv, CEnd, SMetadata, cvars
<1>5. ServerInv'
  BY <1>1 DEF Inv, TypeOK, UpInv, ServerInv, ClientInv, AtEof, Available,
              Carries, CEnd, SMetadata, cvars
<1>6. DownInv'
  BY <1>1 DEF Inv, TypeOK, DownInv, ServerInv, SMetadata, cvars
<1>7. DestinationIsPrefix'
  BY <1>1 DEF Inv, TypeOK, DestinationIsPrefix, SMetadata, cvars
<1> QED
  BY <1>2, <1>3, <1>4, <1>5, <1>6, <1>7 DEF Inv

\* A trailer is parsed where the payload ends: of what the client sent for
\* one, or of payload beyond the declared size.
LEMMA STrailerKeeps == Inv /\ STrailer => Inv'
<1> SUFFICES ASSUME Inv, STrailer PROVE Inv'
  OBVIOUS
<1>1. PICK p \in Parsed(NextItem(up)) :
         IF p = "error"
         THEN SReturn("failed") /\ UNCHANGED trailer
         ELSE /\ trailer' = p
              /\ spc' = "meta"
              /\ up' = Consume(up)
              /\ UNCHANGED down
  BY DEF STrailer
<1>2. /\ spc = "trl" /\ Available(up)
      /\ UNCHANGED <<job, conn, srcLen, cvars, size, touched, dest, stamp>>
  BY DEF STrailer
<1>a. CASE p = "error"
  BY <1>1, <1>2, <1>a, ServerFails DEF SEnd
<1>b. CASE p # "error"
  <2>1. /\ trailer' = p /\ spc' = "meta" /\ down' = down
        /\ up' \in Stream /\ up'.log = up.log /\ up'.fin = up.fin
        /\ up'.read = up.read + 1 /\ up.read < Len(up.log)
    BY <1>1, <1>2, <1>b, ConsumeFacts DEF Inv, TypeOK, Available
  <2>2. /\ Len(dest) = size /\ size = declared /\ touched
        /\ up.read = declared + 2 /\ declared <= sent
    <3>1. /\ up.read = Len(dest) + 2 /\ touched /\ size = declared
          /\ Len(dest) = size
      BY <1>2 DEF Inv, ServerInv, AtEof
    <3>2. Len(up.log) <= sent + 3
      BY DEF Inv, ClientInv
    <3> QED
      BY <2>1, <3>1, <3>2, Types DEF Inv
  <2>3. p \in {"source", "none", "junk"}
    BY <1>1, <1>b DEF Parsed
  <2>4. ASSUME sent = declared
        PROVE  p = IF Carries THEN "source" ELSE "none"
    <3>1. NextItem(up) = TrailerItem
      BY <1>2, <2>2, <2>4, NextIs, Types DEF Inv, UpItem
    <3> QED
      BY <1>1, <3>1 DEF Parsed, TrailerItem
  <2>5. TypeOK'
    BY <1>2, <2>1, <2>3 DEF Inv, TypeOK, SState, Metadata, cvars
  <2>6. UpInv'
    <3>1. \A i \in 1..Len(up'.log) : up'.log[i] = UpItem(i)'
      BY <1>2, <2>1, SameLog DEF cvars
    <3> QED
      BY <1>2, <2>1, <3>1, Types DEF Inv, UpInv, cvars
  <2>7. ClientInv'
    BY <1>2, <2>1, Types DEF Inv, ClientInv, cvars
  <2>8. ServerInv'
    <3>1. Carries' = Carries
      BY <1>2 DEF Carries
    <3>2. /\ UNCHANGED <<touched, size, dest, opened, declared, sent>>
          /\ touched => size = declared /\ opened
      BY <1>2 DEF Inv, ServerInv, cvars
    <3> QED
      BY <2>1, <2>2, <2>4, <3>1, <3>2, Types DEF Inv, ServerInv
  <2>9. DownInv' /\ DestinationIsPrefix'
    BY <1>2, <2>1 DEF Inv, DownInv, DestinationIsPrefix, cvars
  <2> QED
    BY <2>5, <2>6, <2>7, <2>8, <2>9 DEF Inv
<1> QED
  BY <1>a, <1>b

\* The last response of the handler and the end of its streams.
LEMMA Responds ==
  ASSUME Inv, NEW from, NEW k \in {"ok", "err"}, NEW o, SRespond(from, k, o)
  PROVE  /\ spc = from /\ spc' = o
         /\ up' \in Stream /\ up'.log = up.log /\ up'.read = up.read
         /\ up'.fin = up.fin
         /\ down' \in Stream
         /\ Len(down'.log) = Len(down.log) + 1
         /\ \A i \in 1..Len(down.log) : down'.log[i] = down.log[i]
         /\ down'.log[Len(down.log) + 1] = [kind |-> k, val |-> 0]
         /\ down'.read = down.read
         /\ UNCHANGED <<job, conn, srcLen, cvars, size, touched, dest,
                        trailer, stamp>>
<1> DEFINE w == Write(down, k, 0)
<1>1. /\ up \in Stream /\ down \in Stream /\ k \in Kind /\ 0 \in Nat
  BY DEF Inv, TypeOK, Kind
<1>2. /\ w \in Stream
      /\ Len(w.log) = Len(down.log) + 1
      /\ \A i \in 1..Len(down.log) : w.log[i] = down.log[i]
      /\ w.log[Len(down.log) + 1] = [kind |-> k, val |-> 0]
      /\ w.read = down.read
  BY <1>1, WriteFacts
<1>3. down' = Finish(w) /\ up' = Stop(up)
  BY DEF SRespond
<1> HIDE DEF w
<1>4. down' \in Stream /\ down'.log = w.log /\ down'.read = w.read
  BY <1>2, <1>3, FinishFacts
<1>5. /\ up' \in Stream /\ up'.log = up.log /\ up'.read = up.read
      /\ up'.fin = up.fin
  BY <1>1, <1>3, StopFacts
<1> QED
  BY <1>2, <1>4, <1>5 DEF SRespond

\* The second OK ends a handler that has done all of its work.
LEMMA SConfirmKeeps == Inv /\ SConfirm => Inv'
<1> SUFFICES ASSUME Inv, SConfirm PROVE Inv'
  OBVIOUS
<1>1. /\ spc = "confirm" /\ spc' = "ok"
      /\ up' \in Stream /\ up'.log = up.log /\ up'.read = up.read
      /\ up'.fin = up.fin
      /\ down' \in Stream
      /\ Len(down'.log) = Len(down.log) + 1
      /\ \A i \in 1..Len(down.log) : down'.log[i] = down.log[i]
      /\ down'.log[Len(down.log) + 1] = [kind |-> "ok", val |-> 0]
      /\ down'.read = down.read
      /\ UNCHANGED <<job, conn, srcLen, cvars, size, touched, dest, trailer,
                     stamp>>
  BY Responds DEF SConfirm
<1>2. TypeOK'
  BY <1>1 DEF Inv, TypeOK, SState, SEnd, cvars
<1>3. UpInv'
  <2>1. \A i \in 1..Len(up'.log) : up'.log[i] = UpItem(i)'
    BY <1>1, SameLog DEF cvars
  <2> QED
    BY <1>1, <2>1, Types DEF Inv, UpInv, cvars
<1>4. ClientInv'
  <2>1. down.read <= Len(down.log) /\ (cpc = "ok" => spc = "ok")
    BY DEF Inv, UpInv, ClientInv
  <2>2. down.read = 1 => down'.log[1] = down.log[1]
    BY <1>1, <2>1, Types DEF Inv
  <2> QED
    BY <1>1, <2>1, <2>2 DEF Inv, ClientInv, cvars
<1>5. ServerInv'
  BY <1>1 DEF Inv, ServerInv, Carries, cvars
<1>6. DownInv'
  <2>1. /\ Len(down.log) = 1 /\ down.log[1].kind = "ok" /\ touched
    BY <1>1 DEF Inv, DownInv, ServerInv
  <2>2. Len(down'.log) = 2 /\ down'.log[1].kind = "ok" /\ touched'
    BY <1>1, <2>1
  <2> QED
    BY <1>1, <2>2 DEF DownInv
<1>7. DestinationIsPrefix'
  BY <1>1 DEF Inv, DestinationIsPrefix
<1> QED
  BY <1>2, <1>3, <1>4, <1>5, <1>6, <1>7 DEF Inv

\* An error response ends the handler.
LEMMA SRefuseKeeps == Inv /\ SRefuse => Inv'
<1> SUFFICES ASSUME Inv, SRefuse PROVE Inv'
  OBVIOUS
<1>1. /\ spc = "err" /\ spc' = "failed"
      /\ up' \in Stream /\ up'.log = up.log /\ up'.read = up.read
      /\ up'.fin = up.fin
      /\ down' \in Stream
      /\ Len(down'.log) = Len(down.log) + 1
      /\ \A i \in 1..Len(down.log) : down'.log[i] = down.log[i]
      /\ down'.log[Len(down.log) + 1] = [kind |-> "err", val |-> 0]
      /\ down'.read = down.read
      /\ UNCHANGED <<job, conn, srcLen, cvars, size, touched, dest, trailer,
                     stamp>>
  BY Responds DEF SRefuse
<1>2. TypeOK'
  BY <1>1 DEF Inv, TypeOK, SState, SEnd, cvars
<1>3. UpInv'
  <2>1. \A i \in 1..Len(up'.log) : up'.log[i] = UpItem(i)'
    BY <1>1, SameLog DEF cvars
  <2> QED
    BY <1>1, <2>1, Types DEF Inv, UpInv, cvars
<1>4. ClientInv'
  <2>1. down.read <= Len(down.log) /\ (cpc = "ok" => spc = "ok")
    BY DEF Inv, UpInv, ClientInv
  <2>2. down.read = 1 => down'.log[1] = down.log[1]
    BY <1>1, <2>1, Types DEF Inv
  <2> QED
    BY <1>1, <2>1, <2>2 DEF Inv, ClientInv, cvars
<1>5. ServerInv'
  BY <1>1 DEF Inv, ServerInv, Carries, cvars
<1>6. DownInv'
  <2>1. /\ Len(down.log) = 0 \/ Len(down.log) = 1
        /\ Len(down.log) = 0 => ~touched
        /\ Len(down.log) = 1 => down.log[1].kind = "ok"
    <3>1. Len(down.log) <= 1 /\ Len(down.log) \in Nat
      BY <1>1, Types DEF Inv, DownInv
    <3>2. Len(down.log) = 0 => ~touched
      BY <1>1 DEF Inv, DownInv
    <3>3. Len(down.log) >= 1 => down.log[1].kind = "ok"
      BY <1>1 DEF Inv, DownInv
    <3>4. \A n \in Nat : n <= 1 => n = 0 \/ (n = 1 /\ n >= 1)
      OBVIOUS
    <3> QED
      BY <3>1, <3>2, <3>3, <3>4
  <2>2. CASE Len(down.log) = 0
    <3>1. /\ Len(down'.log) = 1 /\ down'.log[1].kind = "err" /\ ~touched'
      BY <1>1, <2>1, <2>2
    <3> QED
      BY <1>1, <3>1 DEF DownInv
  <2>3. CASE Len(down.log) = 1
    <3>1. touched
      <4>1. Len(down.log) >= 1 => (down.log[1].kind = "ok" <=> touched)
        BY DEF Inv, DownInv
      <4> QED
        BY <2>1, <2>3, <4>1
    <3>2. /\ Len(down'.log) = 2 /\ down'.log[1].kind = "ok"
          /\ down'.log[2].kind = "err" /\ touched'
      BY <1>1, <2>1, <2>3, <3>1
    <3> QED
      BY <1>1, <3>2 DEF DownInv
  <2> QED
    BY <2>1, <2>2, <2>3
<1>7. DestinationIsPrefix'
  BY <1>1 DEF Inv, DestinationIsPrefix
<1> QED
  BY <1>2, <1>3, <1>4, <1>5, <1>6, <1>7 DEF Inv

-----------------------------------------------------------------------------
(* The world, and the theorems.                                            *)

\* Nothing that was written or read changes with the connection.
LEMMA ConnectionLostKeeps == Inv /\ ConnectionLost => Inv'
<1> SUFFICES ASSUME Inv, ConnectionLost PROVE Inv'
  OBVIOUS
<1>1. up' = up /\ down' = down
  BY DEF ConnectionLost
<1>2. TypeOK'
  BY <1>1 DEF Inv, TypeOK, CState, SState, Metadata, CEnd, SEnd, ConnectionLost, cvars, svars
<1>3. UpInv'
  BY <1>1, SameLog DEF Inv, TypeOK, UpInv, CEnd, ConnectionLost, cvars, svars
<1>4. ClientInv'
  BY <1>1 DEF Inv, TypeOK, UpInv, ClientInv, DownInv, CEnd, ConnectionLost, cvars, svars
<1>5. ServerInv'
  BY <1>1 DEF Inv, TypeOK, UpInv, ServerInv, ClientInv, AtEof, Available,
              Carries, CEnd, ConnectionLost, cvars, svars
<1>6. DownInv'
  BY <1>1 DEF Inv, TypeOK, DownInv, ServerInv, ConnectionLost, cvars, svars
<1>7. DestinationIsPrefix'
  BY <1>1 DEF Inv, TypeOK, DestinationIsPrefix, ConnectionLost, cvars, svars
<1> QED
  BY <1>2, <1>3, <1>4, <1>5, <1>6, <1>7 DEF Inv

\* The source may change under the client: `declared` does not.
LEMMA SourceChangesKeeps == Inv /\ SourceChanges => Inv'
<1> SUFFICES ASSUME Inv, SourceChanges PROVE Inv'
  OBVIOUS
<1>1. up' = up /\ down' = down
  BY DEF SourceChanges
<1>2. TypeOK'
  BY <1>1 DEF Inv, TypeOK, CState, SState, Metadata, CEnd, SEnd, SourceChanges, cvars, svars
<1>3. UpInv'
  BY <1>1, SameLog DEF Inv, TypeOK, UpInv, CEnd, SourceChanges, cvars, svars
<1>4. ClientInv'
  BY <1>1 DEF Inv, TypeOK, UpInv, ClientInv, DownInv, CEnd, SourceChanges, cvars, svars
<1>5. ServerInv'
  BY <1>1 DEF Inv, TypeOK, UpInv, ServerInv, ClientInv, AtEof, Available,
              Carries, CEnd, SourceChanges, cvars, svars
<1>6. DownInv'
  BY <1>1 DEF Inv, TypeOK, DownInv, ServerInv, SourceChanges, cvars, svars
<1>7. DestinationIsPrefix'
  BY <1>1 DEF Inv, TypeOK, DestinationIsPrefix, SourceChanges, cvars, svars
<1> QED
  BY <1>2, <1>3, <1>4, <1>5, <1>6, <1>7 DEF Inv

\* A stuttering step keeps every part of the invariant.
LEMMA StutterKeeps == Inv /\ UNCHANGED vars => Inv'
<1> SUFFICES ASSUME Inv, UNCHANGED vars PROVE Inv'
  OBVIOUS
<1>1. up' = up /\ down' = down
  BY DEF vars
<1>2. TypeOK'
  BY <1>1 DEF Inv, TypeOK, CState, SState, Metadata, CEnd, SEnd, vars, cvars, svars
<1>3. UpInv'
  BY <1>1, SameLog DEF Inv, TypeOK, UpInv, CEnd, vars, cvars, svars
<1>4. ClientInv'
  BY <1>1 DEF Inv, TypeOK, UpInv, ClientInv, DownInv, CEnd, vars, cvars, svars
<1>5. ServerInv'
  BY <1>1 DEF Inv, TypeOK, UpInv, ServerInv, ClientInv, AtEof, Available,
              Carries, CEnd, vars, cvars, svars
<1>6. DownInv'
  BY <1>1 DEF Inv, TypeOK, DownInv, ServerInv, vars, cvars, svars
<1>7. DestinationIsPrefix'
  BY <1>1 DEF Inv, TypeOK, DestinationIsPrefix, vars, cvars, svars
<1> QED
  BY <1>2, <1>3, <1>4, <1>5, <1>6, <1>7 DEF Inv

\* Before anything is opened, written or read the invariant holds.
LEMMA InitInv == Init => Inv
<1> SUFFICES ASSUME Init PROVE Inv
  OBVIOUS
<1>1. up = NewStream /\ down = NewStream /\ NewStream \in Stream
  BY NewStreamFacts DEF Init
<1>2. /\ Len(up.log) = 0 /\ Len(down.log) = 0 /\ up.read = 0 /\ down.read = 0
      /\ up.fin = FALSE
  BY <1>1, NewStreamFacts
<1>3. dest = <<>> /\ Len(dest) = 0 /\ dest \in Seq(Item)
  BY DEF Init
<1>4. TypeOK
  <2>1. declared \in 0..MaxLen /\ sent \in 0..MaxLen /\ size \in Nat
    BY DEF Init
  <2>2. up \in Stream /\ down \in Stream
    BY <1>1
  <2>3. /\ cpc \in CState /\ spc \in SState
        /\ trailer \in Metadata /\ stamp \in Metadata
        /\ conn \in {"up", "lost"}
        /\ opened \in BOOLEAN /\ touched \in BOOLEAN
    BY DEF Init, CState, SState, Metadata
  <2>4. /\ job \in [v2 : BOOLEAN, preserve : BOOLEAN]
        /\ srcLen \in 0..MaxLen
    BY DEF Init
  <2> QED
    BY <1>3, <2>1, <2>2, <2>3, <2>4 DEF TypeOK
<1>5. UpInv
  BY <1>2 DEF UpInv
<1>6. ClientInv
  BY <1>2 DEF Init, ClientInv
<1>7. ServerInv
  BY <1>2, <1>3 DEF Init, ServerInv
<1>8. DownInv
  BY <1>2 DEF Init, DownInv
<1>9. DestinationIsPrefix
  BY <1>3 DEF DestinationIsPrefix
<1> QED
  BY <1>4, <1>5, <1>6, <1>7, <1>8, <1>9 DEF Inv

\* Every step of a PUT keeps Inv.
LEMMA Inductive == Inv /\ [Next]_vars => Inv'
<1> SUFFICES ASSUME Inv, [Next]_vars PROVE Inv'
  OBVIOUS
<1>1. CASE ClientNext
  BY <1>1, COpenKeeps, CGivesUpKeeps, CSendCmdKeeps, CSendHeaderKeeps,
     CSendUnitKeeps, CSendTrailerKeeps, CStoppedKeeps, CResponseKeeps,
     CSourceEofKeeps, CCompleteKeeps DEF ClientNext, ClientGoesOn
<1>2. CASE ServerNext
  BY <1>2, SCommandKeeps, SGivesUpKeeps, SDestinationOkKeeps,
     SDestinationBadKeeps, SHeaderKeeps, SCreateKeeps, SCreateFailsKeeps,
     SReadyKeeps, SReceiveKeeps, SPayloadEndsKeeps, SWriteFailsKeeps,
     STrailerKeeps, SMetadataKeeps, SConfirmKeeps, SRefuseKeeps
     DEF ServerNext, ServerGoesOn
<1>3. CASE ConnectionLost
  BY <1>3, ConnectionLostKeeps
<1>4. CASE SourceChanges
  BY <1>4, SourceChangesKeeps
<1>5. CASE Ended \/ UNCHANGED vars
  BY <1>5, StutterKeeps DEF Ended
<1> QED
  BY <1>1, <1>2, <1>3, <1>4, <1>5 DEF Next

\* The invariant holds of every reachable state.
THEOREM Invariance == Spec => []Inv
<1>1. Init => Inv
  BY InitInv
<1>2. Inv /\ [Next]_vars => Inv'
  BY Inductive
<1> QED
  BY <1>1, <1>2, PTL DEF Spec

\* The variables of send_impl and handle_impl stay within their types.
THEOREM TypeCorrect == Spec => []TypeOK
<1>1. Inv => TypeOK
  BY DEF Inv
<1> QED
  BY <1>1, Invariance, PTL

\* limited_copy never writes anything but the next unit of the source.
THEOREM PrefixAlways == Spec => []DestinationIsPrefix
<1>1. Inv => DestinationIsPrefix
  BY DEF Inv
<1> QED
  BY <1>1, Invariance, PTL

\* send_impl's Ok means the whole file, and its metadata where they are due.
THEOREM SuccessAlwaysFaithful == Spec => []SuccessIsFaithful
<1>1. Inv => SuccessIsFaithful
  <2> SUFFICES ASSUME Inv, cpc = "ok" PROVE SuccessIsFaithful
    BY DEF SuccessIsFaithful
  <2>1. spc = "ok" /\ sent = declared
    BY DEF Inv, ClientInv
  <2>2. /\ touched /\ Len(dest) = declared
        /\ stamp = IF Carries THEN "source" ELSE "none"
    BY <2>1 DEF Inv, ServerInv
  <2> QED
    BY <2>2 DEF Inv, SuccessIsFaithful
<1> QED
  BY <1>1, Invariance, PTL

\* A refused PUT leaves the destination alone, and no payload is sent for it.
THEOREM RefusalAlwaysHarmless == Spec => []RefusalLeavesDestination
<1>1. Inv => RefusalLeavesDestination
  <2> SUFFICES ASSUME Inv PROVE RefusalLeavesDestination
    OBVIOUS
  <2>1. sent > 0 => touched
    BY DEF Inv, ClientInv
  <2>2. ASSUME down.log # <<>>, down.log[1].kind = "err" PROVE ~touched
    <3>1. Len(down.log) >= 1
      BY <2>2, Types DEF Inv, TypeOK, Stream
    <3>2. Len(down.log) >= 1 => (down.log[1].kind = "ok" <=> touched)
      BY DEF Inv, DownInv
    <3> QED
      BY <2>2, <3>1, <3>2
  <2> QED
    BY <2>1, <2>2 DEF RefusalLeavesDestination
<1> QED
  BY <1>1, Invariance, PTL

\* handle_impl's second OK is never sent for less than was declared.
THEOREM ConfirmationAlwaysWhole == Spec => []ConfirmationIsWhole
<1>1. Inv => ConfirmationIsWhole
  BY DEF Inv, ServerInv, ConfirmationIsWhole
<1> QED
  BY <1>1, Invariance, PTL

\* Nothing the server still does after the client's Ok changes the file.
THEOREM ReportAlwaysFinal == Spec => ReportIsFinal
<1>1. Inv /\ [Next]_vars
        => [cpc = "ok" => UNCHANGED <<touched, dest, stamp, cpc>>]_vars
  <2> SUFFICES ASSUME Inv, Next, cpc = "ok"
               PROVE  UNCHANGED <<touched, dest, stamp, cpc>>
    OBVIOUS
  <2>1. spc = "ok"
    BY DEF Inv, ClientInv
  <2>2. ~ClientNext
    BY DEF ClientNext, ClientGoesOn, COpen, COpenFails, CSendCmd, CSendHeader, CSendTrailer,
           CWrite, CWriteFails, CResponse, CNoResponse, CSendUnit, CSourceEof,
           CStopped, CCopyFails, CExplained, CComplete
  <2>3. ~ServerNext
    BY <2>1 DEF ServerNext, ServerGoesOn, SCommand, SNoMessage, SDestinationOk,
           SDestinationBad, SFileStep, SHeader, SCreate, SCreateFails, SReady,
           SReceive, SPayloadEnds, SWriteFails, STrailer, SMetadata,
           SMetadataFails, SRespond, SConfirm, SRefuse, SRespondFails
  <2> QED
    BY <2>2, <2>3 DEF Next, ConnectionLost, SourceChanges, Ended, vars, cvars,
                      svars
<1> QED
  BY <1>1, Invariance, PTL DEF Spec, ReportIsFinal

-----------------------------------------------------------------------------
(* A PUT implements FileCopy: what the user of a PUT sees of it.           *)

Units    == [i \in 1..Len(dest) |-> dest[i].val]
Status   == IF cpc \in CEnd THEN cpc ELSE "running"
Stamped  == stamp = "source"
Moved    == sent > declared

\* The offsets of the destination's units are a sequence as long as it is.
LEMMA UnitsFacts ==
  ASSUME dest \in Seq(Item)
  PROVE  Units \in Seq(Nat) /\ Len(Units) = Len(dest)
<1>1. Len(dest) \in Nat /\ \A i \in 1..Len(dest) : dest[i] \in Item
  OBVIOUS
<1>2. \A i \in 1..Len(dest) : dest[i].val \in Nat
  BY <1>1 DEF Item
<1>3. Units \in [1..Len(dest) -> Nat]
  BY <1>2 DEF Units
<1> QED
  BY <1>1, <1>3

\* A step that leaves the client running and the file alone is not seen.
LEMMA Unseen ==
  ASSUME UNCHANGED <<job, sent, declared, opened, touched, dest, stamp>>,
         cpc' = cpc \/ (cpc \notin CEnd /\ cpc' \notin CEnd)
  PROVE  UNCHANGED Copy!vars
<1>1. UNCHANGED <<Carries, Units, Stamped, Moved>>
  BY DEF Carries, Units, Stamped, Moved
<1>2. UNCHANGED Status
  BY DEF Status, CEnd
<1> QED
  BY <1>1, <1>2 DEF Copy!vars, Units, Stamped, Moved, Status

\* Giving up is the user being told of a failure.
LEMMA FailSeen ==
  ASSUME UNCHANGED <<job, sent, declared, opened, touched, dest, stamp>>,
         cpc \notin CEnd, cpc' = "failed"
  PROVE  Copy!Fail
<1>1. UNCHANGED <<Carries, Units, Stamped, Moved>>
  BY DEF Carries, Units, Stamped, Moved
<1>2. Status = "running" /\ Status' = "failed"
  BY DEF Status, CEnd
<1> QED
  BY <1>1, <1>2 DEF Copy!Fail, Units, Stamped, Moved, Status

\* send_impl: opening the source, success and failure are steps of FileCopy,
\* a unit sent beyond the declared length is its SourceGrows; the rest is
\* not seen.
LEMMA ClientRefines == Inv /\ ClientNext => Copy!Next \/ UNCHANGED Copy!vars
<1> SUFFICES ASSUME Inv, ClientNext
             PROVE  Copy!Next \/ UNCHANGED Copy!vars
  OBVIOUS
<1>1. CASE COpen
  <2>1. Status = "running" /\ Status' = "running"
    BY <1>1 DEF COpen, Status, CEnd
  <2>2. Moved = FALSE /\ Moved' = FALSE
    <3>1. sent = 0 /\ declared \in Nat /\ sent' = 0 /\ declared' \in Nat
      BY <1>1, Types DEF Inv, TypeOK, ClientInv, COpen
    <3> QED
      BY <3>1 DEF Moved
  <2>3. ~opened /\ opened' = TRUE /\ declared' \in Nat
    BY <1>1 DEF Inv, TypeOK, ClientInv, COpen
  <2>4. UNCHANGED <<Carries, touched, Units, Stamped>>
    BY <1>1 DEF COpen, svars, Carries, Units, Stamped
  <2> QED
    BY <2>1, <2>2, <2>3, <2>4
       DEF Copy!Next, Copy!OpenSource, Units, Stamped, Moved, Status
<1>2. CASE COpenFails \/ CWriteFails \/ CNoResponse \/ CCopyFails \/ CExplained
  <2>1. Copy!Fail
    BY <1>2, FailSeen DEF COpenFails, CWriteFails, CNoResponse, CCopyFails,
                          CExplained, CReturn, CEnd, svars
  <2> QED
    BY <2>1 DEF Copy!Next
<1>3. CASE CSendCmd \/ CSendHeader \/ CSendTrailer \/ CStopped
  BY <1>3, Unseen DEF CSendCmd, CSendHeader, CSendTrailer, CWrite, CStopped,
                      CEnd, svars
<1>4. CASE CResponse \/ CSourceEof
  <2>1. CASE cpc' = "failed"
    BY <1>4, <2>1, FailSeen DEF CResponse, CSourceEof, CEnd, svars, Copy!Next
  <2>2. CASE cpc' # "failed"
    BY <1>4, <2>2, Unseen DEF CResponse, CSourceEof, CReturn, CEnd, svars
  <2> QED
    BY <2>1, <2>2
<1>5. CASE CSendUnit
  <2>1. CASE Moved' = Moved
    <3>1. UNCHANGED <<Carries, Units, Stamped, Status>>
      BY <1>5 DEF CSendUnit, svars, Carries, Units, Stamped, Status
    <3>2. UNCHANGED <<declared, opened, touched>>
      BY <1>5 DEF CSendUnit, svars
    <3> QED
      BY <2>1, <3>1, <3>2 DEF Copy!vars, Units, Stamped, Moved, Status
  <2>2. CASE Moved' # Moved
    <3>1. sent' = sent + 1 /\ declared' = declared
      BY <1>5 DEF CSendUnit
    <3>2. sent \in Nat /\ declared \in Nat
      BY Types DEF Inv
    <3>3. Moved = FALSE /\ Moved' = TRUE
      BY <2>2, <3>1, <3>2 DEF Moved
    <3>4. opened
      BY <1>5 DEF Inv, ClientInv, CSendUnit
    <3>5. UNCHANGED <<Carries, Units, Stamped, Status>>
      BY <1>5 DEF CSendUnit, svars, Carries, Units, Stamped, Status
    <3>6. UNCHANGED <<declared, opened, touched>>
      BY <1>5 DEF CSendUnit, svars
    <3> QED
      BY <3>3, <3>4, <3>5, <3>6
         DEF Copy!Next, Copy!SourceGrows, Units, Stamped, Moved, Status
  <2> QED
    BY <2>1, <2>2
<1>6. CASE CComplete
  <2>1. CASE CVerdict # "ok"
    <3>1. cpc' = "failed"
      BY <1>6, <2>1 DEF CComplete, CReturn, CVerdict
    <3> QED
      BY <1>6, <3>1, FailSeen DEF CComplete, CEnd, svars, Copy!Next
  <2>2. CASE CVerdict = "ok"
    <3>1. cpc = "final" /\ cpc' = "ok"
      BY <1>6, <2>2 DEF CComplete, CReturn
    <3>2. Inv'
      BY <1>6, CCompleteKeeps
    <3>3. UNCHANGED <<job, sent, declared, opened, touched, dest, stamp, spc,
                      size, trailer>>
      BY <1>6 DEF CComplete, svars
    <3>4. spc = "ok" /\ sent = declared
      BY <3>1, <3>2, <3>3 DEF Inv, ClientInv
    <3>5. /\ touched /\ Len(dest) = declared
          /\ Carries => Stamped
      BY <3>4 DEF Inv, ServerInv, Stamped
    <3>6. Status = "running" /\ Status' = "ok"
      BY <3>1 DEF Status, CEnd
    <3>7. UNCHANGED <<Carries, Units, Stamped, Moved>>
      BY <3>3 DEF Carries, Units, Stamped, Moved
    <3>8. Len(Units) = declared
      BY <3>5, UnitsFacts DEF Inv, TypeOK
    <3>9. Copy!Succeed
      BY <3>3, <3>5, <3>6, <3>7, <3>8
         DEF Copy!Succeed, Units, Stamped, Moved, Status
    <3> QED
      BY <3>9 DEF Copy!Next
  <2> QED
    BY <2>1, <2>2
<1> QED
  BY <1>1, <1>2, <1>3, <1>4, <1>5, <1>6 DEF ClientNext, ClientGoesOn

\* handle_impl: creating the file, writing a unit and applying the metadata
\* are steps of FileCopy; the rest is not seen.
LEMMA ServerRefines == Inv /\ ServerNext => Copy!Next \/ UNCHANGED Copy!vars
<1> SUFFICES ASSUME Inv, ServerNext
             PROVE  Copy!Next \/ UNCHANGED Copy!vars
  OBVIOUS
<1>1. CASE SCommand \/ SNoMessage \/ SDestinationOk \/ SDestinationBad
           \/ SHeader \/ SCreateFails \/ SReady \/ SPayloadEnds
  BY <1>1, Unseen DEF SCommand, SNoMessage, SDestinationOk, SDestinationBad,
                      SFileStep, SHeader, SCreateFails, SReady, SPayloadEnds,
                      cvars
<1>2. CASE SWriteFails \/ STrailer \/ SMetadataFails \/ SConfirm \/ SRefuse
           \/ SRespondFails
  BY <1>2, Unseen DEF SFileStep, SWriteFails, STrailer, SMetadataFails,
                      SConfirm, SRefuse, SRespond, SRespondFails, cvars
<1>3. CASE SCreate
  <2>1. spc = "create" /\ Status # "ok"
    BY <1>3 DEF Inv, ClientInv, SCreate, Status, CEnd
  <2>2. opened /\ ~touched
    BY <2>1 DEF Inv, ServerInv
  <2>3. touched' = TRUE /\ UNCHANGED <<declared, opened>>
    BY <1>3 DEF SCreate, cvars
  <2>4. UNCHANGED <<Carries, Status, Moved, Units, Stamped>>
    BY <1>3 DEF SCreate, cvars, Carries, Status, Moved, Units, Stamped
  <2> QED
    BY <2>1, <2>2, <2>3, <2>4
       DEF Copy!Next, Copy!Truncate, Units, Stamped, Moved, Status
<1>4. CASE SReceive
  <2>1. spc = "payload" /\ Status # "ok"
    BY <1>4 DEF Inv, ClientInv, SReceive, Status, CEnd
  <2>2. touched /\ size = declared /\ Len(dest) < declared
    BY <1>4, <2>1 DEF Inv, ServerInv, SReceive
  <2>3. Units' = Append(Units, Len(Units) + 1)
    <3>1. DestinationIsPrefix /\ DestinationIsPrefix'
      BY <1>4, SReceiveKeeps DEF Inv
    <3>2. Len(dest) \in Nat /\ Len(dest') = Len(dest) + 1
      BY <1>4, Types DEF Inv, TypeOK, SReceive
    <3>3. Units = [i \in 1..Len(dest) |-> i]
      <4>1. ASSUME NEW i \in 1..Len(dest) PROVE dest[i].val = i
        <5>1. dest[i] = [kind |-> "data", val |-> i]
          BY <3>1 DEF DestinationIsPrefix
        <5> QED
          BY <5>1
      <4> QED
        BY <4>1 DEF Units
    <3>4. Units' = [i \in 1..Len(dest) + 1 |-> i]
      <4>1. ASSUME NEW i \in 1..Len(dest') PROVE dest'[i].val = i
        <5>1. dest'[i] = [kind |-> "data", val |-> i]
          BY <3>1 DEF DestinationIsPrefix
        <5> QED
          BY <5>1
      <4> QED
        BY <3>2, <4>1 DEF Units
    <3>5. \A n \in Nat :
            [i \in 1..n + 1 |-> i] = Append([i \in 1..n |-> i], n + 1)
      OBVIOUS
    <3>6. Len(Units) = Len(dest)
      BY UnitsFacts DEF Inv, TypeOK
    <3> QED
      BY <3>2, <3>3, <3>4, <3>5, <3>6
  <2>4. UNCHANGED <<Carries, Status, Moved, Stamped>>
    BY <1>4 DEF SReceive, cvars, Carries, Status, Moved, Stamped
  <2>5. UNCHANGED <<declared, opened, touched>>
    BY <1>4 DEF SReceive, cvars
  <2>6. Len(Units) < declared
    BY <2>2, UnitsFacts DEF Inv, TypeOK
  <2>7. Copy!AppendUnit
    BY <2>1, <2>2, <2>3, <2>4, <2>5, <2>6
       DEF Copy!AppendUnit, Units, Stamped, Moved, Status
  <2> QED
    BY <2>7 DEF Copy!Next
<1>5. CASE SMetadata
  <2>1. spc = "meta" /\ Status # "ok"
    BY <1>5 DEF Inv, ClientInv, SMetadata, Status, CEnd
  <2>2. touched /\ Len(Units) = declared
    BY <2>1, UnitsFacts DEF Inv, TypeOK, ServerInv
  <2>3. UNCHANGED <<Carries, Status, Moved, Units, declared, opened, touched>>
    BY <1>5 DEF SMetadata, cvars, Carries, Status, Moved, Units
  <2>4. Stamped' \in BOOLEAN
    BY DEF Stamped
  <2>5. Copy!Stamp
    BY <2>1, <2>2, <2>3, <2>4 DEF Copy!Stamp, Units, Stamped, Moved, Status
  <2> QED
    BY <2>5 DEF Copy!Next
<1> QED
  BY <1>1, <1>2, <1>3, <1>4, <1>5 DEF ServerNext, ServerGoesOn

\* Every step of the two programs is a step of FileCopy or is not seen.
LEMMA Refines == Inv /\ [Next]_vars => [Copy!Next]_Copy!vars
<1> SUFFICES ASSUME Inv, [Next]_vars
             PROVE  Copy!Next \/ UNCHANGED Copy!vars
  OBVIOUS
<1>1. CASE ConnectionLost \/ SourceChanges \/ Ended \/ UNCHANGED vars
  BY <1>1, Unseen DEF ConnectionLost, SourceChanges, Ended, vars, cvars, svars
<1> QED
  BY <1>1, ClientRefines, ServerRefines DEF Next

\* A PUT that has not begun is a FileCopy that has not begun.
LEMMA InitRefines == Init => Copy!Init
<1> SUFFICES ASSUME Init PROVE Copy!Init
  OBVIOUS
<1>1. Carries \in BOOLEAN
  BY DEF Init, Carries
<1>2. Status = "running" /\ Moved = FALSE /\ declared = 0
  BY DEF Init, Status, Moved, CEnd
<1>3. Units = <<>> /\ Stamped = FALSE /\ opened = FALSE /\ touched = FALSE
  <2>1. dest = <<>> /\ Len(dest) = 0
    BY DEF Init
  <2>2. Units \in Seq(Nat) /\ Len(Units) = 0
    BY <2>1, UnitsFacts
  <2> QED
    BY <2>2 DEF Init, Stamped
<1> QED
  BY <1>1, <1>2, <1>3 DEF Copy!Init, Units, Stamped, Moved, Status

\* What put.rs does, seen from outside, is a copy of a file.
THEOREM PutImplementsFileCopy == Spec => ImplementsFileCopy
<1>1. Init => Copy!Init
  BY InitRefines
<1>2. Inv /\ [Next]_vars => [Copy!Next]_Copy!vars
  BY Refines
<1> QED
  BY <1>1, <1>2, Invariance, PTL DEF Spec, ImplementsFileCopy, Copy!Spec
=============================================================================
