------------------------------ MODULE GetProofs ------------------------------
(***************************************************************************)
(* The safety properties of module Get, proved for every window and every  *)
(* bound on the length of the source, and that a GET implements FileCopy.  *)
(*                                                                         *)
(* Inv is inductive.  The two sides only meet in the stream down: a step   *)
(* of the client cannot disturb what Inv says of the server, nor the other *)
(* way round, which two lemmas say once.                                   *)
(***************************************************************************)
EXTENDS Get, TLAPS

USE WindowAssumption, MaxLenAssumption

-----------------------------------------------------------------------------
(* What the stream operators return, so that no proof below looks inside a *)
(* stream record.                                                          *)

\* A new stream is empty and both of its ends are held.
LEMMA NewStreamFacts ==
  /\ NewStream \in Stream
  /\ Len(NewStream.log) = 0 /\ NewStream.log = <<>>
  /\ NewStream.read = 0
  /\ ~NewStream.fin /\ ~NewStream.stop
BY DEF NewStream, Stream

\* A write appends one item and disturbs nothing else: streams keep order.
LEMMA WriteFacts ==
  ASSUME NEW s \in Stream, NEW k \in Kind, NEW v \in Nat
  PROVE  /\ Write(s, k, v) \in Stream
         /\ Len(Write(s, k, v).log) = Len(s.log) + 1
         /\ \A i \in 1..Len(s.log) : Write(s, k, v).log[i] = s.log[i]
         /\ Write(s, k, v).log[Len(s.log) + 1] = [kind |-> k, val |-> v]
         /\ Write(s, k, v).read = s.read
         /\ Write(s, k, v).fin = s.fin
         /\ Write(s, k, v).stop = s.stop
<1> DEFINE item == [kind |-> k, val |-> v]
<1>1. item \in Item
  BY DEF Item
<1>2. Write(s, k, v).log = Append(s.log, item)
  BY DEF Write, Stream
<1>3. Write(s, k, v) \in Stream
  <2>1. Append(s.log, item) \in Seq(Item)
    BY <1>1 DEF Stream
  <2>2. Write(s, k, v) = [s EXCEPT !.log = Append(s.log, item)]
    BY DEF Write, Stream
  <2> QED
    BY <2>1, <2>2 DEF Stream
<1>4. /\ Len(Append(s.log, item)) = Len(s.log) + 1
      /\ \A i \in 1..Len(s.log) : Append(s.log, item)[i] = s.log[i]
      /\ Append(s.log, item)[Len(s.log) + 1] = item
  BY <1>1 DEF Stream
<1>5. /\ Write(s, k, v).read = s.read
      /\ Write(s, k, v).fin = s.fin
      /\ Write(s, k, v).stop = s.stop
  BY DEF Write, Stream
<1> QED
  BY <1>2, <1>3, <1>4, <1>5

\* A read takes one item; the log itself is history.
LEMMA ConsumeFacts ==
  ASSUME NEW s \in Stream
  PROVE  /\ Consume(s) \in Stream
         /\ Consume(s).log = s.log
         /\ Consume(s).read = s.read + 1
         /\ Consume(s).fin = s.fin
         /\ Consume(s).stop = s.stop
BY DEF Consume, Stream

\* Dropping the sending half marks the end and leaves the items to be read.
LEMMA FinishFacts ==
  ASSUME NEW s \in Stream
  PROVE  /\ Finish(s) \in Stream
         /\ Finish(s).log = s.log
         /\ Finish(s).read = s.read
         /\ Finish(s).fin = TRUE
         /\ Finish(s).stop = s.stop
BY DEF Finish, Stream

\* Dropping the receiving half neither reads nor discards anything.
LEMMA StopFacts ==
  ASSUME NEW s \in Stream
  PROVE  /\ Stop(s) \in Stream
         /\ Stop(s).log = s.log
         /\ Stop(s).read = s.read
         /\ Stop(s).fin = s.fin
         /\ Stop(s).stop = TRUE
BY DEF Stop, Stream

\* An available item is one the writer put there.
LEMMA NextItemFacts ==
  ASSUME NEW s \in Stream, Available(s)
  PROVE  /\ NextItem(s) \in Item
         /\ s.read + 1 \in 1..Len(s.log)
         /\ NextItem(s) = s.log[s.read + 1]
BY DEF NextItem, Available, Stream

-----------------------------------------------------------------------------
(* Frames.                                                                 *)

\* What the arithmetic of the proofs needs to know of the types.
LEMMA Types ==
  ASSUME TypeOK
  PROVE  /\ up \in Stream /\ down \in Stream
         /\ Len(down.log) \in Nat /\ down.read \in Nat
         /\ down.log \in Seq(Item)
         /\ Len(dest) \in Nat /\ sent \in Nat /\ declared \in Nat
         /\ srcLen \in Nat /\ size \in Nat
BY DEF TypeOK, Stream

\* send_impl returning drops both halves of its stream and reads nothing.
LEMMA ClientReturns ==
  ASSUME up \in Stream, down \in Stream, NEW o, CReturn(o)
  PROVE  /\ cpc' = o /\ up' \in Stream /\ down' \in Stream
         /\ down'.log = down.log /\ down'.read = down.read
         /\ down'.fin = down.fin
BY FinishFacts, StopFacts DEF CReturn

\* A handler that returns finishes the stream to the client.
LEMMA ServerReturns ==
  ASSUME up \in Stream, down \in Stream, NEW o, SReturn(o)
  PROVE  /\ spc' = o /\ up' \in Stream /\ down' \in Stream
         /\ down'.log = down.log /\ down'.read = down.read
BY FinishFacts, StopFacts DEF SReturn

\* The client only reads: whatever it does, the server's part of the
\* invariant stays.
LEMMA ClientStep ==
  ASSUME Inv, UNCHANGED <<job, spc, opened, declared, sent>>,
         down' \in Stream, down'.log = down.log, down'.fin = down.fin,
         down'.read <= Len(down.log)
  PROVE  DownInv' /\ ServerInv'
<1>1. \A i : DownItem(i)' = DownItem(i)
  BY DEF DownItem, Carries
<1>2. DownInv'
  BY <1>1 DEF Inv, DownInv
<1>3. ServerInv'
  BY DEF Inv, ServerInv
<1> QED
  BY <1>2, <1>3

\* A handler that has not ended only adds to the stream: whatever it does
\* after the source was opened, the client's part of the invariant stays.
LEMMA ServerStep ==
  ASSUME Inv, spc \notin SEnd, UNCHANGED <<job, cvars, opened, declared>>,
         down' \in Stream, down'.read = down.read,
         sent' = sent \/ sent' = sent + 1
  PROVE  ClientInv' /\ DestinationIsPrefix'
<1>1. ~AtEof(down)
  BY DEF Inv, DownInv, AtEof
<1>2. Carries' = Carries
  BY DEF Carries
<1>3. /\ UNCHANGED <<cpc, size, touched, dest, trailer, stamp>>
      /\ sent \in Nat /\ declared \in Nat
  BY Types DEF Inv, cvars
<1>4. sent >= declared => sent' >= declared /\ (sent' = declared => sent = declared)
  BY <1>3
<1>5. ClientInv'
  <2> USE DEF Inv, ClientInv
  <2>1. cpc' = "trl" => Len(dest') = size'
    BY <1>1, <1>3
  <2>2. cpc' \in {"meta", "ok"} =>
          /\ Len(dest') = size'
          /\ sent' >= declared'
          /\ sent' = declared' => trailer' = IF Carries' THEN "source" ELSE "none"
    BY <1>2, <1>3, <1>4
  <2> QED
    BY <1>3, <2>1, <2>2
<1>6. DestinationIsPrefix'
  BY <1>3 DEF Inv, DestinationIsPrefix
<1> QED
  BY <1>5, <1>6

\* The log of the stream down keeps its shape while nothing is written.
LEMMA SameLog ==
  ASSUME Inv, UNCHANGED <<job, opened, declared, sent>>, down'.log = down.log,
         down'.read = down.read, down'.fin => spc' \in SEnd
  PROVE  DownInv'
<1>1. \A i : DownItem(i)' = DownItem(i)
  BY DEF DownItem, Carries
<1> QED
  BY <1>1 DEF Inv, DownInv

\* What the client reads next.
LEMMA NextIs ==
  ASSUME Inv, Available(down)
  PROVE  /\ NextItem(down) = DownItem(down.read + 1)
         /\ NextItem(down) \in Item
         /\ down.read + 1 \in 1..Len(down.log)
BY NextItemFacts, Types DEF Inv, DownInv, Available

\* The client gives up: its streams close and nothing else changes.
LEMMA ClientFails ==
  ASSUME Inv, cpc \notin CEnd, CReturn("failed"),
         UNCHANGED <<job, conn, srcLen, size, touched, dest, trailer, stamp, svars>>
  PROVE  Inv'
<1>1. /\ cpc' = "failed" /\ up' \in Stream /\ down' \in Stream
      /\ down'.log = down.log /\ down'.read = down.read
      /\ down'.fin = down.fin
  BY ClientReturns DEF Inv, TypeOK
<1>2. TypeOK'
  BY <1>1 DEF Inv, TypeOK, CState, CEnd, svars
<1>3. DownInv' /\ ServerInv'
  BY <1>1, ClientStep DEF Inv, DownInv, svars
<1>4. ClientInv'
  BY <1>1 DEF Inv, ClientInv, svars
<1>5. DestinationIsPrefix'
  BY DEF Inv, DestinationIsPrefix
<1> QED
  BY <1>2, <1>3, <1>4, <1>5 DEF Inv

\* The handler gives up: its streams close and nothing else changes.
LEMMA ServerFails ==
  ASSUME Inv, spc \notin SEnd, SReturn("failed"),
         UNCHANGED <<job, conn, srcLen, cvars, opened, declared, sent>>
  PROVE  Inv'
<1>1. /\ spc' = "failed" /\ up' \in Stream /\ down' \in Stream
      /\ down'.log = down.log /\ down'.read = down.read
  BY ServerReturns DEF Inv, TypeOK
<1>2. TypeOK'
  BY <1>1 DEF Inv, TypeOK, SState, SEnd, cvars
<1>3. DownInv'
  BY <1>1, SameLog DEF SEnd
<1>4. ServerInv'
  BY <1>1 DEF Inv, ServerInv, SEnd
<1>5. ClientInv' /\ DestinationIsPrefix'
  BY <1>1, ServerStep
<1> QED
  BY <1>2, <1>3, <1>4, <1>5 DEF Inv

-----------------------------------------------------------------------------
(* The client's actions.                                                   *)

\* Every way the client has of giving up, but a response or a trailer.
LEMMA CGivesUpKeeps == Inv /\ (CWriteFails \/ CNoMessage \/ CFileFails) => Inv'
BY ClientFails DEF CWriteFails, CNoMessage, CFileFails, CEnd

\* The command goes the other way.
LEMMA CSendCmdKeeps == Inv /\ CSendCmd => Inv'
<1> SUFFICES ASSUME Inv, CSendCmd PROVE Inv'
  OBVIOUS
<1>1. up' \in Stream /\ down' = down
  BY WriteFacts, Types DEF Inv, CSendCmd, Kind
<1>2. TypeOK'
  BY <1>1 DEF Inv, TypeOK, CState, CSendCmd, svars
<1>3. DownInv' /\ ServerInv'
  BY <1>1, ClientStep, Types DEF Inv, DownInv, CSendCmd, svars
<1>4. ClientInv' /\ DestinationIsPrefix'
  BY <1>1 DEF Inv, ClientInv, DestinationIsPrefix, CSendCmd, svars
<1> QED
  BY <1>2, <1>3, <1>4 DEF Inv

\* An OK says that the source is open; anything else ends the request.
LEMMA CResponseKeeps == Inv /\ CResponse => Inv'
<1> SUFFICES ASSUME Inv, CResponse PROVE Inv'
  OBVIOUS
<1>a. CASE NextItem(down).kind # "ok"
  BY <1>a, ClientFails DEF CResponse, CEnd
<1>b. CASE NextItem(down).kind = "ok"
  <2>1. /\ cpc = "resp" /\ cpc' = "hdr" /\ up' = up
        /\ down' = Consume(down) /\ Available(down)
        /\ UNCHANGED <<job, conn, srcLen, size, touched, dest, trailer, stamp,
                       svars>>
    BY <1>b DEF CResponse
  <2>2. /\ down' \in Stream /\ down'.log = down.log /\ down'.fin = down.fin
        /\ down'.read = 1 /\ 1 <= Len(down.log)
    BY <2>1, ConsumeFacts, NextIs, Types DEF Inv, ClientInv
  <2>3. opened
    BY <1>b, <2>1, NextIs DEF DownItem
  <2>4. TypeOK'
    BY <2>1, <2>2 DEF Inv, TypeOK, CState, svars
  <2>5. DownInv' /\ ServerInv'
    BY <2>1, <2>2, ClientStep DEF svars
  <2>6. ClientInv' /\ DestinationIsPrefix'
    BY <2>1, <2>2, <2>3 DEF Inv, ClientInv, DestinationIsPrefix, svars
  <2> QED
    BY <2>4, <2>5, <2>6 DEF Inv
<1> QED
  BY <1>a, <1>b

\* The second item is the header, which declares the length of the source.
LEMMA CHeaderKeeps == Inv /\ CHeader => Inv'
<1> SUFFICES ASSUME Inv, CHeader PROVE Inv'
  OBVIOUS
<1>1. /\ down.read = 1 /\ opened /\ ~touched
  BY DEF Inv, ClientInv, CHeader
<1>2. /\ down' \in Stream /\ down'.log = down.log /\ down'.fin = down.fin
      /\ down'.read = 2 /\ 2 <= Len(down.log)
  BY <1>1, ConsumeFacts, NextIs, Types DEF Inv, CHeader
<1>3. size' = declared
  BY <1>1, NextIs DEF CHeader, DownItem
<1>4. TypeOK'
  BY <1>2, <1>3, Types DEF Inv, TypeOK, CState, CHeader, svars
<1>5. DownInv' /\ ServerInv'
  BY <1>2, ClientStep DEF CHeader, svars
<1>6. ClientInv' /\ DestinationIsPrefix'
  BY <1>1, <1>2, <1>3 DEF Inv, ClientInv, DestinationIsPrefix, CHeader, svars
<1> QED
  BY <1>4, <1>5, <1>6 DEF Inv

\* The destination is created or truncated, and holds nothing yet.
LEMMA CCreateKeeps == Inv /\ CCreate => Inv'
<1> SUFFICES ASSUME Inv, CCreate PROVE Inv'
  OBVIOUS
<1>1. TypeOK'
  BY DEF Inv, TypeOK, CState, CCreate, svars
<1>2. DownInv' /\ ServerInv'
  BY ClientStep, Types DEF Inv, DownInv, CCreate, svars
<1>3. ClientInv' /\ DestinationIsPrefix'
  BY Types DEF Inv, ClientInv, DestinationIsPrefix, CCreate, svars
<1> QED
  BY <1>1, <1>2, <1>3 DEF Inv

\* copy_large takes the next item, which is the next unit of payload: a
\* trailer is never within the declared size.
LEMMA CReceiveKeeps == Inv /\ CReceive => Inv'
<1> SUFFICES ASSUME Inv, CReceive PROVE Inv'
  OBVIOUS
<1>1. /\ cpc = "payload" /\ touched /\ opened /\ size = declared
      /\ Len(dest) < declared /\ down.read = Len(dest) + 2
      /\ Available(down) /\ down' = Consume(down)
      /\ dest' = Append(dest, NextItem(down))
  BY DEF Inv, ClientInv, CReceive
<1>2. /\ NextItem(down) = [kind |-> "data", val |-> Len(dest) + 1]
      /\ NextItem(down) \in Item
  <2>1. /\ Len(down.log) <= sent + 3
        /\ Len(down.log) = sent + 3 => sent = declared
    BY <1>1 DEF Inv, ServerInv
  <2>2. /\ NextItem(down) = DownItem(Len(dest) + 3)
        /\ NextItem(down) \in Item
        /\ Len(dest) + 3 <= sent + 2
    BY <1>1, <2>1, NextIs, Types DEF Inv
  <2> QED
    BY <1>1, <2>2, Types DEF Inv, DownItem
<1>3. /\ down' \in Stream /\ down'.log = down.log /\ down'.fin = down.fin
      /\ down'.read = down.read + 1 /\ down.read + 1 <= Len(down.log)
  BY <1>1, ConsumeFacts, NextIs, Types DEF Inv
<1>4. /\ dest' \in Seq(Item) /\ Len(dest') = Len(dest) + 1
      /\ dest'[Len(dest) + 1] = [kind |-> "data", val |-> Len(dest) + 1]
      /\ \A i \in 1..Len(dest) : dest'[i] = dest[i]
  BY <1>1, <1>2 DEF Inv, TypeOK
<1>5. TypeOK'
  BY <1>3, <1>4 DEF Inv, TypeOK, CReceive, svars
<1>6. DownInv' /\ ServerInv'
  BY <1>3, ClientStep DEF CReceive, svars
<1>7. ClientInv'
  BY <1>1, <1>3, <1>4, Types DEF Inv, ClientInv, CReceive, svars
<1>8. DestinationIsPrefix'
  <2>1. ASSUME NEW i \in 1..Len(dest')
        PROVE  dest'[i] = [kind |-> "data", val |-> i]
    <3>1. i \in 1..Len(dest) \/ i = Len(dest) + 1
      BY <1>4, Types DEF Inv
    <3>2. \A j \in 1..Len(dest) : dest[j] = [kind |-> "data", val |-> j]
      BY DEF Inv, DestinationIsPrefix
    <3> QED
      BY <1>4, <3>1, <3>2
  <2> QED
    BY <2>1 DEF DestinationIsPrefix
<1> QED
  BY <1>5, <1>6, <1>7, <1>8 DEF Inv

\* copy_large returns, at the declared size or at the end of the stream.
LEMMA CPayloadEndsKeeps == Inv /\ CPayloadEnds => Inv'
<1> SUFFICES ASSUME Inv, CPayloadEnds PROVE Inv'
  OBVIOUS
<1>1. TypeOK'
  BY DEF Inv, TypeOK, CState, CPayloadEnds, svars
<1>2. DownInv' /\ ServerInv'
  BY ClientStep, Types DEF Inv, DownInv, CPayloadEnds, svars
<1>3. ClientInv' /\ DestinationIsPrefix'
  BY DEF Inv, ClientInv, DestinationIsPrefix, CPayloadEnds, AtEof, Available,
         svars
<1> QED
  BY <1>1, <1>2, <1>3 DEF Inv

\* Whatever is parsed as a trailer comes right after `declared` units: the
\* trailer that the server wrote, or payload beyond the declared size.
LEMMA CTrailerKeeps == Inv /\ CTrailer => Inv'
<1> SUFFICES ASSUME Inv, CTrailer PROVE Inv'
  OBVIOUS
<1>1. PICK p \in Parsed(NextItem(down)) :
         IF p = "error"
         THEN CReturn("failed") /\ UNCHANGED trailer
         ELSE /\ trailer' = p
              /\ cpc' = "meta"
              /\ down' = Consume(down)
              /\ UNCHANGED up
  BY DEF CTrailer
<1>2. /\ cpc = "trl" /\ Available(down)
      /\ UNCHANGED <<job, conn, srcLen, size, touched, dest, stamp, svars>>
  BY DEF CTrailer
<1>a. CASE p = "error"
  BY <1>1, <1>2, <1>a, ClientFails DEF CEnd
<1>b. CASE p # "error"
  <2>1. trailer' = p /\ cpc' = "meta" /\ down' = Consume(down) /\ up' = up
    BY <1>1, <1>b
  <2>2. /\ down' \in Stream /\ down'.log = down.log /\ down'.fin = down.fin
        /\ down'.read = down.read + 1 /\ down.read + 1 <= Len(down.log)
    BY <1>2, <2>1, ConsumeFacts, NextIs, Types DEF Inv
  <2>3. /\ touched /\ opened /\ size = declared /\ Len(dest) = declared
        /\ down.read = declared + 2
    BY <1>2 DEF Inv, ClientInv, AtEof
  <2>4. declared <= sent
    <3>1. Len(down.log) <= sent + 3
      BY DEF Inv, ServerInv
    <3> QED
      BY <2>2, <2>3, <3>1, Types DEF Inv
  <2>5. p \in {"source", "none", "junk"}
    BY <1>b DEF Parsed
  <2>6. ASSUME sent = declared
        PROVE  p = IF Carries THEN "source" ELSE "none"
    <3>1. NextItem(down) = [kind |-> "trl", val |-> IF Carries THEN 1 ELSE 0]
      BY <1>2, <2>3, <2>6, NextIs, Types DEF Inv, DownItem
    <3> QED
      BY <3>1 DEF Parsed
  <2>7. TypeOK'
    BY <1>2, <2>1, <2>2, <2>5 DEF Inv, TypeOK, CState, Metadata, svars
  <2>8. DownInv' /\ ServerInv'
    BY <1>2, <2>2, ClientStep DEF svars
  <2>9. ClientInv'
    <3>1. Carries' = Carries
      BY <1>2 DEF Carries
    <3> QED
      BY <1>2, <2>1, <2>3, <2>4, <2>6, <3>1, Types DEF Inv, ClientInv, svars
  <2>10. DestinationIsPrefix'
    BY <1>2 DEF Inv, DestinationIsPrefix
  <2> QED
    BY <2>7, <2>8, <2>9, <2>10 DEF Inv
<1> QED
  BY <1>a, <1>b

\* update_metadata applies what the trailer said, and send_impl returns Ok.
LEMMA CMetadataKeeps == Inv /\ CMetadata => Inv'
<1> SUFFICES ASSUME Inv, CMetadata PROVE Inv'
  OBVIOUS
<1>1. /\ cpc = "meta" /\ cpc' = "ok" /\ up' \in Stream /\ down' \in Stream
      /\ down'.log = down.log /\ down'.read = down.read
      /\ down'.fin = down.fin
  BY ClientReturns DEF Inv, TypeOK, CMetadata
<1>2. TypeOK'
  BY <1>1 DEF Inv, TypeOK, CState, CEnd, CMetadata, svars
<1>3. DownInv' /\ ServerInv'
  BY <1>1, ClientStep DEF Inv, DownInv, CMetadata, svars
<1>4. ClientInv' /\ DestinationIsPrefix'
  BY <1>1 DEF Inv, ClientInv, DestinationIsPrefix, CMetadata, Carries, svars
<1> QED
  BY <1>2, <1>3, <1>4 DEF Inv

-----------------------------------------------------------------------------
(* The server's actions.                                                   *)

\* Every way the handler has of giving up, but a short source.
LEMMA SGivesUpKeeps == Inv /\ (SNoCommand \/ SReadFails \/ SWriteFails) => Inv'
BY ServerFails DEF SNoCommand, SReadFails, SWriteFails, SEnd

\* The command is read from the other stream.
LEMMA SCommandKeeps == Inv /\ SCommand => Inv'
<1> SUFFICES ASSUME Inv, SCommand PROVE Inv'
  OBVIOUS
<1>1. up' \in Stream /\ down' = down
  BY ConsumeFacts, Types DEF Inv, SCommand
<1>2. TypeOK'
  BY <1>1 DEF Inv, TypeOK, SState, SCommand, cvars
<1>3. DownInv'
  BY <1>1, SameLog DEF Inv, DownInv, SCommand, SEnd
<1>4. ServerInv'
  BY <1>1 DEF Inv, ServerInv, SCommand
<1>5. ClientInv' /\ DestinationIsPrefix'
  BY <1>1, ServerStep, Types DEF Inv, SCommand, SEnd
<1> QED
  BY <1>2, <1>3, <1>4, <1>5 DEF Inv

\* open_with_meta succeeds, before anything has been sent.
LEMMA SOpenKeeps == Inv /\ SOpen => Inv'
<1> SUFFICES ASSUME Inv, SOpen PROVE Inv'
  OBVIOUS
<1>1. /\ spc = "open" /\ spc' = "accept" /\ down' = down /\ up' = up
      /\ opened' = TRUE /\ declared' = srcLen /\ sent' = sent
      /\ Len(down.log) = 0 /\ sent = 0 /\ ~opened
  BY DEF Inv, ServerInv, SOpen
<1>2. TypeOK'
  BY <1>1 DEF Inv, TypeOK, SState, SOpen, cvars
<1>3. DownInv'
  BY <1>1, Types DEF Inv, DownInv, SEnd
<1>4. ServerInv'
  BY <1>1, Types DEF Inv, ServerInv
<1>5. ClientInv'
  <2>1. /\ cpc \notin {"hdr", "create", "payload", "trl", "meta", "ok"}
        /\ ~touched /\ Len(dest) = 0
    BY <1>1 DEF Inv, ClientInv
  <2>2. declared' \in Nat
    BY <1>1, Types DEF Inv
  <2> QED
    BY <1>1, <2>1, <2>2 DEF Inv, ClientInv, SOpen, cvars
<1>6. DestinationIsPrefix'
  BY DEF Inv, DestinationIsPrefix, SOpen, cvars
<1> QED
  BY <1>2, <1>3, <1>4, <1>5, <1>6 DEF Inv

\* open_with_meta fails; only the program counter moves.
LEMMA SOpenFailsKeeps == Inv /\ SOpenFails => Inv'
<1> SUFFICES ASSUME Inv, SOpenFails PROVE Inv'
  OBVIOUS
<1>1. TypeOK'
  BY DEF Inv, TypeOK, SState, SOpenFails, cvars
<1>2. DownInv'
  BY SameLog DEF Inv, DownInv, SOpenFails, SEnd
<1>3. ServerInv'
  BY DEF Inv, ServerInv, SOpenFails
<1>4. ClientInv' /\ DestinationIsPrefix'
  BY ServerStep, Types DEF Inv, SOpenFails, SEnd
<1> QED
  BY <1>1, <1>2, <1>3, <1>4 DEF Inv

\* A message is appended to the stream down and the handler goes on.
LEMMA Sends ==
  ASSUME Inv, NEW k \in Kind, NEW v \in Nat, down' = Write(down, k, v)
  PROVE  /\ down' \in Stream /\ down'.log \in Seq(Item)
         /\ Len(down'.log) = Len(down.log) + 1
         /\ \A i \in 1..Len(down.log) : down'.log[i] = down.log[i]
         /\ down'.log[Len(down.log) + 1] = [kind |-> k, val |-> v]
         /\ down'.read = down.read /\ down'.fin = down.fin
<1>1. down \in Stream
  BY DEF Inv, TypeOK
<1> QED
  BY <1>1, WriteFacts DEF Stream

\* The OK and the header are the first two items.
LEMMA SAcceptKeeps == Inv /\ (SAccept \/ SSendHeader) => Inv'
<1> SUFFICES ASSUME Inv, SAccept \/ SSendHeader PROVE Inv'
  OBVIOUS
<1>1. /\ spc \in {"accept", "hdr"} /\ opened /\ sent = 0
      /\ Len(down.log) = IF spc = "accept" THEN 0 ELSE 1
      /\ spc' = IF spc = "accept" THEN "hdr" ELSE "payload"
      /\ up' = up
      /\ UNCHANGED <<job, conn, srcLen, cvars, opened, declared, sent>>
  BY DEF Inv, ServerInv, SAccept, SSendHeader, SWrite
<1>2. /\ down' \in Stream /\ down'.read = down.read /\ down'.fin = down.fin
      /\ Len(down'.log) = Len(down.log) + 1
      /\ \A i \in 1..Len(down.log) : down'.log[i] = down.log[i]
      /\ down'.log[Len(down.log) + 1] = DownItem(Len(down.log) + 1)
  <2>1. CASE SAccept
    <3>1. spc = "accept" /\ down' = Write(down, "ok", 0)
      BY <2>1 DEF SAccept, SWrite
    <3> QED
      BY <1>1, <3>1, Sends DEF Kind, DownItem
  <2>2. CASE SSendHeader
    <3>1. spc = "hdr" /\ down' = Write(down, "hdr", declared)
      BY <2>2 DEF SSendHeader, SWrite
    <3> QED
      BY <1>1, <3>1, Sends, Types DEF Inv, Kind, DownItem
  <2> QED
    BY <2>1, <2>2
<1>3. TypeOK'
  BY <1>1, <1>2 DEF Inv, TypeOK, SState, cvars
<1>4. DownInv'
  <2>1. \A i : DownItem(i)' = DownItem(i)
    BY <1>1 DEF DownItem, Carries
  <2>2. \A i \in 1..Len(down'.log) : i \in 1..Len(down.log) \/ i = Len(down.log) + 1
    BY <1>2, Types DEF Inv
  <2> QED
    BY <1>1, <1>2, <2>1, <2>2, Types DEF Inv, DownInv, SEnd
<1>5. ServerInv'
  BY <1>1, <1>2 DEF Inv, ServerInv
<1>6. ClientInv' /\ DestinationIsPrefix'
  BY <1>1, <1>2, ServerStep DEF SEnd
<1> QED
  BY <1>3, <1>4, <1>5, <1>6 DEF Inv

\* Units of payload follow in the order of the source.
LEMMA SSendUnitKeeps == Inv /\ SSendUnit => Inv'
<1> SUFFICES ASSUME Inv, SSendUnit PROVE Inv'
  OBVIOUS
<1>1. /\ spc = "payload" /\ opened /\ Len(down.log) = sent + 2
      /\ sent < srcLen /\ sent' = sent + 1 /\ up' = up
      /\ UNCHANGED <<job, conn, srcLen, cvars, spc, opened, declared>>
  BY DEF Inv, ServerInv, SSendUnit
<1>2. /\ down' \in Stream /\ down'.read = down.read /\ down'.fin = down.fin
      /\ Len(down'.log) = Len(down.log) + 1
      /\ \A i \in 1..Len(down.log) : down'.log[i] = down.log[i]
      /\ down'.log[Len(down.log) + 1] = [kind |-> "data", val |-> sent + 1]
  <2>1. down' = Write(down, "data", sent + 1)
    BY DEF SSendUnit
  <2>2. "data" \in Kind /\ sent + 1 \in Nat
    BY Types DEF Inv, Kind
  <2> QED
    BY <2>1, <2>2, Sends
<1>3. TypeOK'
  BY <1>1, <1>2 DEF Inv, TypeOK, SState, cvars
<1>4. DownInv'
  <2>1. ASSUME NEW i \in 1..Len(down'.log)
        PROVE  down'.log[i] = DownItem(i)'
    <3>1. CASE i \in 1..Len(down.log)
      <4>1. down'.log[i] = DownItem(i)
        BY <1>2, <3>1 DEF Inv, DownInv
      <4>2. DownItem(i)' = DownItem(i)
        BY <1>1, <3>1, Types DEF Inv, DownItem, Carries
      <4> QED
        BY <4>1, <4>2
    <3>2. CASE i = Len(down.log) + 1
      <4>1. /\ i = sent + 3 /\ i <= sent' + 2 /\ i - 2 = sent + 1
            /\ i # 1 /\ i # 2 /\ opened'
        <5>1. sent \in Nat
          BY Types DEF Inv
        <5>2. i = sent + 3 /\ sent' = sent + 1 /\ opened'
          BY <1>1, <3>2, <5>1
        <5> QED
          BY <5>1, <5>2
      <4> QED
        BY <1>2, <3>2, <4>1 DEF DownItem
    <3> QED
      BY <1>2, <3>1, <3>2, Types DEF Inv
  <2> QED
    BY <1>1, <1>2, <2>1, Types DEF Inv, DownInv, SEnd
<1>5. ServerInv'
  <2>1. spc' = "payload" /\ opened' = TRUE
    BY <1>1 DEF Inv, TypeOK
  <2>2. /\ Len(down'.log) = sent' + 2 /\ Len(down'.log) # sent' + 3
        /\ Len(down'.log) <= sent' + 3
    BY <1>1, <1>2, Types DEF Inv
  <2> QED
    BY <2>1, <2>2 DEF ServerInv
<1>6. ClientInv' /\ DestinationIsPrefix'
  BY <1>1, <1>2, ServerStep DEF SEnd
<1> QED
  BY <1>3, <1>4, <1>5, <1>6 DEF Inv

\* copy_large's count is checked: a source that shrank ends the request.
LEMMA SSourceEofKeeps == Inv /\ SSourceEof => Inv'
<1> SUFFICES ASSUME Inv, SSourceEof PROVE Inv'
  OBVIOUS
<1>a. CASE sent # declared
  BY <1>a, ServerFails DEF SSourceEof, SEnd
<1>b. CASE sent = declared
  <2>1. TypeOK'
    BY <1>b DEF Inv, TypeOK, SState, SSourceEof, cvars
  <2>2. DownInv'
    BY <1>b, SameLog DEF Inv, DownInv, SSourceEof, SEnd
  <2>3. ServerInv'
    BY <1>b DEF Inv, ServerInv, SSourceEof
  <2>4. ClientInv' /\ DestinationIsPrefix'
    BY <1>b, ServerStep, Types DEF Inv, SSourceEof, SEnd
  <2> QED
    BY <2>1, <2>2, <2>3, <2>4 DEF Inv
<1> QED
  BY <1>a, <1>b

\* The last message of a handler, and the end of its streams.
LEMMA SLastFacts ==
  ASSUME Inv, NEW from, NEW k \in Kind, NEW v \in Nat, NEW o, SLast(from, k, v, o)
  PROVE  /\ spc = from /\ spc' = o /\ up' \in Stream
         /\ down' \in Stream /\ down'.read = down.read
         /\ Len(down'.log) = Len(down.log) + 1
         /\ \A i \in 1..Len(down.log) : down'.log[i] = down.log[i]
         /\ down'.log[Len(down.log) + 1] = [kind |-> k, val |-> v]
         /\ UNCHANGED <<job, conn, srcLen, cvars, opened, declared, sent>>
<1> DEFINE w == Write(down, k, v)
<1>1. up \in Stream /\ down \in Stream
  BY DEF Inv, TypeOK
<1>2. /\ w \in Stream /\ w.read = down.read
      /\ Len(w.log) = Len(down.log) + 1
      /\ \A i \in 1..Len(down.log) : w.log[i] = down.log[i]
      /\ w.log[Len(down.log) + 1] = [kind |-> k, val |-> v]
  BY <1>1, WriteFacts
<1>3. down' = Finish(w) /\ up' = Stop(up)
  BY DEF SLast
<1> HIDE DEF w
<1>4. /\ down' \in Stream /\ down'.log = w.log /\ down'.read = w.read
      /\ up' \in Stream
  BY <1>1, <1>2, <1>3, FinishFacts, StopFacts
<1> QED
  BY <1>2, <1>4 DEF SLast

\* The trailer comes after `declared` units, the error before anything else;
\* either is the last item.
LEMMA SLastKeeps == Inv /\ (SSendTrailer \/ SRefuse) => Inv'
<1> SUFFICES ASSUME Inv, SSendTrailer \/ SRefuse PROVE Inv'
  OBVIOUS
<1>1. /\ spc \in {"trl", "err"}
      /\ spc' = IF spc = "trl" THEN "ok" ELSE "failed"
      /\ up' \in Stream /\ down' \in Stream /\ down'.read = down.read
      /\ Len(down'.log) = Len(down.log) + 1
      /\ \A i \in 1..Len(down.log) : down'.log[i] = down.log[i]
      /\ down'.log[Len(down.log) + 1] = DownItem(Len(down.log) + 1)
      /\ UNCHANGED <<job, conn, srcLen, cvars, opened, declared, sent>>
  <2>1. CASE SSendTrailer
    <3>1. SLast("trl", "trl", IF Carries THEN 1 ELSE 0, "ok")
      BY <2>1 DEF SSendTrailer
    <3>2. spc = "trl"
      BY <3>1 DEF SLast
    <3>3. opened /\ Len(down.log) = sent + 2 /\ sent \in Nat
      BY <3>2, Types DEF Inv, ServerInv
    <3>4. DownItem(Len(down.log) + 1) = [kind |-> "trl", val |-> IF Carries THEN 1 ELSE 0]
      BY <3>3 DEF DownItem
    <3>5. "trl" \in Kind /\ (IF Carries THEN 1 ELSE 0) \in Nat
      BY DEF Kind
    <3> QED
      BY <3>1, <3>4, <3>5, SLastFacts
  <2>2. CASE SRefuse
    <3>1. SLast("err", "err", 0, "failed") /\ "err" \in Kind
      BY <2>2 DEF SRefuse, Kind
    <3>2. spc = "err"
      BY <3>1 DEF SLast
    <3>3. ~opened
      BY <3>2 DEF Inv, ServerInv
    <3> QED
      BY <3>1, <3>3, SLastFacts DEF DownItem
  <2> QED
    BY <2>1, <2>2
<1>2. TypeOK'
  BY <1>1 DEF Inv, TypeOK, SState, SEnd, cvars
<1>3. DownInv'
  <2>1. \A i : DownItem(i)' = DownItem(i)
    BY <1>1 DEF DownItem, Carries
  <2>2. \A i \in 1..Len(down'.log) : i \in 1..Len(down.log) \/ i = Len(down.log) + 1
    BY <1>1, Types DEF Inv
  <2>3. \A i \in 1..Len(down'.log) : down'.log[i] = DownItem(i)'
    BY <1>1, <2>1, <2>2 DEF Inv, DownInv
  <2>4. down'.read <= Len(down'.log) /\ spc' \in SEnd
    BY <1>1, Types DEF Inv, DownInv, SEnd
  <2> QED
    BY <2>3, <2>4 DEF DownInv
<1>4. ServerInv'
  BY <1>1, Types DEF Inv, ServerInv
<1>5. ClientInv' /\ DestinationIsPrefix'
  BY <1>1, ServerStep DEF SEnd
<1> QED
  BY <1>2, <1>3, <1>4, <1>5 DEF Inv

-----------------------------------------------------------------------------
(* The world, and the theorems.                                            *)

\* What the sides have done does not change with the connection, or with a
\* source that was opened.
LEMMA WorldKeeps ==
  Inv /\ (ConnectionLost \/ SourceChanges \/ UNCHANGED vars) => Inv'
<1> SUFFICES ASSUME Inv, ConnectionLost \/ SourceChanges \/ UNCHANGED vars
             PROVE  Inv'
  OBVIOUS
<1>1. /\ UNCHANGED <<job, up, down, cvars, svars>>
      /\ srcLen' \in 0..MaxLen /\ conn' \in {"up", "lost"}
  BY DEF Inv, TypeOK, ConnectionLost, SourceChanges, vars
<1>2. TypeOK'
  BY <1>1 DEF Inv, TypeOK, cvars, svars
<1>3. DownInv' /\ ServerInv'
  BY <1>1, ClientStep, Types DEF Inv, DownInv, svars
<1>4. ClientInv' /\ DestinationIsPrefix'
  BY <1>1 DEF Inv, ClientInv, DestinationIsPrefix, AtEof, Available, Carries,
              cvars, svars
<1> QED
  BY <1>2, <1>3, <1>4 DEF Inv

\* The invariant holds of a GET that has not begun.
LEMMA InitInv == Init => Inv
<1> SUFFICES ASSUME Init PROVE Inv
  OBVIOUS
<1>1. /\ down \in Stream /\ up \in Stream /\ Len(down.log) = 0
      /\ down.read = 0 /\ ~down.fin
  BY NewStreamFacts DEF Init
<1>2. TypeOK
  <2>1. dest \in Seq(Item) /\ 0 \in 0..MaxLen
    BY DEF Init
  <2> QED
    BY <1>1, <2>1 DEF Init, TypeOK, CState, SState, Metadata
<1>3. DownInv /\ ServerInv
  BY <1>1 DEF Init, DownInv, ServerInv
<1>4. ClientInv /\ DestinationIsPrefix
  BY <1>1 DEF Init, ClientInv, DestinationIsPrefix
<1> QED
  BY <1>2, <1>3, <1>4 DEF Inv

\* Every step of a GET keeps Inv.
LEMMA Inductive == Inv /\ [Next]_vars => Inv'
<1> SUFFICES ASSUME Inv, [Next]_vars PROVE Inv'
  OBVIOUS
<1>1. CASE ClientNext
  BY <1>1, CGivesUpKeeps, CSendCmdKeeps, CResponseKeeps, CHeaderKeeps,
     CCreateKeeps, CReceiveKeeps, CPayloadEndsKeeps, CTrailerKeeps,
     CMetadataKeeps DEF ClientNext, ClientGoesOn
<1>2. CASE ServerNext
  BY <1>2, SGivesUpKeeps, SCommandKeeps, SOpenKeeps, SOpenFailsKeeps,
     SAcceptKeeps, SSendUnitKeeps, SSourceEofKeeps, SLastKeeps DEF ServerNext, ServerGoesOn
<1>3. CASE ConnectionLost \/ SourceChanges \/ Ended \/ UNCHANGED vars
  BY <1>3, WorldKeeps DEF Ended
<1> QED
  BY <1>1, <1>2, <1>3 DEF Next

\* The invariant holds of every reachable state.
THEOREM Invariance == Spec => []Inv
<1>1. Init => Inv
  BY InitInv
<1>2. Inv /\ [Next]_vars => Inv'
  BY Inductive
<1> QED
  BY <1>1, <1>2, PTL DEF Spec

\* The variables of send_impl and handle_impl stay within their types.
THEOREM TypeCorrect == Spec => []TypeOK
<1>1. Inv => TypeOK
  BY DEF Inv
<1> QED
  BY <1>1, Invariance, PTL

\* The handler writes a trailer only after exactly the declared payload.
THEOREM TrailerAlwaysMeansWhole == Spec => []TrailerMeansWhole
<1>1. Inv => TrailerMeansWhole
  <2> SUFFICES ASSUME Inv, NEW i \in 1..Len(down.log), down.log[i].kind = "trl"
               PROVE  i = declared + 3 /\ i = Len(down.log)
    BY DEF TrailerMeansWhole
  <2>1. DownItem(i).kind = "trl"
    BY DEF Inv, DownInv
  <2>2. opened /\ i > sent + 2
    BY <2>1, Types DEF Inv, DownItem
  <2>3. Len(down.log) <= sent + 3 /\ (Len(down.log) = sent + 3 => sent = declared)
    BY <2>2 DEF Inv, ServerInv
  <2> QED
    BY <2>2, <2>3, Types DEF Inv
<1> QED
  BY <1>1, Invariance, PTL

-----------------------------------------------------------------------------
(* A GET implements FileCopy: what the user of a GET sees of it.           *)

Units    == [i \in 1..Len(dest) |-> dest[i].val]
Status   == IF cpc \in CEnd THEN cpc ELSE "running"
Stamped  == stamp = "source"
Moved    == sent > declared

\* The offsets of the destination's units are a sequence as long as it is.
LEMMA UnitsFacts ==
  ASSUME dest \in Seq(Item)
  PROVE  Units \in Seq(Nat) /\ Len(Units) = Len(dest)
<1>1. Len(dest) \in Nat /\ \A i \in 1..Len(dest) : dest[i] \in Item
  OBVIOUS
<1>2. \A i \in 1..Len(dest) : dest[i].val \in Nat
  BY <1>1 DEF Item
<1>3. Units \in [1..Len(dest) -> Nat]
  BY <1>2 DEF Units
<1> QED
  BY <1>1, <1>3

\* A step that leaves the client running and the file alone is not seen.
LEMMA Unseen ==
  ASSUME UNCHANGED <<job, sent, declared, opened, touched, dest, stamp>>,
         cpc' = cpc \/ (cpc \notin CEnd /\ cpc' \notin CEnd)
  PROVE  UNCHANGED Copy!vars
<1>1. UNCHANGED <<Carries, Units, Stamped, Moved>>
  BY DEF Carries, Units, Stamped, Moved
<1>2. UNCHANGED Status
  BY DEF Status, CEnd
<1> QED
  BY <1>1, <1>2 DEF Copy!vars, Units, Stamped, Moved, Status

\* Giving up is the user being told of a failure.
LEMMA FailSeen ==
  ASSUME UNCHANGED <<job, sent, declared, opened, touched, dest, stamp>>,
         cpc \notin CEnd, cpc' = "failed"
  PROVE  Copy!Fail
<1>1. UNCHANGED <<Carries, Units, Stamped, Moved>>
  BY DEF Carries, Units, Stamped, Moved
<1>2. Status = "running" /\ Status' = "failed"
  BY DEF Status, CEnd
<1> QED
  BY <1>1, <1>2 DEF Copy!Fail, Units, Stamped, Moved, Status

\* send_impl: creating the file, writing a unit, success and failure are
\* steps of FileCopy; the rest is not seen.
LEMMA ClientRefines == Inv /\ ClientNext => Copy!Next \/ UNCHANGED Copy!vars
<1> SUFFICES ASSUME Inv, ClientNext
             PROVE  Copy!Next \/ UNCHANGED Copy!vars
  OBVIOUS
<1>1. CASE CWriteFails \/ CNoMessage \/ CFileFails
  <2>1. Copy!Fail
    BY <1>1, FailSeen DEF CWriteFails, CNoMessage, CFileFails, CReturn, CEnd,
                          svars
  <2> QED
    BY <2>1 DEF Copy!Next
<1>2. CASE CSendCmd \/ CHeader \/ CPayloadEnds
  BY <1>2, Unseen DEF CSendCmd, CHeader, CPayloadEnds, CEnd, svars
<1>3. CASE CResponse \/ CTrailer
  <2>1. UNCHANGED <<job, sent, declared, opened, touched, dest, stamp>>
    BY <1>3 DEF CResponse, CTrailer, svars
  <2>2. cpc \notin CEnd /\ cpc' \in {"hdr", "meta", "failed"}
    BY <1>3 DEF CResponse, CTrailer, CReturn, CEnd
  <2>3. CASE cpc' = "failed"
    BY <2>1, <2>2, <2>3, FailSeen DEF Copy!Next
  <2>4. CASE cpc' # "failed"
    BY <2>1, <2>2, <2>4, Unseen DEF CEnd
  <2> QED
    BY <2>3, <2>4
<1>4. CASE CCreate
  <2>1. Status # "ok" /\ opened /\ ~touched
    BY <1>4 DEF Inv, ClientInv, CCreate, Status, CEnd
  <2>2. touched' = TRUE /\ UNCHANGED <<declared, opened>>
    BY <1>4 DEF CCreate, svars
  <2>3. UNCHANGED <<Carries, Status, Moved, Units, Stamped>>
    BY <1>4 DEF CCreate, svars, Carries, Status, Moved, Units, Stamped, CEnd
  <2> QED
    BY <2>1, <2>2, <2>3
       DEF Copy!Next, Copy!Truncate, Units, Stamped, Moved, Status
<1>5. CASE CReceive
  <2>1. Status # "ok"
    BY <1>5 DEF CReceive, Status, CEnd
  <2>2. touched /\ Len(dest) < declared
    BY <1>5 DEF Inv, ClientInv, CReceive
  <2>3. Units' = Append(Units, Len(Units) + 1)
    <3>1. DestinationIsPrefix /\ DestinationIsPrefix'
      BY <1>5, CReceiveKeeps DEF Inv
    <3>2. Len(dest) \in Nat /\ Len(dest') = Len(dest) + 1
      BY <1>5, Types DEF Inv, TypeOK, CReceive
    <3>3. Units = [i \in 1..Len(dest) |-> i]
      <4>1. ASSUME NEW i \in 1..Len(dest) PROVE dest[i].val = i
        <5>1. dest[i] = [kind |-> "data", val |-> i]
          BY <3>1 DEF DestinationIsPrefix
        <5> QED
          BY <5>1
      <4> QED
        BY <4>1 DEF Units
    <3>4. Units' = [i \in 1..Len(dest) + 1 |-> i]
      <4>1. ASSUME NEW i \in 1..Len(dest') PROVE dest'[i].val = i
        <5>1. dest'[i] = [kind |-> "data", val |-> i]
          BY <3>1 DEF DestinationIsPrefix
        <5> QED
          BY <5>1
      <4> QED
        BY <3>2, <4>1 DEF Units
    <3>5. \A n \in Nat :
            [i \in 1..n + 1 |-> i] = Append([i \in 1..n |-> i], n + 1)
      OBVIOUS
    <3>6. Len(Units) = Len(dest)
      BY UnitsFacts DEF Inv, TypeOK
    <3> QED
      BY <3>2, <3>3, <3>4, <3>5, <3>6
  <2>4. UNCHANGED <<Carries, Status, Moved, Stamped>>
    BY <1>5 DEF CReceive, svars, Carries, Status, Moved, Stamped
  <2>5. UNCHANGED <<declared, opened, touched>>
    BY <1>5 DEF CReceive, svars
  <2>6. Len(Units) < declared
    BY <2>2, UnitsFacts DEF Inv, TypeOK
  <2>7. Copy!AppendUnit
    BY <2>1, <2>2, <2>3, <2>4, <2>5, <2>6
       DEF Copy!AppendUnit, Units, Stamped, Moved, Status
  <2> QED
    BY <2>7 DEF Copy!Next
<1>6. CASE CMetadata
  <2>1. Status = "running" /\ Status' = "ok"
    BY <1>6 DEF CMetadata, CReturn, Status, CEnd
  <2>2. /\ touched /\ Len(dest) = declared /\ sent >= declared
        /\ sent = declared /\ Carries => trailer = "source"
    BY <1>6 DEF Inv, ClientInv, CMetadata
  <2>3. Carries /\ ~Moved => Stamped'
    BY <1>6, <2>2, Types DEF Inv, Moved, CMetadata, Stamped
  <2>4. UNCHANGED <<Carries, Moved, Units, declared, opened, touched>>
    BY <1>6 DEF CMetadata, svars, Carries, Moved, Units
  <2>5. Len(Units) = declared /\ Stamped' \in BOOLEAN
    BY <2>2, UnitsFacts DEF Inv, TypeOK, Stamped
  <2>6. Copy!Succeed
    BY <2>1, <2>2, <2>3, <2>4, <2>5
       DEF Copy!Succeed, Units, Stamped, Moved, Status
  <2> QED
    BY <2>6 DEF Copy!Next
<1> QED
  BY <1>1, <1>2, <1>3, <1>4, <1>5, <1>6 DEF ClientNext, ClientGoesOn

\* handle_impl: opening the source is a step of FileCopy, a unit sent beyond
\* the declared length its SourceGrows; the rest is not seen.
LEMMA ServerRefines == Inv /\ ServerNext => Copy!Next \/ UNCHANGED Copy!vars
<1> SUFFICES ASSUME Inv, ServerNext
             PROVE  Copy!Next \/ UNCHANGED Copy!vars
  OBVIOUS
<1>1. CASE SCommand \/ SNoCommand \/ SOpenFails \/ SAccept \/ SSendHeader
           \/ SSourceEof \/ SReadFails \/ SSendTrailer \/ SRefuse \/ SWriteFails
  BY <1>1, Unseen DEF SCommand, SNoCommand, SOpenFails, SAccept, SSendHeader,
                      SWrite, SSourceEof, SReadFails, SSendTrailer, SRefuse,
                      SLast, SWriteFails, cvars
<1>2. CASE SOpen
  <2>1. sent = 0 /\ declared = 0 /\ ~opened
    BY <1>2 DEF Inv, ServerInv, SOpen
  <2>2. Status # "ok"
    BY <2>1 DEF Inv, ClientInv, Status, CEnd
  <2>3. opened' = TRUE /\ declared' \in Nat /\ sent' = 0
    BY <1>2, <2>1, Types DEF Inv, SOpen
  <2>4. Moved = FALSE /\ Moved' = FALSE
    BY <2>1, <2>3 DEF Moved
  <2>5. UNCHANGED <<Carries, Status, touched, Units, Stamped>>
    BY <1>2 DEF SOpen, cvars, Carries, Status, Units, Stamped
  <2> QED
    BY <2>1, <2>2, <2>3, <2>4, <2>5
       DEF Copy!Next, Copy!OpenSource, Units, Stamped, Moved, Status
<1>3. CASE SSendUnit
  <2>1. sent' = sent + 1 /\ declared' = declared /\ sent \in Nat /\ declared \in Nat
    BY <1>3, Types DEF Inv, SSendUnit
  <2>2. opened
    BY <1>3 DEF Inv, ServerInv, SSendUnit
  <2>3. UNCHANGED <<Carries, Units, Stamped, Status, declared, opened, touched>>
    BY <1>3 DEF SSendUnit, cvars, Carries, Units, Stamped, Status
  <2>4. Moved' = Moved \/ (Moved = FALSE /\ Moved' = TRUE)
    BY <2>1 DEF Moved
  <2>5. CASE Moved' = Moved
    BY <2>3, <2>5 DEF Copy!vars, Units, Stamped, Moved, Status
  <2>6. CASE Moved = FALSE /\ Moved' = TRUE
    BY <2>2, <2>3, <2>6
       DEF Copy!Next, Copy!SourceGrows, Units, Stamped, Moved, Status
  <2> QED
    BY <2>4, <2>5, <2>6
<1> QED
  BY <1>1, <1>2, <1>3 DEF ServerNext, ServerGoesOn

\* Every step of the two programs is a step of FileCopy or is not seen.
LEMMA Refines == Inv /\ [Next]_vars => [Copy!Next]_Copy!vars
<1> SUFFICES ASSUME Inv, [Next]_vars
             PROVE  Copy!Next \/ UNCHANGED Copy!vars
  OBVIOUS
<1>1. CASE ConnectionLost \/ SourceChanges \/ Ended \/ UNCHANGED vars
  BY <1>1, Unseen DEF ConnectionLost, SourceChanges, Ended, vars, cvars, svars
<1> QED
  BY <1>1, ClientRefines, ServerRefines DEF Next

\* A GET that has not begun is a FileCopy that has not begun.
LEMMA InitRefines == Init => Copy!Init
<1> SUFFICES ASSUME Init PROVE Copy!Init
  OBVIOUS
<1>1. Carries \in BOOLEAN
  BY DEF Init, Carries
<1>2. Status = "running" /\ Moved = FALSE /\ declared = 0
  BY DEF Init, Status, Moved, CEnd
<1>3. Units = <<>> /\ Stamped = FALSE /\ opened = FALSE /\ touched = FALSE
  <2>1. dest = <<>> /\ Len(dest) = 0
    BY DEF Init
  <2>2. Units \in Seq(Nat) /\ Len(Units) = 0
    BY <2>1, UnitsFacts
  <2> QED
    BY <2>2 DEF Init, Stamped
<1> QED
  BY <1>1, <1>2, <1>3 DEF Copy!Init, Units, Stamped, Moved, Status

\* What get.rs does, seen from outside, is a copy of a file.
THEOREM GetImplementsFileCopy == Spec => ImplementsFileCopy
<1>1. Init => Copy!Init
  BY InitRefines
<1>2. Inv /\ [Next]_vars => [Copy!Next]_Copy!vars
  BY Refines
<1> QED
  BY <1>1, <1>2, Invariance, PTL DEF Spec, ImplementsFileCopy, Copy!Spec
=============================================================================
