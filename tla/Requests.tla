------------------------------ MODULE Requests ------------------------------
(***************************************************************************)
(* The requests that carry no file: LIST (session/ls.rs), CREATEDIRECTORY  *)
(* (session/mkdir.rs) and SETMETADATA (session/set_meta.rs), each from     *)
(* `send_impl` on the client to server/stream.rs `handle_stream` and       *)
(* `handle_impl` on the server, over one bidirectional QUIC stream.        *)
(*                                                                         *)
(*   client   cmd ->         <- ok [part ... part] | err                   *)
(*                                                                         *)
(* A listing longer than one message may be is sent in parts.  Sizes are   *)
(* in units of the model; an entry is told apart by its encoded size only. *)
(***************************************************************************)
EXTENDS QuicStream, FiniteSets, SequencesExt

CONSTANTS
  WIRE_ENCODING_LIMIT,  \* of a ListData
  EntrySizes,           \* sizes a ListEntry may encode to
  LengthBase,           \* a length takes one more unit per power of it
  Headroom,             \* split_by_size: room for the length to grow
  MaxEntries            \* bound of the model: entries of a directory

ASSUME SizesAssumption ==
  /\ EntrySizes \subseteq Nat \ {0}
  /\ LengthBase \in Nat \ {0, 1} /\ Headroom \in Nat /\ MaxEntries \in Nat
  /\ WIRE_ENCODING_LIMIT \in Nat

\* A path is at most PATH_MAX long, so that any entry fits in a message by
\* itself; split_by_size would not return for one that does not.
ASSUME EntryFits == \A s \in EntrySizes : 2 + Headroom + s <= WIRE_ENCODING_LIMIT

VARIABLES
  job,       \* op: which request; supported: the level has it
  conn,      \* the QUIC connection: "up" or "lost"
  up, down,  \* the stream's two directions, client to server and back
  cpc,       \* client: next await of send_impl, or how it ended
  got,       \* client: ListData received
  node,      \* what is at the remote path
  spc,       \* server: next await of the handler, or "ok" / "failed"
  walked,    \* server: entries WalkDir has given
  packets,   \* server: the listing as it will be sent
  did,       \* server: what it has done about the request (history)
  meddled    \* another program has changed what is at the path

cvars == <<cpc, got>>
svars == <<spc, walked, packets, did>>
RequestVars == <<job, conn, up, down, cvars, node, svars, meddled>>

Ops == {"list", "mkdir", "setmeta"}
Nodes == {"absent", "file", "dir", "stamped", "neither"}
IsDir == node \in {"dir", "stamped"}

CEnd == {"ok", "refused", "failed"}
SEnd == {"ok", "failed"}

-----------------------------------------------------------------------------
(* Encoding and splitting a listing.                                       *)

SumSeq(s) ==
  LET upto[i \in 0..Len(s)] == IF i = 0 THEN 0 ELSE upto[i - 1] + s[i]
  IN  upto[Len(s)]

LengthSize(n) == 1 + Cardinality({d \in 1..n : LengthBase ^ d <= n})

\* The room covers the length of any list that a message may hold.
ASSUME HeadroomSuffices == \A n \in 0..WIRE_ENCODING_LIMIT : LengthSize(n) <= 1 + Headroom

\* The length of the list, its entries and the flag more_to_come.
EncodedSize(entries) == LengthSize(Len(entries)) + SumSeq(entries) + 1

Part(entries, more) == [entries |-> entries, more_to_come |-> more]

\* Plausible bug: the length is thought to take no more room as it grows.
SplitWithoutHeadroom(list) ==
  LET full(part, e) == 2 + SumSeq(part) + e > WIRE_ENCODING_LIMIT
      put(parts, e) == IF full(Last(parts), e) THEN Append(parts, <<e>>)
                       ELSE [parts EXCEPT ![Len(parts)] = Append(@, e)]
      upto[i \in 0..Len(list)] == IF i = 0 THEN << <<>> >> ELSE put(upto[i - 1], list[i])
      parts == upto[Len(list)]
  IN IF EncodedSize(list) <= WIRE_ENCODING_LIMIT THEN <<Part(list, FALSE)>>
     ELSE [i \in 1..Len(parts) |-> Part(parts[i], i < Len(parts))]

\* Each entry goes into the part at hand unless that would be too large then.
split_by_size(list) ==
  LET full(part, e) == 2 + Headroom + SumSeq(part) + e > WIRE_ENCODING_LIMIT
      put(parts, e) == IF full(Last(parts), e) THEN Append(parts, <<e>>)
                       ELSE [parts EXCEPT ![Len(parts)] = Append(@, e)]
      upto[i \in 0..Len(list)] == IF i = 0 THEN << <<>> >> ELSE put(upto[i - 1], list[i])
      parts == upto[Len(list)]
  IN IF EncodedSize(list) <= WIRE_ENCODING_LIMIT THEN <<Part(list, FALSE)>>
     ELSE [i \in 1..Len(parts) |-> Part(parts[i], i < Len(parts))]

join(parts) ==
  LET upto[i \in 0..Len(parts)] == IF i = 0 THEN <<>> ELSE upto[i - 1] \o parts[i].entries
  IN  upto[Len(parts)]

-----------------------------------------------------------------------------

RequestInit == /\ job \in [op : Ops, supported : BOOLEAN]
               /\ conn = "up" /\ up = NewStream /\ down = NewStream
               /\ cpc = "check" /\ got = <<>>
               /\ node \in Nodes
               /\ spc = "cmd" /\ walked = <<>> /\ packets = <<>> /\ did = "none"
               /\ meddled = FALSE

-----------------------------------------------------------------------------
(* The client.                                                             *)

\* Plausible bug: the stream outlives the command, as in a leaked clone.
CReturnLeaks(outcome) == cpc' = outcome /\ UNCHANGED <<up, down>>

\* send_impl returns: its SendReceivePair is dropped with the command object.
CReturn(outcome) == /\ cpc' = outcome
                    /\ up' = Finish(up) /\ down' = Stop(down)

\* Nothing is sent to a peer that does not know the request.
CCheck == /\ cpc = "check"
          /\ IF job.supported THEN cpc' = "cmd" /\ UNCHANGED <<up, down>>
             ELSE CReturn("failed")
          /\ UNCHANGED <<job, conn, got, node, svars, meddled>>

\* SETMETADATA: the local path is missing or is no directory.
CNoLocalDirectory == /\ cpc = "check" /\ job.op = "setmeta"
                     /\ CReturn("failed")
                     /\ UNCHANGED <<job, conn, got, node, svars, meddled>>

CSendCmd == /\ cpc = "cmd" /\ conn = "up"
            /\ up' = Write(up, "cmd", 0)
            /\ cpc' = "resp"
            /\ UNCHANGED <<job, conn, down, got, node, svars, meddled>>

CWriteFails == /\ cpc = "cmd" /\ conn = "lost"
               /\ CReturn("failed")
               /\ UNCHANGED <<job, conn, got, node, svars, meddled>>

CResponse == /\ cpc = "resp" /\ Available(down)
             /\ IF NextItem(down).kind = "err" THEN CReturn("refused")
                ELSE IF job.op # "list" THEN CReturn("ok")
                ELSE cpc' = "parts" /\ down' = Consume(down) /\ up' = up
             /\ UNCHANGED <<job, conn, got, node, svars, meddled>>

CPart == /\ cpc = "parts" /\ Available(down)
         /\ LET packet == packets[NextItem(down).val]
            IN /\ got' = Append(got, packet)
               /\ IF packet.more_to_come
                  THEN down' = Consume(down) /\ UNCHANGED <<cpc, up>>
                  ELSE CReturn("ok")
         /\ UNCHANGED <<job, conn, node, svars, meddled>>

\* Plausible bug: the end of the stream is taken for the end of the listing.
CNoMessageEndsListing ==
  /\ cpc \in {"resp", "parts"} /\ ~Available(down)
  /\ AtEof(down) \/ conn = "lost"
  /\ CReturn(IF got = <<>> THEN "failed" ELSE "ok")
  /\ UNCHANGED <<job, conn, got, node, svars, meddled>>

\* End of file or a lost connection where a message was due.
CNoMessage == /\ cpc \in {"resp", "parts"}
              /\ AtEof(down) \/ conn = "lost"
              /\ CReturn("failed")
              /\ UNCHANGED <<job, conn, got, node, svars, meddled>>

-----------------------------------------------------------------------------
(* The server.                                                             *)

\* handle_stream returns: the handler is dropped with its SendReceivePair.
SReturn(outcome) == /\ spc' = outcome
                    /\ up' = Stop(up) /\ down' = Finish(down)

SCommand == /\ spc = "cmd" /\ Available(up)
            /\ up' = Consume(up)
            /\ spc' = "stat"
            /\ UNCHANGED <<job, conn, down, cvars, node, walked, packets, did, meddled>>

SNoCommand == /\ spc = "cmd"
              /\ AtEof(up) \/ conn = "lost"
              /\ SReturn("failed")
              /\ UNCHANGED <<job, conn, cvars, node, walked, packets, did, meddled>>

\* error_and_return: what is left is to send the response.
SRefuse == spc' = "err" /\ did' = "refused"

\* The handler stops without an answer.
SBail == SReturn("failed") /\ UNCHANGED did

StatPaths == UNCHANGED <<job, conn, cvars, node, meddled>>

\* fs::metadata at the start of each handler.
SStatList == /\ spc = "stat" /\ job.op = "list" /\ StatPaths
             /\ \/ /\ node = "absent" /\ SRefuse /\ UNCHANGED <<up, down, walked,
                                                                packets>>
                \/ /\ node = "file"
                   /\ \E e \in EntrySizes : walked' = <<e>> /\ packets' = <<Part(<<e>>, FALSE)>>
                   /\ spc' = "answer" /\ did' = "done" /\ UNCHANGED <<up, down>>
                \/ /\ node \notin {"absent", "file"}
                   /\ spc' = "walk" /\ UNCHANGED <<up, down, walked, packets, did>>

\* It already exists: this is not an error, unless it is no directory.
SStatMkdir == /\ spc = "stat" /\ job.op = "mkdir" /\ StatPaths
              /\ \/ node = "absent" /\ spc' = "create" /\ UNCHANGED <<up, down, did>>
                 \/ node = "file" /\ SRefuse /\ UNCHANGED <<up, down>>
                 \/ IsDir /\ spc' = "answer" /\ did' = "done" /\ UNCHANGED <<up, down>>
                 \/ node = "neither" /\ SBail
              /\ UNCHANGED <<walked, packets>>

SStatSetMeta == /\ spc = "stat" /\ job.op = "setmeta" /\ StatPaths
                /\ IF IsDir THEN spc' = "stamp" /\ UNCHANGED did ELSE SRefuse
                /\ UNCHANGED <<up, down, walked, packets>>

ActPaths == UNCHANGED <<job, conn, up, down, cvars>>

\* WalkDir, one entry at a time; the root is the first of them.
SWalk == /\ spc = "walk" /\ Len(walked) < MaxEntries
         /\ \E e \in EntrySizes : walked' = Append(walked, e)
         /\ ActPaths /\ UNCHANGED <<node, spc, packets, did, meddled>>

\* The path has gone, something below it cannot be read, a link leads nowhere
\* or in a circle: one such entry and there is no listing.
SWalkFails == /\ spc = "walk"
              /\ SRefuse
              /\ ActPaths /\ UNCHANGED <<node, walked, packets, meddled>>

SWalkEnds == /\ spc = "walk" /\ walked # <<>>
             /\ packets' = split_by_size(walked)
             /\ spc' = "answer" /\ did' = "done"
             /\ ActPaths /\ UNCHANGED <<node, walked, meddled>>

\* fs::create_dir, whatever has come to the path since it was looked at.
SCreate == /\ spc = "create"
           /\ \/ /\ node = "absent" /\ node' = "dir"
                 /\ spc' = "answer" /\ did' = "done"
              \/ SRefuse /\ UNCHANGED node
           /\ ActPaths /\ UNCHANGED <<walked, packets, meddled>>

\* fs::set_permissions, for the one attribute a client of this version sends.
SStamp == /\ spc = "stamp"
          /\ \/ /\ node # "absent"
                /\ node' = IF IsDir THEN "stamped" ELSE node
                /\ spc' = "answer" /\ did' = "done"
             \/ SRefuse /\ UNCHANGED node
          /\ ActPaths /\ UNCHANGED <<walked, packets, meddled>>

\* to_writer_async_framed: a message over its limit is not sent.
TooLong(packet) == EncodedSize(packet.entries) > WIRE_ENCODING_LIMIT

\* After the answer.
SentParts == Len(down.log) - 1

\* The last message of a handler, after which it returns.
SLast(kind, val) == /\ spc' = IF kind = "err" THEN "failed" ELSE "ok"
                    /\ up' = Stop(up) /\ down' = Finish(Write(down, kind, val))

SAnswer == /\ spc \in {"answer", "err"} /\ conn = "up" /\ HasRoom(down)
           /\ IF spc = "err" THEN SLast("err", 0)
              ELSE IF job.op # "list" THEN SLast("ok", 0)
              ELSE spc' = "parts" /\ down' = Write(down, "ok", 0) /\ UNCHANGED up
           /\ UNCHANGED <<job, conn, cvars, node, walked, packets, did, meddled>>

SSendPart == /\ spc = "parts"
             /\ LET n == SentParts + 1
                IN \/ TooLong(packets[n]) /\ SReturn("failed")
                   \/ /\ ~TooLong(packets[n]) /\ conn = "up" /\ HasRoom(down)
                      /\ IF n = Len(packets) THEN SLast("data", n)
                         ELSE down' = Write(down, "data", n) /\ UNCHANGED <<spc, up>>
             /\ UNCHANGED <<job, conn, cvars, node, walked, packets, did, meddled>>

\* The client dropped its end, or the connection is gone.
SWriteFails == /\ spc \in {"answer", "parts", "err"}
               /\ down.stop \/ conn = "lost"
               /\ SReturn("failed")
               /\ UNCHANGED <<job, conn, cvars, node, walked, packets, did, meddled>>

-----------------------------------------------------------------------------
(* The world around them.                                                  *)

ConnectionLost == /\ conn = "up" /\ conn' = "lost"
                  /\ UNCHANGED <<job, up, down, cvars, node, svars, meddled>>

\* Another program, a second qcp among them, makes or removes the directory.
OthersMeddle == /\ ~meddled /\ meddled' = TRUE
                /\ \/ node = "absent" /\ node' \in {"dir", "file"}
                   \/ node # "absent" /\ node' = "absent"
                /\ UNCHANGED <<job, conn, up, down, cvars, svars>>

-----------------------------------------------------------------------------
ClientNext == \/ CCheck \/ CNoLocalDirectory \/ CSendCmd \/ CWriteFails
              \/ CResponse \/ CPart \/ CNoMessage

ServerNext == \/ SCommand \/ SNoCommand \/ SStatList \/ SStatMkdir \/ SStatSetMeta
              \/ SWalk \/ SWalkFails \/ SWalkEnds \/ SCreate \/ SStamp
              \/ SAnswer \/ SSendPart \/ SWriteFails

Ended == cpc \in CEnd /\ spc \in SEnd /\ UNCHANGED RequestVars

RequestNext == ClientNext \/ ServerNext \/ ConnectionLost \/ OthersMeddle \/ Ended

\* Each side is a task the async runtime keeps polling.
RequestSpec == /\ RequestInit /\ [][RequestNext]_RequestVars
               /\ WF_RequestVars(ClientNext) /\ WF_RequestVars(ServerNext)

-----------------------------------------------------------------------------
(* What must hold.                                                         *)

Packet == [entries : Seq(EntrySizes), more_to_come : BOOLEAN]

RequestTypeOK == /\ job \in [op : Ops, supported : BOOLEAN]
                 /\ conn \in {"up", "lost"}
                 /\ up \in Stream /\ down \in Stream
                 /\ cpc \in {"check", "cmd", "resp", "parts"} \cup CEnd
                 /\ got \in Seq(Packet)
                 /\ node \in Nodes
                 /\ spc \in {"cmd", "stat", "walk", "create", "stamp", "answer", "parts", "err"}
                              \cup SEnd
                 /\ walked \in Seq(EntrySizes) /\ packets \in Seq(Packet)
                 /\ did \in {"none", "done", "refused"}
                 /\ meddled \in BOOLEAN

\* A walk that went well reaches the client, however long it is: no part is
\* ever longer than a message may be -- the server would stop there, after it
\* has said ok -- and no part is empty.
NoListingTooLong ==
  did = "done" /\ job.op = "list" =>
    /\ cpc = "failed" \/ spc = "failed" => conn = "lost"
    /\ \A i \in 1..Len(packets) : packets[i].entries # <<>>

\* Neither side waits for ever on the other: not with a full window, not
\* after an error on either side, not when the connection is lost.
BothEnd == <>(cpc \in CEnd /\ spc \in SEnd)

\* Each of the three is a RemoteCall.
Call == INSTANCE RemoteCall WITH
          Answers  <- Seq(EntrySizes),
          NoAnswer <- <<0>>,
          status   <- IF cpc \in CEnd THEN cpc ELSE "running",
          effect   <- did,
          result   <- IF did = "done" THEN walked ELSE <<0>>,
          answer   <- IF cpc = "ok" THEN join(got) ELSE <<0>>

ImplementsRemoteCall == Call!Spec
=============================================================================
