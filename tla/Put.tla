-------------------------------- MODULE Put --------------------------------
(***************************************************************************)
(* One PUT: session/put.rs `send_impl` on the client and, on the server,   *)
(* server/stream.rs `handle_stream` followed by session/put.rs             *)
(* `handle_impl`, talking over one bidirectional QUIC stream.              *)
(*                                                                         *)
(*   client   cmd, hdr ->          <- ok | err                             *)
(*            data ... trl ->      <- ok | err                             *)
(*                                                                         *)
(* One action per await point that can have more than one outcome.  A      *)
(* framed message is one item of the stream: a message cut short by the    *)
(* end of the stream fails its reader exactly as a missing one does.       *)
(* A unit of payload stands for one buffer; it carries the source offset   *)
(* it was read from.                                                       *)
(***************************************************************************)
EXTENDS QuicStream

CONSTANT MaxLen      \* the source never holds more than MaxLen units

ASSUME MaxLenAssumption == MaxLen \in Nat

VARIABLES
  job,       \* preserve: asked for; v2: the level supports GET2_PUT2
  conn,      \* the QUIC connection: "up" or "lost"
  up, down,  \* the stream's two directions, client to server and back
  cpc,       \* client: next await of send_impl, or "ok" / "failed"
  opened,    \* client: open_with_meta gave it a file and its metadata
  srcLen,    \* current length of the source, which others may change
  declared,  \* src_meta.len(): its length when it was opened
  sent,      \* units of the source read and written to the stream
  spc,       \* server: next await of the handler, or "ok" / "failed"
  size,      \* header.size at the server
  touched,   \* the server created or truncated the destination
  dest,      \* items written to the destination since then
  trailer,   \* what the server took to be the trailer's metadata
  stamp      \* metadata applied to the destination

cvars == <<cpc, opened, declared, sent>>
svars == <<spc, size, touched, dest, trailer, stamp>>
vars  == <<job, conn, up, down, srcLen, cvars, svars>>

CEnd == {"ok", "failed"}
SEnd == {"ok", "failed"}

CState == {"open", "cmd", "hdr", "resp", "payload", "why", "trl", "final"}
             \cup CEnd
SState == {"cmd", "check", "hdr", "create", "ready", "payload", "trl",
           "meta", "confirm", "err"} \cup SEnd
Metadata == {"none", "source", "junk"}

Init == /\ job \in [v2 : BOOLEAN, preserve : BOOLEAN]
        /\ conn = "up"
        /\ up = NewStream /\ down = NewStream
        /\ cpc = "open"
        /\ srcLen \in 0..MaxLen
        /\ opened = FALSE
        /\ declared = 0
        /\ sent = 0
        /\ spc = "cmd"
        /\ size = 0
        /\ touched = FALSE
        /\ dest = <<>>
        /\ trailer = "none"
        /\ stamp = "none"

\* FileTrailer::for_file: metadata travels only in a V2 trailer, on request.
Carries == job.v2 /\ job.preserve

-----------------------------------------------------------------------------
(* The client.                                                             *)

\* Plausible bug: the stream outlives the command, as in a leaked clone.
CReturnLeaks(outcome) == cpc' = outcome /\ UNCHANGED <<up, down>>

\* send_impl returns: its SendReceivePair is dropped with the command object.
CReturn(outcome) == /\ cpc' = outcome
                    /\ up' = Finish(up)
                    /\ down' = Stop(down)

COpen == /\ cpc = "open"
         /\ opened' = TRUE
         /\ declared' = srcLen
         /\ cpc' = "cmd"
         /\ UNCHANGED <<job, conn, up, down, srcLen, sent, svars>>

\* The source is missing, unreadable, not regular, or a directory.
COpenFails == /\ cpc = "open"
              /\ CReturn("failed")
              /\ UNCHANGED <<job, conn, srcLen, opened, declared, sent, svars>>

CWrite(from, k, v, to) == /\ cpc = from
                          /\ conn = "up"
                          /\ HasRoom(up)
                          /\ up' = Write(up, k, v)
                          /\ cpc' = to
                          /\ UNCHANGED <<job, conn, down, srcLen, opened,
                                         declared, sent, svars>>

CSendCmd     == CWrite("cmd", "cmd", 0, "hdr")
\* Plausible bug: the payload follows the header at once.
CSendHeaderEagerly == CWrite("hdr", "hdr", declared, "payload")

CSendHeader  == CWrite("hdr", "hdr", declared, "resp")
CSendTrailer == CWrite("trl", "trl", IF Carries THEN 1 ELSE 0, "final")

\* A write of a message fails: no attempt is made to read a response.
CWriteFails == /\ cpc \in {"cmd", "hdr", "trl"}
               /\ up.stop \/ conn = "lost"
               /\ CReturn("failed")
               /\ UNCHANGED <<job, conn, srcLen, opened, declared, sent, svars>>

CResponse == /\ cpc = "resp"
             /\ Available(down)
             /\ IF NextItem(down).kind = "ok"
                THEN /\ cpc' = "payload"
                     /\ down' = Consume(down)
                     /\ up' = up
                ELSE CReturn("failed")
             /\ UNCHANGED <<job, conn, srcLen, opened, declared, sent, svars>>

\* End of file or a lost connection where a response was due.
CNoResponse == /\ cpc \in {"resp", "why", "final"}
               /\ AtEof(down) \/ conn = "lost"
               /\ CReturn("failed")
               /\ UNCHANGED <<job, conn, srcLen, opened, declared, sent, svars>>

\* Plausible bug: off by one at the end of the source.
CSendUnitTooMany == /\ cpc = "payload"
                    /\ sent <= srcLen
                    /\ conn = "up"
                    /\ HasRoom(up)
                    /\ up' = Write(up, "data", sent + 1)
                    /\ sent' = sent + 1
                    /\ UNCHANGED <<job, conn, down, srcLen, cpc, opened,
                                   declared, svars>>

\* copy_large moves one buffer from the source to the stream.
CSendUnit == /\ cpc = "payload"
             /\ sent < srcLen
             /\ conn = "up"
             /\ HasRoom(up)
             /\ up' = Write(up, "data", sent + 1)
             /\ sent' = sent + 1
             /\ UNCHANGED <<job, conn, down, srcLen, cpc, opened, declared,
                            svars>>

\* copy_large saw the end of the source and returned the count sent.
CSourceEof == /\ cpc = "payload"
              /\ sent >= srcLen
              /\ IF sent = declared
                 THEN cpc' = "trl" /\ UNCHANGED <<up, down>>
                 ELSE CReturn("failed")
              /\ UNCHANGED <<job, conn, srcLen, opened, declared, sent, svars>>

\* ConnectionReset: the server dropped its end, perhaps after a response.
CStopped == /\ cpc = "payload"
            /\ up.stop
            /\ cpc' = "why"
            /\ UNCHANGED <<job, conn, up, down, srcLen, opened, declared, sent,
                           svars>>

\* Any other error of copy_large: reading the source, or the connection.
CCopyFails == /\ cpc = "payload"
              /\ CReturn("failed")
              /\ UNCHANGED <<job, conn, srcLen, opened, declared, sent, svars>>

CExplained == /\ cpc = "why"
              /\ Available(down)
              /\ CReturn("failed")
              /\ UNCHANGED <<job, conn, srcLen, opened, declared, sent, svars>>

\* Plausible bug: the completion check takes any response for a good one.
CVerdictUnread == "ok"

\* response.status of the completion check.
CVerdict == IF NextItem(down).kind = "ok" THEN "ok" ELSE "failed"

CComplete == /\ cpc = "final"
             /\ Available(down)
             /\ CReturn(CVerdict)
             /\ UNCHANGED <<job, conn, srcLen, opened, declared, sent, svars>>

-----------------------------------------------------------------------------
(* The server.                                                             *)

\* handle_stream returns: the handler is dropped with its SendReceivePair.
SReturn(outcome) == /\ spc' = outcome
                    /\ up' = Stop(up)
                    /\ down' = Finish(down)

SCommand == /\ spc = "cmd"
            /\ Available(up)
            /\ up' = Consume(up)
            /\ spc' = "check"
            /\ UNCHANGED <<job, conn, down, srcLen, cvars, size, touched,
                           dest, trailer, stamp>>

\* Plausible bug: a missing trailer is taken for an empty one.
SNoMessageButTrailer ==
  /\ spc \in {"cmd", "hdr", "trl"}
  /\ AtEof(up) \/ conn = "lost"
  /\ IF spc = "trl" THEN spc' = "meta" /\ UNCHANGED <<up, down>>
     ELSE SReturn("failed")
  /\ UNCHANGED <<job, conn, srcLen, cvars, size, touched, dest, trailer, stamp>>

\* End of file or a lost connection where a message was due: `?`.
SNoMessage == /\ spc \in {"cmd", "hdr", "trl"}
              /\ AtEof(up) \/ conn = "lost"
              /\ SReturn("failed")
              /\ UNCHANGED <<job, conn, srcLen, cvars, size, touched, dest,
                             trailer, stamp>>

SFileStep(from, to) == /\ spc = from
                       /\ spc' = to
                       /\ UNCHANGED <<job, conn, up, down, srcLen, cvars,
                                      size, touched, dest, trailer, stamp>>

\* The destination, or its parent, is a place a file can be put.
SDestinationOk  == SFileStep("check", "hdr")
SDestinationBad == SFileStep("check", "err")

SHeader == /\ spc = "hdr"
           /\ Available(up)
           /\ size' = NextItem(up).val
           /\ up' = Consume(up)
           /\ spc' = "create"
           /\ UNCHANGED <<job, conn, down, srcLen, cvars, touched, dest,
                          trailer, stamp>>

SCreate == /\ spc = "create"
           /\ touched' = TRUE
           /\ spc' = "ready"
           /\ UNCHANGED <<job, conn, up, down, srcLen, cvars, size, dest,
                          trailer, stamp>>

SCreateFails == SFileStep("create", "err")

\* send_ok once the destination is open.
SReady == /\ spc = "ready"
          /\ conn = "up"
          /\ HasRoom(down)
          /\ down' = Write(down, "ok", 0)
          /\ spc' = "payload"
          /\ UNCHANGED <<job, conn, up, srcLen, cvars, size, touched, dest,
                         trailer, stamp>>

\* limited_copy: recv.take(size) into the file.
SReceive == /\ spc = "payload"
            /\ Len(dest) < size
            /\ Available(up)
            /\ dest' = Append(dest, NextItem(up))
            /\ up' = Consume(up)
            /\ UNCHANGED <<job, conn, down, srcLen, cvars, spc, size, touched,
                           trailer, stamp>>

\* limited_copy returns Ok when it has taken `size` units, and also at the
\* end of the stream; its count is not looked at.
SPayloadEnds == /\ Len(dest) = size \/ AtEof(up)
                /\ SFileStep("payload", "trl")

\* limited_copy failed: the disk is full, or the connection is gone.
SWriteFails == SFileStep("payload", "err")

\* What parsing the next item as a FileTrailer may give.  Payload beyond the
\* declared size can be anything, a well-formed trailer included.
Parsed(item) == IF item.kind = "trl"
                THEN {IF item.val = 1 THEN "source" ELSE "none"}
                ELSE {"junk", "error"}

STrailer == /\ spc = "trl"
            /\ Available(up)
            /\ \E p \in Parsed(NextItem(up)) :
                 IF p = "error"
                 THEN SReturn("failed") /\ UNCHANGED trailer
                 ELSE /\ trailer' = p
                      /\ spc' = "meta"
                      /\ up' = Consume(up)
                      /\ UNCHANGED down
            /\ UNCHANGED <<job, conn, srcLen, cvars, size, touched, dest,
                           stamp>>

\* Plausible bug: the file is closed before its metadata are applied.
SMetadataForgotten == /\ spc = "meta"
                      /\ spc' = "confirm"
                      /\ UNCHANGED <<job, conn, up, down, srcLen, cvars, size,
                                     touched, dest, trailer, stamp>>

\* flush, then update_metadata; a failure of either ends the handler with
\* no response at all.
SMetadata == /\ spc = "meta"
             /\ stamp' = trailer
             /\ spc' = "confirm"
             /\ UNCHANGED <<job, conn, up, down, srcLen, cvars, size, touched,
                            dest, trailer>>

SMetadataFails == /\ spc = "meta"
                  /\ SReturn("failed")
                  /\ UNCHANGED <<job, conn, srcLen, cvars, size, touched,
                                 dest, trailer, stamp>>

\* The last response of a handler, after which it returns.
SRespond(from, k, outcome) == /\ spc = from
                              /\ conn = "up"
                              /\ HasRoom(down)
                              /\ spc' = outcome
                              /\ up' = Stop(up)
                              /\ down' = Finish(Write(down, k, 0))
                              /\ UNCHANGED <<job, conn, srcLen, cvars, size,
                                             touched, dest, trailer, stamp>>

SConfirm == SRespond("confirm", "ok", "ok")

SRefuse == SRespond("err", "err", "failed")

\* The client is gone: a response cannot be written.
SRespondFails == /\ spc \in {"ready", "confirm", "err"}
                 /\ down.stop \/ conn = "lost"
                 /\ SReturn("failed")
                 /\ UNCHANGED <<job, conn, srcLen, cvars, size, touched, dest,
                                trailer, stamp>>

-----------------------------------------------------------------------------
(* The world around them.                                                  *)

ConnectionLost == /\ conn = "up"
                  /\ conn' = "lost"
                  /\ UNCHANGED <<job, up, down, srcLen, cvars, svars>>

\* Another program appends to or truncates the source while it is read.
SourceChanges == /\ cpc \in {"open", "cmd", "hdr", "resp", "payload"}
                 /\ srcLen' \in 0..MaxLen \ {srcLen}
                 /\ UNCHANGED <<job, conn, up, down, cvars, svars>>

-----------------------------------------------------------------------------
\* What each program goes on to do, whatever it meets: a step of its own, or an
\* error that the other side or the connection forces on it.
ClientGoesOn == \/ COpen
                \/ CSendCmd \/ CSendHeader \/ CSendTrailer \/ CWriteFails
                \/ CResponse \/ CNoResponse
                \/ CSendUnit \/ CSourceEof \/ CStopped
                \/ CExplained \/ CComplete

ServerGoesOn == \/ SCommand \/ SNoMessage
                \/ SDestinationOk
                \/ SHeader \/ SCreate \/ SReady
                \/ SReceive \/ SPayloadEnds
                \/ STrailer \/ SMetadata
                \/ SConfirm \/ SRefuse \/ SRespondFails

\* ... and the errors of its own file system, which it may meet or not.
ClientNext == ClientGoesOn \/ COpenFails \/ CCopyFails

ServerNext == \/ ServerGoesOn
              \/ SDestinationBad \/ SCreateFails \/ SWriteFails \/ SMetadataFails

Ended == /\ cpc \in CEnd /\ spc \in SEnd
         /\ UNCHANGED vars

Next == ClientNext \/ ServerNext \/ ConnectionLost \/ SourceChanges \/ Ended

\* Each side is a task the async runtime keeps polling, and a copy on a lost
\* connection gets its error.  No error of a file is owed to anybody, nor is the
\* loss of the connection or a change of the source.
Fairness == /\ WF_vars(ClientGoesOn) /\ WF_vars(ServerGoesOn)
            /\ WF_vars(conn = "lost" /\ CCopyFails)
            /\ WF_vars(conn = "lost" /\ SWriteFails)

Spec == Init /\ [][Next]_vars /\ Fairness
-----------------------------------------------------------------------------
(* What must hold.                                                         *)

TypeOK == /\ job \in [v2 : BOOLEAN, preserve : BOOLEAN]
          /\ conn \in {"up", "lost"}
          /\ up \in Stream /\ down \in Stream
          /\ cpc \in CState /\ spc \in SState
          /\ opened \in BOOLEAN
          /\ srcLen \in 0..MaxLen /\ declared \in 0..MaxLen
          /\ sent \in 0..MaxLen
          /\ size \in Nat
          /\ touched \in BOOLEAN
          /\ dest \in Seq(Item)
          /\ trailer \in Metadata /\ stamp \in Metadata

\* Whatever has gone wrong, the file at the destination is a prefix of the
\* source as the client read it: limited_copy never takes a header, a trailer
\* or an unit out of place for payload.
DestinationIsPrefix ==
  \A i \in 1..Len(dest) : dest[i] = [kind |-> "data", val |-> i]

\* send_impl returns Ok only of a destination that holds all the units the
\* source had when it was opened, with its metadata exactly when they were
\* asked for and can be carried -- although the source may have changed and
\* limited_copy does not report a short count.
SuccessIsFaithful ==
  cpc = "ok" => /\ touched
                /\ Len(dest) = declared
                /\ DestinationIsPrefix
                /\ stamp = IF Carries THEN "source" ELSE "none"

\* No payload leaves the client before the server has said that the
\* destination is open, and a server that refuses the PUT has not touched
\* what was at the destination.
RefusalLeavesDestination ==
  /\ sent > 0 => touched
  /\ down.log # <<>> /\ down.log[1].kind = "err" => ~touched

\* The server confirms the whole of what the header declared, never less:
\* the short read of limited_copy cannot end in a second OK.
ConfirmationIsWhole ==
  spc = "ok" => Len(dest) = declared /\ size = declared

\* Once the client has reported success, the handler that may still be
\* running on the server does nothing more to the file.
ReportIsFinal ==
  [][cpc = "ok" => UNCHANGED <<touched, dest, stamp, cpc>>]_vars

\* Neither side waits for ever on the other: not with a full window, not
\* after an error on either side, not when the connection is lost.
BothEnd == <>(cpc \in CEnd /\ spc \in SEnd)

\* A PUT is a FileCopy whose user is the client.
Copy == INSTANCE FileCopy WITH
          wanted  <- Carries,
          status  <- IF cpc \in CEnd THEN cpc ELSE "running",
          moved   <- sent > declared,
          total   <- declared,
          dest    <- [i \in 1..Len(dest) |-> dest[i].val],
          stamped <- stamp = "source"

ImplementsFileCopy == Copy!Spec

-----------------------------------------------------------------------------
(* The inductive invariant behind the safety properties: what the two      *)
(* program counters say about the logs and the read positions.             *)

TrailerItem == [kind |-> "trl", val |-> IF Carries THEN 1 ELSE 0]

\* The message the client writes at position i.
UpItem(i) == IF i = 1 THEN [kind |-> "cmd", val |-> 0]
             ELSE IF i = 2 THEN [kind |-> "hdr", val |-> declared]
             ELSE IF i <= sent + 2 THEN [kind |-> "data", val |-> i - 2]
             ELSE TrailerItem

UpInv == /\ \A i \in 1..Len(up.log) : up.log[i] = UpItem(i)
         /\ up.read <= Len(up.log)
         /\ down.read <= Len(down.log)
         /\ up.fin => cpc \in CEnd

ClientInv ==
  /\ cpc \in {"open", "cmd"} => Len(up.log) = 0 /\ sent = 0
  /\ cpc = "hdr" => Len(up.log) = 1 /\ sent = 0
  /\ cpc = "resp" => Len(up.log) = 2 /\ sent = 0
  /\ cpc \in {"payload", "why", "trl"} => Len(up.log) = sent + 2
  /\ cpc \in {"final", "ok"} => Len(up.log) = sent + 3
  /\ cpc \in {"trl", "final", "ok"} => sent = declared
  /\ Len(up.log) <= sent + 3
  /\ Len(up.log) = sent + 3 => sent = declared
  /\ cpc = "open" => ~opened
  /\ cpc \notin {"open", "failed"} => opened
  /\ Len(up.log) > 0 => opened
  /\ cpc \in {"open", "cmd", "hdr", "resp"} => down.read = 0
  /\ cpc \in {"payload", "why", "trl", "final"} =>
        down.read = 1 /\ down.log[1].kind = "ok"
  /\ sent > 0 => touched
  /\ cpc = "ok" => spc = "ok"

\* Up to and including the confirmation, the server has read exactly what
\* its program counter says.
ServerInv ==
  /\ spc = "cmd" => up.read = 0
  /\ spc \in {"check", "hdr"} => up.read = 1
  /\ spc \in {"create", "ready"} => up.read = 2
  /\ spc \in {"payload", "trl"} => up.read = Len(dest) + 2
  /\ spc \in {"cmd", "check", "hdr", "create"} => ~touched
  /\ spc \in {"ready", "payload", "trl", "meta", "confirm", "ok"} => touched
  /\ touched => size = declared /\ opened
  /\ spc = "create" => size = declared /\ opened
  /\ ~touched => Len(dest) = 0
  /\ spc = "ready" => Len(dest) = 0
  /\ Len(dest) <= declared
  /\ spc = "trl" => Len(dest) = size \/ AtEof(up)
  /\ spc \in {"meta", "confirm", "ok"} =>
        /\ Len(dest) = size
        /\ sent = declared => trailer = IF Carries THEN "source" ELSE "none"
        /\ sent >= declared
  /\ spc \in {"confirm", "ok"} => stamp = trailer

DownInv ==
  /\ spc \in {"cmd", "check", "hdr", "create", "ready"} => Len(down.log) = 0
  /\ spc \in {"payload", "trl", "meta", "confirm"} => Len(down.log) = 1
  /\ spc = "err" => Len(down.log) <= 1
  /\ spc = "err" /\ Len(down.log) = 0 => ~touched
  /\ spc \in {"payload", "trl", "meta", "confirm", "err", "ok"}
       /\ Len(down.log) >= 1 => down.log[1].kind = "ok"
  /\ Len(down.log) <= 2
  /\ Len(down.log) >= 1 => down.log[1].kind \in {"ok", "err"}
  /\ Len(down.log) >= 1 => (down.log[1].kind = "ok" <=> touched)
  /\ Len(down.log) = 2 /\ down.log[2].kind = "ok" => spc = "ok"

Inv == /\ TypeOK
       /\ UpInv
       /\ ClientInv
       /\ ServerInv
       /\ DownInv
       /\ DestinationIsPrefix
=============================================================================
