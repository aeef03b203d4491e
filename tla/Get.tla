-------------------------------- MODULE Get --------------------------------
(***************************************************************************)
(* One GET: session/get.rs `send_impl` on the client and, on the server,   *)
(* server/stream.rs `handle_stream` followed by session/get.rs             *)
(* `handle_impl`, over one bidirectional QUIC stream.                      *)
(*                                                                         *)
(*   client   cmd ->               <- ok hdr data ... trl | err            *)
(*                                                                         *)
(* The server never hears from the client again: it sends until it is done *)
(* or the stream is stopped, and the client alone decides the outcome.     *)
(* Conventions are those of module Put.                                    *)
(***************************************************************************)
EXTENDS QuicStream

CONSTANT MaxLen      \* the source never holds more than MaxLen units

ASSUME MaxLenAssumption == MaxLen \in Nat

VARIABLES
  job,       \* preserve: asked for; v2: the level supports GET2_PUT2
  conn,      \* the QUIC connection: "up" or "lost"
  up, down,  \* the stream's two directions, client to server and back
  cpc,       \* client: next await of send_impl, or "ok" / "failed"
  size,      \* header.size at the client
  touched,   \* the client created or truncated the destination
  dest,      \* items written to the destination since then
  trailer,   \* what the client took to be the trailer's metadata
  stamp,     \* metadata applied to the destination
  spc,       \* server: next await of the handler, or "ok" / "failed"
  opened,    \* server: open_with_meta gave it a file and its metadata
  srcLen,    \* current length of the source, which others may change
  declared,  \* file_original_meta.len()
  sent       \* units of the source read and written to the stream

cvars == <<cpc, size, touched, dest, trailer, stamp>>
svars == <<spc, opened, declared, sent>>
vars  == <<job, conn, up, down, srcLen, cvars, svars>>

CEnd == {"ok", "failed"}
SEnd == {"ok", "failed"}

CState == {"cmd", "resp", "hdr", "create", "payload", "trl", "meta"}
             \cup CEnd
SState == {"cmd", "open", "accept", "hdr", "payload", "trl", "err"}
             \cup SEnd
Metadata == {"none", "source", "junk"}

Init == /\ job \in [v2 : BOOLEAN, preserve : BOOLEAN]
        /\ conn = "up"
        /\ up = NewStream /\ down = NewStream
        /\ cpc = "cmd"
        /\ size = 0
        /\ touched = FALSE
        /\ dest = <<>>
        /\ trailer = "none"
        /\ stamp = "none"
        /\ spc = "cmd"
        /\ opened = FALSE
        /\ srcLen \in 0..MaxLen
        /\ declared = 0
        /\ sent = 0

\* A Get2 carries the preserve option, a Get cannot; the trailer is a V2.
Carries == job.v2 /\ job.preserve

-----------------------------------------------------------------------------
(* The client.                                                             *)

\* Plausible bug: the stream outlives the command, as in a leaked clone.
CReturnLeaks(outcome) == cpc' = outcome /\ UNCHANGED <<up, down>>

\* send_impl returns: its SendReceivePair is dropped with the command object.
CReturn(outcome) == /\ cpc' = outcome
                    /\ up' = Finish(up)
                    /\ down' = Stop(down)

CSendCmd == /\ cpc = "cmd"
            /\ conn = "up"
            /\ HasRoom(up)
            /\ up' = Write(up, "cmd", IF Carries THEN 1 ELSE 0)
            /\ cpc' = "resp"
            /\ UNCHANGED <<job, conn, down, srcLen, size, touched, dest,
                           trailer, stamp, svars>>

CWriteFails == /\ cpc = "cmd"
               /\ conn = "lost"
               /\ CReturn("failed")
               /\ UNCHANGED <<job, conn, srcLen, size, touched, dest, trailer,
                              stamp, svars>>

CResponse == /\ cpc = "resp"
             /\ Available(down)
             /\ IF NextItem(down).kind = "ok"
                THEN /\ cpc' = "hdr"
                     /\ down' = Consume(down)
                     /\ up' = up
                ELSE CReturn("failed")
             /\ UNCHANGED <<job, conn, srcLen, size, touched, dest, trailer,
                            stamp, svars>>

CHeader == /\ cpc = "hdr"
           /\ Available(down)
           /\ size' = NextItem(down).val
           /\ down' = Consume(down)
           /\ cpc' = "create"
           /\ UNCHANGED <<job, conn, up, srcLen, touched, dest, trailer, stamp,
                          svars>>

\* End of file or a lost connection where a message was due.
CNoMessage == /\ cpc \in {"resp", "hdr", "trl"}
              /\ AtEof(down) \/ conn = "lost"
              /\ CReturn("failed")
              /\ UNCHANGED <<job, conn, srcLen, size, touched, dest, trailer,
                             stamp, svars>>

CCreate == /\ cpc = "create"
           /\ touched' = TRUE
           /\ cpc' = "payload"
           /\ UNCHANGED <<job, conn, up, down, srcLen, size, dest, trailer,
                          stamp, svars>>

\* inbound.take(size) into the file.
CReceive == /\ cpc = "payload"
            /\ Len(dest) < size
            /\ Available(down)
            /\ dest' = Append(dest, NextItem(down))
            /\ down' = Consume(down)
            /\ UNCHANGED <<job, conn, up, srcLen, cpc, size, touched, trailer,
                           stamp, svars>>

\* Plausible bug: the trailer is not waited for.
CPayloadEndsAll == /\ cpc = "payload"
                   /\ Len(dest) = size \/ AtEof(down)
                   /\ cpc' = "meta"
                   /\ UNCHANGED <<job, conn, up, down, srcLen, size, touched,
                                  dest, trailer, stamp, svars>>

\* copy_large returns Ok after `size` units and also at the end of the
\* stream; the count it returns is dropped.
CPayloadEnds == /\ cpc = "payload"
                /\ Len(dest) = size \/ AtEof(down)
                /\ cpc' = "trl"
                /\ UNCHANGED <<job, conn, up, down, srcLen, size, touched,
                               dest, trailer, stamp, svars>>

\* What parsing the next item as a FileTrailer may give.  Payload beyond the
\* declared size can be anything, a well-formed trailer included.
Parsed(item) == IF item.kind = "trl"
                THEN {IF item.val = 1 THEN "source" ELSE "none"}
                ELSE {"junk", "error"}

CTrailer == /\ cpc = "trl"
            /\ Available(down)
            /\ \E p \in Parsed(NextItem(down)) :
                 IF p = "error"
                 THEN CReturn("failed") /\ UNCHANGED trailer
                 ELSE /\ trailer' = p
                      /\ cpc' = "meta"
                      /\ down' = Consume(down)
                      /\ UNCHANGED up
            /\ UNCHANGED <<job, conn, srcLen, size, touched, dest, stamp,
                           svars>>

\* flush and update_metadata, after which send_impl returns Ok.
CMetadata == /\ cpc = "meta"
             /\ stamp' = trailer
             /\ CReturn("ok")
             /\ UNCHANGED <<job, conn, srcLen, size, touched, dest, trailer,
                            svars>>

\* A file operation on the destination fails: create_or_truncate, a write of
\* copy_large, flush or update_metadata.  In the payload it also stands for the
\* error of reading from a lost connection.
CFileFails == /\ cpc \in {"create", "payload", "meta"}
              /\ CReturn("failed")
              /\ UNCHANGED <<job, conn, srcLen, size, touched, dest, trailer,
                             stamp, svars>>

-----------------------------------------------------------------------------
(* The server.                                                             *)

\* handle_stream returns: the handler is dropped with its SendReceivePair.
SReturn(outcome) == /\ spc' = outcome
                    /\ up' = Stop(up)
                    /\ down' = Finish(down)

SCommand == /\ spc = "cmd"
            /\ Available(up)
            /\ up' = Consume(up)
            /\ spc' = "open"
            /\ UNCHANGED <<job, conn, down, srcLen, cvars, opened, declared,
                           sent>>

SNoCommand == /\ spc = "cmd"
              /\ AtEof(up) \/ conn = "lost"
              /\ SReturn("failed")
              /\ UNCHANGED <<job, conn, srcLen, cvars, opened, declared, sent>>

SOpen == /\ spc = "open"
         /\ opened' = TRUE
         /\ declared' = srcLen
         /\ spc' = "accept"
         /\ UNCHANGED <<job, conn, up, down, srcLen, cvars, sent>>

\* The source is missing, unreadable, not regular, or a directory.
SOpenFails == /\ spc = "open"
              /\ spc' = "err"
              /\ UNCHANGED <<job, conn, up, down, srcLen, cvars, opened,
                             declared, sent>>

SWrite(from, k, v, to) == /\ spc = from
                          /\ conn = "up"
                          /\ HasRoom(down)
                          /\ down' = Write(down, k, v)
                          /\ spc' = to
                          /\ UNCHANGED <<job, conn, up, srcLen, cvars, opened,
                                         declared, sent>>

SAccept     == SWrite("accept", "ok", 0, "hdr")
SSendHeader == SWrite("hdr", "hdr", declared, "payload")

SSendUnit == /\ spc = "payload"
             /\ sent < srcLen
             /\ conn = "up"
             /\ HasRoom(down)
             /\ down' = Write(down, "data", sent + 1)
             /\ sent' = sent + 1
             /\ UNCHANGED <<job, conn, up, srcLen, cvars, spc, opened, declared>>

\* Plausible bug: the count of copy_large is not looked at.
SSourceEofUnchecked == /\ spc = "payload"
                       /\ sent >= srcLen
                       /\ spc' = "trl"
                       /\ UNCHANGED <<job, conn, up, down, srcLen, cvars,
                                      opened, declared, sent>>

\* copy_large saw the end of the source; the count is checked before the
\* trailer is built.
SSourceEof == /\ spc = "payload"
              /\ sent >= srcLen
              /\ IF sent = declared
                 THEN spc' = "trl" /\ UNCHANGED <<up, down>>
                 ELSE SReturn("failed")
              /\ UNCHANGED <<job, conn, srcLen, cvars, opened, declared, sent>>

\* Reading the source fails.
SReadFails == /\ spc = "payload"
              /\ SReturn("failed")
              /\ UNCHANGED <<job, conn, srcLen, cvars, opened, declared, sent>>

\* The last message of a handler, after which it returns.
SLast(from, k, v, outcome) == /\ spc = from
                              /\ conn = "up"
                              /\ HasRoom(down)
                              /\ spc' = outcome
                              /\ up' = Stop(up)
                              /\ down' = Finish(Write(down, k, v))
                              /\ UNCHANGED <<job, conn, srcLen, cvars, opened,
                                             declared, sent>>

SSendTrailer == SLast("trl", "trl", IF Carries THEN 1 ELSE 0, "ok")
SRefuse      == SLast("err", "err", 0, "failed")

\* The client dropped its end, or the connection is gone.
SWriteFails == /\ spc \in {"accept", "hdr", "payload", "trl", "err"}
               /\ down.stop \/ conn = "lost"
               /\ SReturn("failed")
               /\ UNCHANGED <<job, conn, srcLen, cvars, opened, declared, sent>>

-----------------------------------------------------------------------------
(* The world around them.                                                  *)

ConnectionLost == /\ conn = "up"
                  /\ conn' = "lost"
                  /\ UNCHANGED <<job, up, down, srcLen, cvars, svars>>

\* Another program appends to or truncates the source while it is read.
SourceChanges == /\ spc \in SState \ SEnd
                 /\ srcLen' \in 0..MaxLen \ {srcLen}
                 /\ UNCHANGED <<job, conn, up, down, cvars, svars>>

-----------------------------------------------------------------------------
\* What each program goes on to do, whatever it meets: a step of its own, or an
\* error that the other side or the connection forces on it.
ClientGoesOn == \/ CSendCmd \/ CWriteFails \/ CResponse \/ CHeader \/ CNoMessage
                \/ CCreate \/ CReceive \/ CPayloadEnds \/ CTrailer \/ CMetadata

ServerGoesOn == \/ SCommand \/ SNoCommand \/ SOpen
                \/ SAccept \/ SSendHeader \/ SSendUnit \/ SSourceEof
                \/ SSendTrailer \/ SRefuse \/ SWriteFails

\* ... and the errors of its own file system, which it may meet or not.
ClientNext == ClientGoesOn \/ CFileFails

ServerNext == ServerGoesOn \/ SOpenFails \/ SReadFails

Ended == /\ cpc \in CEnd /\ spc \in SEnd
         /\ UNCHANGED vars

Next == ClientNext \/ ServerNext \/ ConnectionLost \/ SourceChanges \/ Ended

\* Each side is a task the async runtime keeps polling, and a copy on a lost
\* connection gets its error.  No error of a file is owed to anybody, nor is the
\* loss of the connection or a change of the source.
Fairness == /\ WF_vars(ClientGoesOn) /\ WF_vars(ServerGoesOn)
            /\ WF_vars(conn = "lost" /\ cpc = "payload" /\ CFileFails)

Spec == Init /\ [][Next]_vars /\ Fairness

-----------------------------------------------------------------------------
(* What must hold.                                                         *)

TypeOK == /\ job \in [v2 : BOOLEAN, preserve : BOOLEAN]
          /\ conn \in {"up", "lost"}
          /\ up \in Stream /\ down \in Stream
          /\ cpc \in CState /\ spc \in SState
          /\ opened \in BOOLEAN
          /\ srcLen \in 0..MaxLen /\ declared \in 0..MaxLen
          /\ sent \in 0..MaxLen
          /\ size \in Nat
          /\ touched \in BOOLEAN
          /\ dest \in Seq(Item)
          /\ trailer \in Metadata /\ stamp \in Metadata

\* A trailer follows only a payload of exactly the declared length.
TrailerMeansWhole ==
  \A i \in 1..Len(down.log) :
     down.log[i].kind = "trl" => i = declared + 3 /\ i = Len(down.log)

\* Neither side waits for ever on the other: not with a full window, not
\* after an error on either side, not when the connection is lost.
BothEnd == <>(cpc \in CEnd /\ spc \in SEnd)

\* A GET is a FileCopy whose user is the client.
Copy == INSTANCE FileCopy WITH
          wanted  <- Carries,
          status  <- IF cpc \in CEnd THEN cpc ELSE "running",
          moved   <- sent > declared,
          total   <- declared,
          dest    <- [i \in 1..Len(dest) |-> dest[i].val],
          stamped <- stamp = "source"

ImplementsFileCopy == Copy!Spec

-----------------------------------------------------------------------------
(* The inductive invariant behind the safety properties: what the two      *)
(* program counters say about the log and the read position of the stream  *)
(* down, the only one that carries more than a command.                    *)

\* The message the server writes at position i: one error where it could not
\* open the source, else the header, the payload and a trailer.
DownItem(i) == IF ~opened THEN [kind |-> "err", val |-> 0]
               ELSE IF i = 1 THEN [kind |-> "ok", val |-> 0]
               ELSE IF i = 2 THEN [kind |-> "hdr", val |-> declared]
               ELSE IF i <= sent + 2 THEN [kind |-> "data", val |-> i - 2]
               ELSE [kind |-> "trl", val |-> IF Carries THEN 1 ELSE 0]

DownInv == /\ \A i \in 1..Len(down.log) : down.log[i] = DownItem(i)
           /\ down.read <= Len(down.log)
           /\ down.fin => spc \in SEnd

ServerInv ==
  /\ spc \in {"cmd", "open", "accept", "err"} => Len(down.log) = 0 /\ sent = 0
  /\ spc = "hdr" => Len(down.log) = 1 /\ sent = 0
  /\ spc \in {"payload", "trl"} => Len(down.log) = sent + 2
  /\ spc = "trl" => sent = declared
  /\ spc \in {"cmd", "open", "err"} => ~opened
  /\ spc \in {"accept", "hdr", "payload", "trl", "ok"} => opened
  /\ ~opened => Len(down.log) <= 1 /\ sent = 0 /\ declared = 0
  /\ Len(down.log) <= sent + 3
  /\ opened /\ Len(down.log) = sent + 3 => sent = declared

\* Up to the trailer, the client has read exactly what its program counter
\* says; a payload that fell short cannot lead past a trailer.
ClientInv ==
  /\ cpc \in {"cmd", "resp"} => down.read = 0
  /\ cpc = "hdr" => down.read = 1 /\ opened
  /\ cpc = "create" => down.read = 2
  /\ cpc \in {"payload", "trl"} => down.read = Len(dest) + 2
  /\ cpc \in {"cmd", "resp", "hdr", "create"} => ~touched
  /\ cpc \in {"payload", "trl", "meta", "ok"} => touched
  /\ cpc = "create" \/ touched => size = declared /\ opened
  /\ ~touched => Len(dest) = 0
  /\ Len(dest) <= declared
  /\ cpc = "trl" => Len(dest) = size \/ AtEof(down)
  /\ cpc \in {"meta", "ok"} =>
        /\ Len(dest) = size
        /\ sent >= declared
        /\ sent = declared => trailer = IF Carries THEN "source" ELSE "none"
  /\ cpc = "ok" => stamp = trailer

\* The destination holds the units of the source from the first one on.
DestinationIsPrefix ==
  \A i \in 1..Len(dest) : dest[i] = [kind |-> "data", val |-> i]

Inv == /\ TypeOK
       /\ DownInv
       /\ ServerInv
       /\ ClientInv
       /\ DestinationIsPrefix
=============================================================================
