----------------------------- MODULE QuicStream -----------------------------
(***************************************************************************)
(* One direction of a QUIC bidirectional stream as the session protocol    *)
(* uses it through quinn.  quinn is not part of the repository: the        *)
(* operators say what session/*.rs and server/stream.rs rely on.           *)
(*                                                                         *)
(*   log   every message or unit of payload written so far, in order       *)
(*   read  how many of them the receiving side has taken                   *)
(*   fin   the SendStream was dropped (drop finishes it; what was written  *)
(*         is still delivered, then the reader sees end of file)           *)
(*   stop  the RecvStream was dropped (STOP_SENDING: the writer's next     *)
(*         writes may still succeed, and sooner or later fail with         *)
(*         ConnectionReset)                                                *)
(*                                                                         *)
(* A stream delivers in order and without loss while its connection lives, *)
(* and holds back a writer that is Window items ahead of the reader.       *)
(***************************************************************************)
EXTENDS Naturals, Sequences

CONSTANT Window      \* flow control: items written and not yet read

ASSUME WindowAssumption == Window \in Nat \ {0}

Kind == {"cmd", "hdr", "data", "trl", "ok", "err"}

\* val: the size a header declares, the source offset of a unit of payload,
\* 1 for a trailer that carries metadata; 0 elsewhere.
Item == [kind : Kind, val : Nat]

Stream == [log : Seq(Item), read : Nat, fin : BOOLEAN, stop : BOOLEAN]

NewStream == [log |-> <<>>, read |-> 0, fin |-> FALSE, stop |-> FALSE]

HasRoom(s)   == Len(s.log) - s.read < Window
Available(s) == s.read < Len(s.log)
AtEof(s)     == s.fin /\ ~Available(s)
NextItem(s)  == s.log[s.read + 1]

Write(s, k, v) == [s EXCEPT !.log = Append(@, [kind |-> k, val |-> v])]
Consume(s)     == [s EXCEPT !.read = @ + 1]

\* Dropping the two halves of a SendReceivePair.
Finish(s) == [s EXCEPT !.fin = TRUE]
Stop(s)   == [s EXCEPT !.stop = TRUE]
=============================================================================
