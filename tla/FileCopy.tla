------------------------------ MODULE FileCopy ------------------------------
(***************************************************************************)
(* What one PUT or GET promises its user, whatever the protocol does in    *)
(* between: the file at the destination is untouched until the source has  *)
(* been opened; it then grows only by the next unit of the source; success *)
(* is reported only of a whole copy, carrying the metadata asked for (not  *)
(* promised of a source that grew meanwhile), and nothing touches          *)
(* the file afterwards.  Failure may be reported at any time, and a peer   *)
(* that has not noticed yet may go on writing.                             *)
(***************************************************************************)
EXTENDS Naturals, Sequences

VARIABLES wanted,     \* metadata was asked for and both sides can carry it
          status,     \* "running", "ok" or "failed": what the user is told
          moved,      \* the source was seen to outgrow its length
          total,      \* length of the source when it was opened
          opened,     \* the source has been opened
          touched,    \* the destination was created or truncated
          dest,       \* source offsets of the units in the destination
          stamped     \* the destination carries the source's metadata

vars == <<wanted, status, moved, total, opened, touched, dest, stamped>>

Init == /\ wanted \in BOOLEAN
        /\ status = "running"
        /\ moved = FALSE
        /\ total = 0
        /\ opened = FALSE
        /\ touched = FALSE
        /\ dest = <<>>
        /\ stamped = FALSE

OpenSource == /\ status # "ok"
              /\ ~opened
              /\ opened' = TRUE
              /\ total' \in Nat
              /\ UNCHANGED <<wanted, status, moved, touched, dest, stamped>>

Truncate == /\ status # "ok"
            /\ opened
            /\ ~touched
            /\ touched' = TRUE
            /\ UNCHANGED <<wanted, status, moved, total, opened, dest, stamped>>

AppendUnit == /\ status # "ok"
              /\ touched
              /\ Len(dest) < total
              /\ dest' = Append(dest, Len(dest) + 1)
              /\ UNCHANGED <<wanted, status, moved, total, opened, touched, stamped>>

\* FALSE stands for any metadata that is not the source's own.
Stamp == /\ status # "ok"
         /\ Len(dest) = total
         /\ touched
         /\ stamped' \in BOOLEAN
         /\ UNCHANGED <<wanted, status, moved, total, opened, touched, dest>>

\* The last metadata may be applied in the step that reports success.
Succeed == /\ status = "running"
           /\ touched
           /\ Len(dest) = total
           /\ stamped' \in BOOLEAN
           /\ wanted /\ ~moved => stamped'
           /\ status' = "ok"
           /\ UNCHANGED <<wanted, moved, total, opened, touched, dest>>

Fail == /\ status = "running"
        /\ status' = "failed"
        /\ UNCHANGED <<wanted, moved, total, opened, touched, dest, stamped>>

\* Somebody appends to the source while it is copied.
SourceGrows == /\ opened
               /\ ~moved
               /\ moved' = TRUE
               /\ UNCHANGED <<wanted, status, total, opened, touched, dest,
                              stamped>>

Next == OpenSource \/ Truncate \/ AppendUnit \/ Stamp \/ Succeed \/ Fail
        \/ SourceGrows

Spec == Init /\ [][Next]_vars
=============================================================================
