----------------------------- MODULE FileMetadata -----------------------------
(***************************************************************************)
(* The permissions and times that a copied file has, while it is written   *)
(* and in the end: what the sender reads of its file and sends in the      *)
(* header and in the trailer (util/metadata_ext.rs, protocol/session/      *)
(* file_transfer.rs), and what the receiver makes of them                  *)
(* (util/file_ext.rs, called by session/put.rs and session/get.rs).        *)
(*                                                                         *)
(* A mode is a set of bits.  A time counts half seconds, and may be before *)
(* the Unix epoch; seconds since the epoch are what travels.  The data of  *)
(* the file is in modules Put and Get; here it is one write that the       *)
(* operating system may carry out late.                                    *)
(***************************************************************************)
EXTENDS Integers, Sequences, TaggedData

CONSTANTS Perm,        \* permission bits: what & 0o777 keeps
          Write,       \* the one that lets the owner write
          Special,     \* setuid and such: what & 0o777 drops
          Times,       \* times a file may have had before
          Epoch,       \* the Unix epoch
          Now,         \* the time at which a write is carried out
          Levels       \* compatibility levels

ASSUME MetadataAssumption == /\ Write \in Perm
                             /\ Perm \cap Special = {}
                             /\ Epoch \in Nat /\ Times \subseteq Nat
                             /\ Now \in Nat \ Times

VARIABLES
  job,      \* who sends, --preserve, the level, the receiver's umask, and whether
            \* the sender is a later program
  src,      \* the file that is sent
  meta,     \* what the sender read of it when it opened it
  warned,   \* the client has said that the remote cannot preserve
  header, trailer,   \* what is on its way to the receiver
  dest,     \* the file at the destination
  asked,    \* what the receiver is to set in the end
  late,     \* a write that the operating system has not carried out
  pc        \* where the receiver is

vars == <<job, src, meta, warned, header, trailer, dest, asked, late, pc>>

Modes == SUBSET (Perm \cup Special)
File == [mode : Modes, atime : Times \cup {Now}, mtime : Times \cup {Now}]
\* ours: the receiver's user owns the file; writable: may open it for writing.
NoFile == [is |-> "none"]
Nothing == [sent |-> FALSE]

\* Feature::PRESERVE and Feature::GET2_PUT2.
PRESERVE  == 2
GET2_PUT2 == 2

-----------------------------------------------------------------------------
(* What travels: seconds, as an unsigned integer.                          *)

to_unix(t)   == IF t < Epoch THEN 0 ELSE (t - Epoch) \div 2
from_unix(s) == Epoch + 2 * s

mode(f) == f.mode \cap Perm

MetadataAttr == {"ModeBits", "AccessTime", "ModificationTime"}

\* A later program may have attributes that this one does not know.
Unheard(later) == IF later THEN <<with_bytes("LaterAttr", "some")>> ELSE <<>>

to_tagged_data(f, preserve, later) ==
  Unheard(later) \o <<with_unsigned("ModeBits", mode(f))>> \o
  IF preserve THEN <<with_unsigned("AccessTime", to_unix(f.atime)),
                     with_unsigned("ModificationTime", to_unix(f.mtime))>>
  ELSE <<>>

NoMetadata == <<>>

HeaderFor(f) ==
  IF job.level >= GET2_PUT2 THEN to_tagged_data(f, FALSE, job.later) ELSE NoMetadata
\* Plausible bug: the metadata are sent, asked for or not.
TrailerUnasked(f, preserve) ==
  IF job.level >= GET2_PUT2 THEN to_tagged_data(f, TRUE, job.later) ELSE NoMetadata
TrailerFor(f, preserve) ==
  IF job.level >= GET2_PUT2 /\ preserve THEN to_tagged_data(f, TRUE, job.later)
  ELSE NoMetadata

-----------------------------------------------------------------------------
Jobs == [way : {"put", "get"}, preserve : BOOLEAN, level : Levels, umask : SUBSET Perm,
         later : BOOLEAN]
Old  == [is : {"file"}, mode : Modes, atime : Times, mtime : Times,
         ours : BOOLEAN, writable : BOOLEAN]

\* A file of one's own is writable if its mode says so.
OldFiles == {f \in Old : f.ours => (f.writable <=> Write \in f.mode)}

Init == /\ job \in Jobs
        /\ src \in [mode : Modes, atime : Times, mtime : Times]
        /\ meta = src                     \* open_with_meta
        /\ warned = FALSE
        /\ header = Nothing /\ trailer = Nothing
        /\ \/ dest = NoFile
           \/ \E t \in {CHOOSE t \in Times : TRUE} :
                dest \in {f \in OldFiles : f.atime = t /\ f.mtime = t}
        /\ asked = NoMetadata
        /\ late = FALSE
        /\ pc = "warn"

\* The client knows the level once both have greeted.
Warn == /\ pc = "warn"
        /\ warned' = (job.preserve /\ ~(job.level >= PRESERVE))
        /\ pc' = "header"
        /\ UNCHANGED <<job, src, meta, header, trailer, dest, asked, late>>

\* Other programs use the file while it is read, and reading it is a use.
Touch == /\ src' = [mode |-> Perm, atime |-> Now, mtime |-> Now]
         /\ pc \notin {"warn", "done", "failed"}
         /\ UNCHANGED <<job, meta, warned, header, trailer, dest, asked, late, pc>>

-----------------------------------------------------------------------------
(* The sender.                                                             *)

SendHeader == /\ pc # "warn" /\ ~header.sent
              /\ header' = [sent |-> TRUE, metadata |-> HeaderFor(meta)]
              /\ UNCHANGED <<job, src, meta, warned, trailer, dest, asked, late, pc>>

\* A GET asks for it with an option, which only Get2 has.
Get2Options == IF job.level >= GET2_PUT2 /\ job.preserve THEN <<without_data("PreserveMetadata")>>
               ELSE <<>>
Wanted == IF job.way = "get" THEN HasTag(Get2Options, "PreserveMetadata") ELSE job.preserve

\* Plausible bug: the file is looked at again when its data have been read.
SendTrailerAfresh ==
  /\ header.sent /\ ~trailer.sent
  /\ trailer' = [sent |-> TRUE, metadata |-> TrailerFor(src, Wanted)]
  /\ UNCHANGED <<job, src, meta, warned, header, dest, asked, late, pc>>

SendTrailer ==
  /\ header.sent /\ ~trailer.sent
  /\ trailer' = [sent |-> TRUE, metadata |-> TrailerFor(meta, Wanted)]
  /\ UNCHANGED <<job, src, meta, warned, header, dest, asked, late, pc>>

-----------------------------------------------------------------------------
(* The receiver.                                                           *)

Fail == /\ pc' = "failed"
        /\ UNCHANGED <<job, src, meta, warned, header, trailer, dest, asked, late>>

\* open(2) with O_CREAT takes the umask off the mode it is given, 0o666 if
\* apply_qcp_meta gives it none.
apply_qcp_meta(metadata) ==
  IF HasUnsigned(metadata, "ModeBits", MetadataAttr)
  THEN (UnsignedOf(metadata, "ModeBits", MetadataAttr) \cap Perm) \ job.umask
  ELSE Perm \ job.umask

\* Plausible bug: the mode is set after the file was opened, so that the
\* umask has no say and a file that is there loses its own.
CreateByChmod ==
  /\ pc = "header" /\ header.sent
  /\ IF dest = NoFile THEN TRUE ELSE dest.writable
  /\ dest' = [is |-> "file", atime |-> Now, mtime |-> Now, ours |-> TRUE, writable |-> TRUE,
              mode |-> IF HasUnsigned(header.metadata, "ModeBits", MetadataAttr)
                       THEN UnsignedOf(header.metadata, "ModeBits", MetadataAttr)
                       ELSE Perm \ job.umask]
  /\ pc' = "data"
  /\ UNCHANGED <<job, src, meta, warned, header, trailer, asked, late>>

create_or_truncate ==
  /\ pc = "header" /\ header.sent
  /\ \/ /\ dest = NoFile
        /\ dest' = [is |-> "file", mode |-> apply_qcp_meta(header.metadata),
                    atime |-> Now, mtime |-> Now, ours |-> TRUE, writable |-> TRUE]
     \/ /\ dest # NoFile /\ dest.writable
        /\ dest' = [dest EXCEPT !.mtime = Now]
  /\ pc' = "data"
  /\ UNCHANGED <<job, src, meta, warned, header, trailer, asked, late>>

\* No directory to put it in, no permission; or not a regular file.
CannotOpen == pc = "header" /\ header.sent /\ Fail

\* copy_large hands the last of the data to the operating system.
CopyData == /\ pc = "data"
            /\ late' = TRUE
            /\ pc' = "trailer"
            /\ UNCHANGED <<job, src, meta, warned, header, trailer, dest, asked>>

WriteHappens == /\ late
                /\ late' = FALSE
                /\ dest' = [dest EXCEPT !.mtime = Now]
                /\ UNCHANGED <<job, src, meta, warned, header, trailer, asked, pc>>

CopyFails == pc \in {"data", "trailer", "flush"} /\ Fail

ReceiveTrailer == /\ pc = "trailer" /\ trailer.sent
                  /\ asked' = trailer.metadata
                  /\ pc' = "flush"
                  /\ UNCHANGED <<job, src, meta, warned, header, trailer, dest, late>>

\* flush, and into_std, wait for the writes.
Flush == /\ pc = "flush" /\ ~late
         /\ pc' = "times"
         /\ UNCHANGED <<job, src, meta, warned, header, trailer, dest, asked, late>>

Asked(t) == UnsignedOf(asked, t, MetadataAttr)
Has(t) == HasUnsigned(asked, t, MetadataAttr)

\* update_metadata: set_times, then set_permissions, each only by the owner.
SetTimes ==
  /\ pc = "times"
  /\ Has("ModificationTime") => dest.ours
  /\ dest' = [dest EXCEPT
       !.atime = IF Has("AccessTime") THEN from_unix(Asked("AccessTime")) ELSE @,
       !.mtime = IF Has("ModificationTime") THEN from_unix(Asked("ModificationTime")) ELSE @]
  /\ pc' = IF Has("ModeBits") THEN "perms" ELSE "done"
  /\ UNCHANGED <<job, src, meta, warned, header, trailer, asked, late>>

SetPermissions ==
  /\ pc = "perms" /\ dest.ours
  /\ dest' = [dest EXCEPT !.mode = Asked("ModeBits") \cap Perm]
  /\ pc' = "done"
  /\ UNCHANGED <<job, src, meta, warned, header, trailer, asked, late>>

\* The file's own metadata are asked for first, whether anything is to be set or
\* not; then its times or its mode may be refused.
CannotUpdate == pc \in {"times", "perms"} /\ Fail

Next == \/ Warn \/ Touch \/ SendHeader \/ SendTrailer
        \/ create_or_truncate \/ CannotOpen \/ CopyData \/ WriteHappens \/ CopyFails
        \/ ReceiveTrailer \/ Flush \/ SetTimes \/ SetPermissions \/ CannotUpdate

Spec == Init /\ [][Next]_vars

-----------------------------------------------------------------------------
TypeOK ==
  /\ job \in Jobs /\ src \in File /\ meta \in File /\ warned \in BOOLEAN
  /\ \/ dest = NoFile
     \/ dest \in [is : {"file"}, mode : Modes, atime : Int, mtime : Int,
                  ours : BOOLEAN, writable : BOOLEAN]
  /\ late \in BOOLEAN
  /\ pc \in {"warn", "header", "data", "trailer", "flush", "times", "perms", "done", "failed"}

\* What the receiver can be told of a time: whole seconds, not before the epoch.
Told(t) == IF t < Epoch THEN Epoch ELSE t - ((t - Epoch) % 2)

\* options.rs, -p "Preserves file/directory permissions and file modification
\* times as far as possible": a copy that succeeds has the permissions and
\* times that its source had when it was opened, whatever happened to the
\* source since and however late the data were written; or the client has
\* said that the remote cannot do that (main_loop.rs 343).
PreservedOrWarned ==
  pc = "done" /\ job.preserve /\ ~warned =>
    /\ ~late
    /\ dest.mode = meta.mode \cap Perm
    /\ dest.atime = Told(meta.atime) /\ dest.mtime = Told(meta.mtime)

\* At no time, not even while its data arrive or after a failure, does a file
\* that the copy created let anybody do what the source's mode does not, and
\* without -p what the receiver's umask takes away (file_ext.rs
\* apply_qcp_meta).  A peer of level 1 is told no mode.
NeverWider ==
  [][dest = NoFile /\ dest' # NoFile /\ job.level >= 2 =>
       dest'.mode \subseteq (meta.mode \cap Perm) \ job.umask]_dest

\* Once there, a file changes its mode only for -p, to the source's; a file
\* that was there before keeps its own (file_ext.rs 109-133).
ModeKept ==
  [][dest # NoFile /\ dest'.mode # dest.mode =>
       job.preserve /\ trailer.sent /\ dest'.mode = meta.mode \cap Perm]_dest

-----------------------------------------------------------------------------
(* The inductive invariant.                                                *)

\* What travels is what the sender read when it opened its file, and what is
\* to be set in the end is what the trailer said.
AsOpened ==
  /\ header \in {Nothing, [sent |-> TRUE, metadata |-> HeaderFor(meta)]}
  /\ trailer \in {Nothing, [sent |-> TRUE, metadata |-> TrailerFor(meta, Wanted)]}
  /\ pc \in {"flush", "times", "perms", "done"} => trailer.sent /\ asked = trailer.metadata

\* Once the receiver has opened its file there is one, and nothing is written
\* after the flush.
Opened ==
  /\ pc \notin {"warn", "header", "failed"} => dest # NoFile
  /\ late => dest # NoFile /\ pc \in {"trailer", "flush", "failed"}

\* What was to be set is set, each in its turn.
TimesAreSet ==
  /\ Has("AccessTime") => dest.atime = from_unix(Asked("AccessTime"))
  /\ Has("ModificationTime") => dest.mtime = from_unix(Asked("ModificationTime"))
Settled ==
  /\ pc # "warn" => (warned <=> job.preserve /\ ~(job.level >= PRESERVE))
  /\ pc = "perms" => Has("ModeBits")
  /\ pc \in {"perms", "done"} => TimesAreSet
  /\ pc = "done" /\ Has("ModeBits") => dest.mode = Asked("ModeBits") \cap Perm

Inv == TypeOK /\ AsOpened /\ Opened /\ Settled
===============================================================================
