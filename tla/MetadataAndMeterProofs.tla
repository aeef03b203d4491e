------------------------ MODULE MetadataAndMeterProofs ------------------------
(***************************************************************************)
(* What modules FileMetadata and Meter promise, proved for every set of    *)
(* permission bits, times and levels, and for every number of files, all   *)
(* their sizes, every clock and all that a connection may report.          *)
(*                                                                         *)
(* FileMetadata: messages hold what the sender read when it opened its     *)
(* file (AsOpened), a reader gets from a list what was put into it         *)
(* (MetadataFacts), and what is set is not disturbed after that (Settled). *)
(*                                                                         *)
(* Meter: the totals are sums over the files that are done (HonestTotals), *)
(* which takes induction over the length of a sequence (NumbersFrom0);     *)
(* a stopwatch stops when the next one starts (Chained); as long as nobody *)
(* sets the clock, the peak of a file is the rate of the fastest of the    *)
(* intervals in which it was sampled (HonestMeter, FastestGrows); and the  *)
(* report is of the state the run ended in.                                *)
(***************************************************************************)
EXTENDS FileMetadata, Meter, SequenceTheorems, WellFoundedInduction, TLAPS

-----------------------------------------------------------------------------
(* What a reader gets from a list of attributes.                           *)

\* If only one item will do, that is what he ends up with.
LEMMA OnlyUnsigned ==
  ASSUME NEW d, NEW t, NEW n \in Nat, Unsigneds(d, t, MetadataAttr) = {n}
  PROVE  /\ HasUnsigned(d, t, MetadataAttr)
         /\ UnsignedOf(d, t, MetadataAttr) = d[n].data.v
<1>1. n <= n
  OBVIOUS
<1>2. LastUnsigned(d, t, MetadataAttr) = n
  BY <1>1 DEF LastUnsigned
<1> QED
  BY <1>2 DEF HasUnsigned, UnsignedOf

\* An empty list asks for nothing.
LEMMA NothingAsked ==
  ASSUME NEW t
  PROVE  ~HasUnsigned(NoMetadata, t, MetadataAttr)
<1>1. DOMAIN NoMetadata = {}
  BY DEF NoMetadata
<1> QED
  BY <1>1 DEF HasUnsigned, Unsigneds

\* What a concatenation is, item by item.
LEMMA Joined ==
  ASSUME NEW S, NEW s \in Seq(S), NEW t \in Seq(S), NEW r \in Seq(S),
         Len(r) = Len(s) + Len(t),
         \A j \in 1..Len(s) : r[j] = s[j],
         \A j \in 1..Len(t) : r[Len(s) + j] = t[j]
  PROVE  s \o t = r
<1>1. /\ s \o t \in Seq(S) /\ Len(s \o t) = Len(s) + Len(t)
      /\ \A j \in 1..Len(s) + Len(t) :
           (s \o t)[j] = IF j <= Len(s) THEN s[j] ELSE t[j - Len(s)]
  BY ConcatProperties
<1>2. ASSUME NEW j \in 1..Len(r)
      PROVE  r[j] = (s \o t)[j]
  <2>1. CASE j <= Len(s)
    BY <1>1, <2>1
  <2>2. CASE j > Len(s)
    <3>1. j - Len(s) \in 1..Len(t) /\ j = Len(s) + (j - Len(s))
      BY <2>2
    <3> QED
      BY <1>1, <2>2, <3>1
  <2> QED
    BY <2>1, <2>2
<1> QED
  BY <1>1, <1>2, SeqEqual

\* The list for a file: its mode, its times if they are to be preserved, and
\* perhaps before them something that the reader skips.
LEMMA ListIs ==
  ASSUME NEW f, NEW p \in BOOLEAN, NEW l \in BOOLEAN
  PROVE  LET m == with_unsigned("ModeBits", mode(f))
             a == with_unsigned("AccessTime", to_unix(f.atime))
             c == with_unsigned("ModificationTime", to_unix(f.mtime))
             u == with_bytes("LaterAttr", "some")
         IN  to_tagged_data(f, p, l) = IF l THEN IF p THEN <<u, m, a, c>> ELSE <<u, m>>
                                       ELSE IF p THEN <<m, a, c>> ELSE <<m>>
<1>1. ASSUME NEW m, NEW a, NEW c, NEW u
      PROVE  /\ <<u>> \o <<m>> \o <<a, c>> = <<u, m, a, c>>
             /\ <<u>> \o <<m>> \o <<>> = <<u, m>>
             /\ <<>> \o <<m>> \o <<a, c>> = <<m, a, c>>
             /\ <<>> \o <<m>> \o <<>> = <<m>>
  <2> DEFINE S == {m, a, c, u}
             x == <<u>>
             y == <<m>>
             z == <<a, c>>
             xy == <<u, m>>
             yz == <<m, a, c>>
             xyz == <<u, m, a, c>>
  <2>1. /\ x \in Seq(S) /\ Len(x) = 1 /\ x[1] = u
        /\ y \in Seq(S) /\ Len(y) = 1 /\ y[1] = m
        /\ z \in Seq(S) /\ Len(z) = 2 /\ z[1] = a /\ z[2] = c
        /\ xy \in Seq(S) /\ Len(xy) = 2 /\ xy[1] = u /\ xy[2] = m
        /\ yz \in Seq(S) /\ Len(yz) = 3 /\ yz[1] = m /\ yz[2] = a /\ yz[3] = c
        /\ xyz \in Seq(S) /\ Len(xyz) = 4
        /\ xyz[1] = u /\ xyz[2] = m /\ xyz[3] = a /\ xyz[4] = c
    OBVIOUS
  <2> HIDE DEF S, x, y, z, xy, yz, xyz
  <2>2. /\ \A j \in 1..1 : j = 1
        /\ \A j \in 1..2 : j = 1 \/ j = 2
        /\ \A j \in 1..3 : j = 1 \/ j = 2 \/ j = 3
        /\ \A j \in 1..4 : j = 1 \/ j = 2 \/ j = 3 \/ j = 4
    OBVIOUS
  <2>3. x \o y = xy
    <3>1. Len(xy) = Len(x) + Len(y)
      BY <2>1
    <3>2. \A j \in 1..Len(x) : xy[j] = x[j]
      BY <2>1, <2>2
    <3>3. \A j \in 1..Len(y) : xy[Len(x) + j] = y[j]
      BY <2>1, <2>2
    <3> QED
      BY <2>1, <3>1, <3>2, <3>3, Joined
  <2>4. xy \o z = xyz
    <3>1. Len(xyz) = Len(xy) + Len(z)
      BY <2>1
    <3>2. \A j \in 1..Len(xy) : xyz[j] = xy[j]
      BY <2>1, <2>2
    <3>3. \A j \in 1..Len(z) : xyz[Len(xy) + j] = z[j]
      BY <2>1, <2>2
    <3> QED
      BY <2>1, <3>1, <3>2, <3>3, Joined
  <2>5. y \o z = yz
    <3>1. Len(yz) = Len(y) + Len(z)
      BY <2>1
    <3>2. \A j \in 1..Len(y) : yz[j] = y[j]
      BY <2>1, <2>2
    <3>3. \A j \in 1..Len(z) : yz[Len(y) + j] = z[j]
      BY <2>1, <2>2
    <3> QED
      BY <2>1, <3>1, <3>2, <3>3, Joined
  <2>6. xy \o <<>> = xy /\ <<>> \o y = y /\ y \o <<>> = y
    BY <2>1, ConcatEmptySeq
  <2> QED
    BY <2>3, <2>4, <2>5, <2>6 DEF x, y, z, xy, yz, xyz
<1> DEFINE m == with_unsigned("ModeBits", mode(f))
           a == with_unsigned("AccessTime", to_unix(f.atime))
           c == with_unsigned("ModificationTime", to_unix(f.mtime))
           u == with_bytes("LaterAttr", "some")
<1>2. to_tagged_data(f, p, l) = (IF l THEN <<u>> ELSE <<>>) \o <<m>> \o
                                IF p THEN <<a, c>> ELSE <<>>
  BY DEF to_tagged_data, Unheard
<1> HIDE DEF m, a, c, u
<1>3. to_tagged_data(f, p, l) = IF l THEN IF p THEN <<u, m, a, c>> ELSE <<u, m>>
                                ELSE IF p THEN <<m, a, c>> ELSE <<m>>
  <2>1. CASE l /\ p
    BY <1>1, <1>2, <2>1
  <2>2. CASE l /\ ~p
    BY <1>1, <1>2, <2>2
  <2>3. CASE ~l /\ p
    BY <1>1, <1>2, <2>3
  <2>4. CASE ~l /\ ~p
    BY <1>1, <1>2, <2>4
  <2> QED
    BY <2>1, <2>2, <2>3, <2>4
<1> QED
  BY <1>3 DEF m, a, c, u

\* A reader of to_tagged_data's list finds the mode that was put there, and
\* the times exactly if they were, whatever he skips before them.
LEMMA MetadataFacts ==
  ASSUME NEW f, NEW p \in BOOLEAN, NEW l \in BOOLEAN
  PROVE  LET d == to_tagged_data(f, p, l)
         IN  /\ HasUnsigned(d, "ModeBits", MetadataAttr)
             /\ UnsignedOf(d, "ModeBits", MetadataAttr) = mode(f)
             /\ HasUnsigned(d, "AccessTime", MetadataAttr) <=> p
             /\ HasUnsigned(d, "ModificationTime", MetadataAttr) <=> p
             /\ p => /\ UnsignedOf(d, "AccessTime", MetadataAttr) = to_unix(f.atime)
                     /\ UnsignedOf(d, "ModificationTime", MetadataAttr) = to_unix(f.mtime)
<1> DEFINE m == with_unsigned("ModeBits", mode(f))
           a == with_unsigned("AccessTime", to_unix(f.atime))
           c == with_unsigned("ModificationTime", to_unix(f.mtime))
           u == with_bytes("LaterAttr", "some")
           U(d, t) == Unsigneds(d, t, MetadataAttr)
<1>1. /\ m.tag = "ModeBits" /\ m.data.v = mode(f)
      /\ a.tag = "AccessTime" /\ a.data.v = to_unix(f.atime)
      /\ c.tag = "ModificationTime" /\ c.data.v = to_unix(f.mtime)
      /\ IsUnsigned(m.data) /\ IsUnsigned(a.data) /\ IsUnsigned(c.data)
      /\ tag(m, MetadataAttr) = "ModeBits" /\ tag(a, MetadataAttr) = "AccessTime"
      /\ tag(c, MetadataAttr) = "ModificationTime"
      /\ tag(u, MetadataAttr) = "none"
  BY DEF with_unsigned, with_bytes, with_variant, unsigned, Bytes, IsUnsigned, tag, MetadataAttr
<1> HIDE DEF m, a, c, u
<1>2. CASE l /\ p
  <2> DEFINE d == <<u, m, a, c>>
  <2>1. to_tagged_data(f, p, l) = d
    BY <1>2, ListIs DEF m, a, c, u
  <2>2. U(d, "ModeBits") = {2} /\ U(d, "AccessTime") = {3} /\ U(d, "ModificationTime") = {4}
    BY <1>1 DEF Unsigneds
  <2>3. d[2] = m /\ d[3] = a /\ d[4] = c
    OBVIOUS
  <2> HIDE DEF d
  <2>4. HasUnsigned(d, "ModeBits", MetadataAttr) /\ UnsignedOf(d, "ModeBits", MetadataAttr) = d[2].data.v
    <3>1. Unsigneds(d, "ModeBits", MetadataAttr) = {2} /\ 2 \in Nat
      BY <2>2
    <3> QED
      BY ONLY <3>1, OnlyUnsigned
  <2>5. HasUnsigned(d, "AccessTime", MetadataAttr) /\ UnsignedOf(d, "AccessTime", MetadataAttr) = d[3].data.v
    <3>1. Unsigneds(d, "AccessTime", MetadataAttr) = {3} /\ 3 \in Nat
      BY <2>2
    <3> QED
      BY ONLY <3>1, OnlyUnsigned
  <2>6. HasUnsigned(d, "ModificationTime", MetadataAttr) /\ UnsignedOf(d, "ModificationTime", MetadataAttr) = d[4].data.v
    <3>1. Unsigneds(d, "ModificationTime", MetadataAttr) = {4} /\ 4 \in Nat
      BY <2>2
    <3> QED
      BY ONLY <3>1, OnlyUnsigned
  <2> QED
    BY <1>1, <1>2, <2>1, <2>3, <2>4, <2>5, <2>6
<1>3. CASE l /\ ~p
  <2> DEFINE d == <<u, m>>
  <2>1. to_tagged_data(f, p, l) = d
    BY <1>3, ListIs DEF m, a, c, u
  <2>2. U(d, "ModeBits") = {2} /\ U(d, "AccessTime") = {} /\ U(d, "ModificationTime") = {}
    BY <1>1 DEF Unsigneds
  <2>3. d[2] = m
    OBVIOUS
  <2> HIDE DEF d
  <2>4. HasUnsigned(d, "ModeBits", MetadataAttr) /\ UnsignedOf(d, "ModeBits", MetadataAttr) = d[2].data.v
    <3>1. Unsigneds(d, "ModeBits", MetadataAttr) = {2} /\ 2 \in Nat
      BY <2>2
    <3> QED
      BY ONLY <3>1, OnlyUnsigned
  <2>5. ~HasUnsigned(d, "AccessTime", MetadataAttr)
    BY <2>2 DEF HasUnsigned
  <2>6. ~HasUnsigned(d, "ModificationTime", MetadataAttr)
    BY <2>2 DEF HasUnsigned
  <2> QED
    BY <1>1, <1>3, <2>1, <2>3, <2>4, <2>5, <2>6
<1>4. CASE ~l /\ p
  <2> DEFINE d == <<m, a, c>>
  <2>1. to_tagged_data(f, p, l) = d
    BY <1>4, ListIs DEF m, a, c, u
  <2>2. U(d, "ModeBits") = {1} /\ U(d, "AccessTime") = {2} /\ U(d, "ModificationTime") = {3}
    BY <1>1 DEF Unsigneds
  <2>3. d[1] = m /\ d[2] = a /\ d[3] = c
    OBVIOUS
  <2> HIDE DEF d
  <2>4. HasUnsigned(d, "ModeBits", MetadataAttr) /\ UnsignedOf(d, "ModeBits", MetadataAttr) = d[1].data.v
    <3>1. Unsigneds(d, "ModeBits", MetadataAttr) = {1} /\ 1 \in Nat
      BY <2>2
    <3> QED
      BY ONLY <3>1, OnlyUnsigned
  <2>5. HasUnsigned(d, "AccessTime", MetadataAttr) /\ UnsignedOf(d, "AccessTime", MetadataAttr) = d[2].data.v
    <3>1. Unsigneds(d, "AccessTime", MetadataAttr) = {2} /\ 2 \in Nat
      BY <2>2
    <3> QED
      BY ONLY <3>1, OnlyUnsigned
  <2>6. HasUnsigned(d, "ModificationTime", MetadataAttr) /\ UnsignedOf(d, "ModificationTime", MetadataAttr) = d[3].data.v
    <3>1. Unsigneds(d, "ModificationTime", MetadataAttr) = {3} /\ 3 \in Nat
      BY <2>2
    <3> QED
      BY ONLY <3>1, OnlyUnsigned
  <2> QED
    BY <1>1, <1>4, <2>1, <2>3, <2>4, <2>5, <2>6
<1>5. CASE ~l /\ ~p
  <2> DEFINE d == <<m>>
  <2>1. to_tagged_data(f, p, l) = d
    BY <1>5, ListIs DEF m, a, c, u
  <2>2. U(d, "ModeBits") = {1} /\ U(d, "AccessTime") = {} /\ U(d, "ModificationTime") = {}
    BY <1>1 DEF Unsigneds
  <2>3. d[1] = m
    OBVIOUS
  <2> HIDE DEF d
  <2>4. HasUnsigned(d, "ModeBits", MetadataAttr) /\ UnsignedOf(d, "ModeBits", MetadataAttr) = d[1].data.v
    <3>1. Unsigneds(d, "ModeBits", MetadataAttr) = {1} /\ 1 \in Nat
      BY <2>2
    <3> QED
      BY ONLY <3>1, OnlyUnsigned
  <2>5. ~HasUnsigned(d, "AccessTime", MetadataAttr)
    BY <2>2 DEF HasUnsigned
  <2>6. ~HasUnsigned(d, "ModificationTime", MetadataAttr)
    BY <2>2 DEF HasUnsigned
  <2> QED
    BY <1>1, <1>5, <2>1, <2>3, <2>4, <2>5, <2>6
<1> QED
  BY <1>2, <1>3, <1>4, <1>5

-----------------------------------------------------------------------------
(* What the two messages tell.                                             *)

\* So a header of level 2 or above tells the mode of the file as opened.
LEMMA HeaderFacts ==
  ASSUME TypeOK, job.level >= GET2_PUT2
  PROVE  /\ HasUnsigned(HeaderFor(meta), "ModeBits", MetadataAttr)
         /\ UnsignedOf(HeaderFor(meta), "ModeBits", MetadataAttr) = mode(meta)
<1>1. job.later \in BOOLEAN
  BY DEF TypeOK, Jobs
<1>2. HeaderFor(meta) = to_tagged_data(meta, FALSE, job.later)
  BY DEF HeaderFor
<1> QED
  BY <1>1, <1>2, MetadataFacts

\* With -p, from and to programs that know how, the trailer tells everything,
\* and otherwise nothing.
LEMMA TrailerFacts ==
  ASSUME TypeOK, NEW d, d = TrailerFor(meta, Wanted)
  PROVE  /\ \A t \in MetadataAttr :
              HasUnsigned(d, t, MetadataAttr) <=> job.preserve /\ job.level >= GET2_PUT2
         /\ job.preserve /\ job.level >= GET2_PUT2 =>
              /\ UnsignedOf(d, "ModeBits", MetadataAttr) = mode(meta)
              /\ UnsignedOf(d, "AccessTime", MetadataAttr) = to_unix(meta.atime)
              /\ UnsignedOf(d, "ModificationTime", MetadataAttr) = to_unix(meta.mtime)
<1>1. job.later \in BOOLEAN /\ job.preserve \in BOOLEAN
  BY DEF TypeOK, Jobs
<1>2. MetadataAttr = {"ModeBits", "AccessTime", "ModificationTime"}
  BY DEF MetadataAttr
<1>3. job.level >= GET2_PUT2 => (Wanted <=> job.preserve)
  <2>1. CASE job.way = "get" /\ job.level >= GET2_PUT2 /\ job.preserve
    <3>1. Get2Options = <<without_data("PreserveMetadata")>>
      BY <2>1 DEF Get2Options
    <3>2. without_data("PreserveMetadata").tag = "PreserveMetadata"
      BY DEF without_data, with_variant
    <3>3. HasTag(Get2Options, "PreserveMetadata")
      BY <3>1, <3>2 DEF HasTag
    <3> QED
      BY <2>1, <3>3 DEF Wanted
  <2>2. CASE job.way = "get" /\ ~job.preserve
    <3>1. Get2Options = <<>>
      BY <2>2 DEF Get2Options
    <3>2. ~HasTag(Get2Options, "PreserveMetadata")
      BY <3>1 DEF HasTag
    <3> QED
      BY <2>2, <3>2 DEF Wanted
  <2>3. CASE job.way # "get"
    BY <2>3 DEF Wanted
  <2> QED
    BY <2>1, <2>2, <2>3
<1>4. CASE job.preserve /\ job.level >= GET2_PUT2
  <2>1. d = to_tagged_data(meta, TRUE, job.later)
    BY <1>3, <1>4 DEF TrailerFor
  <2>2. /\ HasUnsigned(d, "ModeBits", MetadataAttr)
        /\ HasUnsigned(d, "AccessTime", MetadataAttr)
        /\ HasUnsigned(d, "ModificationTime", MetadataAttr)
        /\ UnsignedOf(d, "ModeBits", MetadataAttr) = mode(meta)
        /\ UnsignedOf(d, "AccessTime", MetadataAttr) = to_unix(meta.atime)
        /\ UnsignedOf(d, "ModificationTime", MetadataAttr) = to_unix(meta.mtime)
    BY <1>1, <2>1, MetadataFacts
  <2> QED
    BY <1>2, <1>4, <2>2
<1>5. CASE ~(job.preserve /\ job.level >= GET2_PUT2)
  <2>1. d = NoMetadata
    BY <1>3, <1>5 DEF TrailerFor
  <2> QED
    BY <1>5, <2>1, NothingAsked
<1> QED
  BY <1>4, <1>5

\* The receiver is asked for all that -p means, or for nothing.
LEMMA AskedFacts ==
  ASSUME Inv, pc \in {"flush", "times", "perms", "done"}
  PROVE  /\ \A t \in MetadataAttr : Has(t) <=> job.preserve /\ job.level >= GET2_PUT2
         /\ job.preserve /\ job.level >= GET2_PUT2 =>
              /\ Asked("ModeBits") = mode(meta)
              /\ Asked("AccessTime") = to_unix(meta.atime)
              /\ Asked("ModificationTime") = to_unix(meta.mtime)
<1>1. trailer # Nothing
  BY DEF Inv, AsOpened, Nothing
<1>2. asked = TrailerFor(meta, Wanted)
  BY <1>1 DEF Inv, AsOpened
<1> QED
  BY <1>2, TrailerFacts DEF Inv, Has, Asked

\* A time that has travelled is the second that it was in.
LEMMA TimesTravel == \A t \in Int : from_unix(to_unix(t)) = Told(t)
BY MetadataAssumption DEF from_unix, to_unix, Told

-----------------------------------------------------------------------------
(* One step at a time.                                                     *)

Entry == [is : {"file"}, mode : Modes, atime : Int, mtime : Int,
          ours : BOOLEAN, writable : BOOLEAN]

\* Times are numbers, and all permission bits together are a mode.
LEMMA TimesAreInts == Times \cup {Now} \subseteq Int /\ Perm \in Modes
BY MetadataAssumption DEF Modes

\* Nothing has been sent and nothing asked for.
LEMMA Initially == Init => Inv
<1> SUFFICES ASSUME Init PROVE Inv
  OBVIOUS
<1>1. src \in File /\ meta \in File
  BY DEF Init, File
<1>2. dest = NoFile \/ dest \in Entry
  BY TimesAreInts DEF Init, OldFiles, Old, Entry
<1>3. TypeOK
  BY <1>1, <1>2 DEF Init, TypeOK, Entry
<1>4. AsOpened
  BY DEF Init, AsOpened
<1>5. Opened /\ Settled
  BY DEF Init, Opened, Settled
<1> QED
  BY <1>3, <1>4, <1>5 DEF Inv

\* Steps that leave the destination and what is asked for alone.
LEMMA SameMessages ==
  ASSUME UNCHANGED <<job, meta>>
  PROVE  HeaderFor(meta)' = HeaderFor(meta) /\ TrailerFor(meta, Wanted)' = TrailerFor(meta, Wanted)
BY DEF HeaderFor, TrailerFor, Wanted, Get2Options

\* What was asked for does not depend on anything else.
LEMMA SameAsked ==
  ASSUME UNCHANGED asked
  PROVE  \A t : Has(t)' = Has(t) /\ Asked(t)' = Asked(t)
BY DEF Has, Asked

\* A warning is given before the first message, exactly when it is due.
LEMMA WarnKeeps == Inv /\ Warn => Inv'
<1> SUFFICES ASSUME Inv, Warn PROVE Inv'
  OBVIOUS
<1>1. /\ pc = "warn" /\ pc' = "header"
      /\ warned' = (job.preserve /\ ~(job.level >= PRESERVE))
      /\ UNCHANGED <<job, src, meta, header, trailer, dest, asked, late>>
  BY DEF Warn
<1>2. TypeOK'
  <2>1. warned' \in BOOLEAN
    BY <1>1 DEF Inv, TypeOK, Jobs
  <2> QED
    BY <1>1, <2>1 DEF Inv, TypeOK
<1>3. AsOpened'
  BY <1>1, SameMessages DEF Inv, AsOpened
<1>4. Opened'
  BY <1>1 DEF Inv, Opened
<1>5. Settled'
  BY <1>1 DEF Settled
<1> QED
  BY <1>2, <1>3, <1>4, <1>5 DEF Inv

\* The sender reads its file once; Touch comes too late to be told.
LEMMA SenderKeeps == Inv /\ (Touch \/ SendHeader \/ SendTrailer) => Inv'
<1> SUFFICES ASSUME Inv, Touch \/ SendHeader \/ SendTrailer PROVE Inv'
  OBVIOUS
<1>1. UNCHANGED <<job, meta, warned, dest, asked, late, pc>>
  BY DEF Touch, SendHeader, SendTrailer
<1>2. src' \in File
  BY TimesAreInts DEF Inv, TypeOK, Touch, SendHeader, SendTrailer, File
<1>3. TypeOK'
  BY <1>1, <1>2 DEF Inv, TypeOK
<1>4. AsOpened'
  <2>1. CASE Touch
    BY <1>1, <2>1, SameMessages DEF Inv, AsOpened, Touch
  <2>2. CASE SendHeader
    BY <1>1, <2>2, SameMessages DEF Inv, AsOpened, SendHeader
  <2>3. CASE SendTrailer
    <3>1. pc \notin {"flush", "times", "perms", "done"}
      BY <2>3 DEF Inv, AsOpened, SendTrailer
    <3> QED
      BY <1>1, <2>3, <3>1, SameMessages DEF Inv, AsOpened, SendTrailer
  <2> QED
    BY <2>1, <2>2, <2>3
<1>5. Opened'
  BY <1>1 DEF Inv, Opened
<1>6. Settled'
  BY <1>1, SameAsked DEF Inv, Settled, TimesAreSet
<1> QED
  BY <1>3, <1>4, <1>5, <1>6 DEF Inv

\* A copy that fails leaves what has arrived.
LEMMA FailKeeps == Inv /\ pc # "warn" /\ Fail => Inv'
<1> SUFFICES ASSUME Inv, pc # "warn", Fail PROVE Inv'
  OBVIOUS
<1>1. /\ pc' = "failed"
      /\ UNCHANGED <<job, src, meta, warned, header, trailer, dest, asked, late>>
  BY DEF Fail
<1>2. TypeOK'
  BY <1>1 DEF Inv, TypeOK
<1>3. AsOpened'
  BY <1>1, SameMessages DEF Inv, AsOpened
<1>4. Opened' /\ Settled'
  BY <1>1 DEF Inv, Opened, Settled
<1> QED
  BY <1>2, <1>3, <1>4 DEF Inv

\* A file that is made has the mode that the header gives it.
LEMMA CreateKeeps ==
  ASSUME Inv, create_or_truncate
  PROVE  /\ Inv'
         /\ dest = NoFile /\ job.level >= GET2_PUT2 =>
              dest'.mode = (meta.mode \cap Perm) \ job.umask
         /\ dest # NoFile => dest'.mode = dest.mode
<1>1. /\ pc = "header" /\ pc' = "data" /\ header.sent
      /\ UNCHANGED <<job, src, meta, warned, header, trailer, asked, late>>
  BY DEF create_or_truncate
<1>2. header.metadata = HeaderFor(meta)
  BY <1>1 DEF Inv, AsOpened, Nothing
<1>3. job.level >= GET2_PUT2 => apply_qcp_meta(header.metadata) = (meta.mode \cap Perm) \ job.umask
  BY <1>2, HeaderFacts DEF Inv, apply_qcp_meta, mode
<1>4. apply_qcp_meta(header.metadata) \in Modes
  <2>1. apply_qcp_meta(header.metadata) \subseteq Perm
    BY DEF apply_qcp_meta
  <2> QED
    BY <2>1 DEF Modes
<1>5. /\ dest' \in Entry
      /\ dest = NoFile => dest'.mode = apply_qcp_meta(header.metadata)
      /\ dest # NoFile => dest'.mode = dest.mode
  <2>1. CASE dest = NoFile
    <3>1. dest' = [is |-> "file", mode |-> apply_qcp_meta(header.metadata),
                   atime |-> Now, mtime |-> Now, ours |-> TRUE, writable |-> TRUE]
      BY <2>1 DEF create_or_truncate
    <3>2. Now \in Int
      BY TimesAreInts
    <3> QED
      BY <1>4, <2>1, <3>1, <3>2 DEF Entry
  <2>2. CASE dest # NoFile
    <3>1. dest \in Entry /\ dest' = [dest EXCEPT !.mtime = Now]
      BY <2>2 DEF create_or_truncate, Inv, TypeOK, Entry
    <3>2. Now \in Int
      BY TimesAreInts
    <3>3. dest' \in Entry /\ dest'.mode = dest.mode
      BY <3>1, <3>2 DEF Entry
    <3> QED
      BY <2>2, <3>3
  <2> QED
    BY <2>1, <2>2
<1>6. dest' # NoFile
  BY <1>5 DEF Entry, NoFile
<1>7. TypeOK'
  BY <1>1, <1>5 DEF Inv, TypeOK, Entry
<1>8. AsOpened'
  BY <1>1, SameMessages DEF Inv, AsOpened
<1>9. Opened' /\ Settled'
  BY <1>1, <1>6 DEF Inv, Opened, Settled
<1> QED
  BY <1>3, <1>5, <1>7, <1>8, <1>9 DEF Inv

\* Data may still be on their way to the file when all has been read.
LEMMA CopyDataKeeps == Inv /\ CopyData => Inv'
<1> SUFFICES ASSUME Inv, CopyData PROVE Inv'
  OBVIOUS
<1>1. /\ pc = "data" /\ late' = TRUE /\ pc' = "trailer"
      /\ UNCHANGED <<job, src, meta, warned, header, trailer, dest, asked>>
  BY DEF CopyData
<1>2. TypeOK'
  BY <1>1 DEF Inv, TypeOK
<1>3. AsOpened'
  BY <1>1, SameMessages DEF Inv, AsOpened
<1>4. Opened' /\ Settled'
  BY <1>1 DEF Inv, Opened, Settled
<1> QED
  BY <1>2, <1>3, <1>4 DEF Inv

\* However late a write is, it is over before the times are set.
LEMMA WriteKeeps ==
  ASSUME Inv, WriteHappens
  PROVE  Inv' /\ dest # NoFile /\ dest'.mode = dest.mode
<1>1. /\ late /\ late' = FALSE /\ dest' = [dest EXCEPT !.mtime = Now]
      /\ UNCHANGED <<job, src, meta, warned, header, trailer, asked, pc>>
  BY DEF WriteHappens
<1>2. dest # NoFile /\ pc \in {"trailer", "flush", "failed"}
  BY <1>1 DEF Inv, Opened
<1>3. dest' \in Entry /\ dest'.mode = dest.mode
  <2>1. dest \in Entry
    BY <1>2 DEF Inv, TypeOK, Entry
  <2>2. Now \in Int
    BY TimesAreInts
  <2> QED
    BY <1>1, <2>1, <2>2 DEF Entry
<1>4. dest' # NoFile
  BY <1>3 DEF Entry, NoFile
<1>5. TypeOK'
  BY <1>1, <1>3 DEF Inv, TypeOK, Entry
<1>6. AsOpened'
  BY <1>1, SameMessages DEF Inv, AsOpened
<1>7. Opened' /\ Settled'
  BY <1>1, <1>2, <1>4 DEF Inv, Opened, Settled
<1> QED
  BY <1>2, <1>3, <1>5, <1>6, <1>7 DEF Inv

\* The receiver asks for what the trailer says.
LEMMA ReceiveTrailerKeeps == Inv /\ ReceiveTrailer => Inv'
<1> SUFFICES ASSUME Inv, ReceiveTrailer PROVE Inv'
  OBVIOUS
<1>1. /\ pc = "trailer" /\ trailer.sent /\ asked' = trailer.metadata /\ pc' = "flush"
      /\ UNCHANGED <<job, src, meta, warned, header, trailer, dest, late>>
  BY DEF ReceiveTrailer
<1>2. TypeOK'
  BY <1>1 DEF Inv, TypeOK
<1>3. AsOpened'
  BY <1>1, SameMessages DEF Inv, AsOpened
<1>4. Opened' /\ Settled'
  BY <1>1 DEF Inv, Opened, Settled
<1> QED
  BY <1>2, <1>3, <1>4 DEF Inv

\* The flush lets no write be late.
LEMMA FlushKeeps == Inv /\ Flush => Inv'
<1> SUFFICES ASSUME Inv, Flush PROVE Inv'
  OBVIOUS
<1>1. /\ pc = "flush" /\ ~late /\ pc' = "times"
      /\ UNCHANGED <<job, src, meta, warned, header, trailer, dest, asked, late>>
  BY DEF Flush
<1>2. TypeOK'
  BY <1>1 DEF Inv, TypeOK
<1>3. AsOpened'
  BY <1>1, SameMessages DEF Inv, AsOpened
<1>4. Opened' /\ Settled'
  BY <1>1 DEF Inv, Opened, Settled
<1> QED
  BY <1>2, <1>3, <1>4 DEF Inv

\* Times are set before permissions, which do not change them.
LEMMA SetTimesKeeps ==
  ASSUME Inv, SetTimes
  PROVE  Inv' /\ dest # NoFile /\ dest'.mode = dest.mode
<1> DEFINE at == IF Has("AccessTime") THEN from_unix(Asked("AccessTime")) ELSE dest.atime
           mt == IF Has("ModificationTime") THEN from_unix(Asked("ModificationTime"))
                 ELSE dest.mtime
<1>1. /\ pc = "times" /\ dest' = [dest EXCEPT !.atime = at, !.mtime = mt]
      /\ pc' = (IF Has("ModeBits") THEN "perms" ELSE "done")
      /\ UNCHANGED <<job, src, meta, warned, header, trailer, asked, late>>
  BY DEF SetTimes
<1>2. dest # NoFile /\ ~late
  BY <1>1 DEF Inv, Opened
<1>3. dest \in Entry
  BY <1>2 DEF Inv, TypeOK, Entry
<1>4. at \in Int /\ mt \in Int
  <2>1. /\ meta.atime \in Int /\ meta.mtime \in Int
    BY TimesAreInts DEF Inv, TypeOK, File
  <2>2. from_unix(to_unix(meta.atime)) \in Int /\ from_unix(to_unix(meta.mtime)) \in Int
    BY <2>1, MetadataAssumption DEF from_unix, to_unix
  <2>3. "AccessTime" \in MetadataAttr /\ "ModificationTime" \in MetadataAttr
    BY DEF MetadataAttr
  <2>4. dest.atime \in Int /\ dest.mtime \in Int
    BY <1>3 DEF Entry
  <2> QED
    BY <1>1, <2>2, <2>3, <2>4, AskedFacts
<1>5. /\ dest' \in Entry /\ dest'.mode = dest.mode
      /\ dest'.atime = at /\ dest'.mtime = mt
  <2> HIDE DEF at, mt
  <2> QED
    BY <1>1, <1>3, <1>4 DEF Entry
<1>6. dest' # NoFile
  BY <1>5 DEF Entry, NoFile
<1>7. TypeOK'
  BY <1>1, <1>5 DEF Inv, TypeOK, Entry
<1>8. AsOpened'
  BY <1>1, SameMessages DEF Inv, AsOpened
<1>9. Opened'
  BY <1>1, <1>2, <1>6 DEF Opened
<1>10. Settled'
  <2>1. TimesAreSet'
    BY <1>1, <1>5, SameAsked DEF TimesAreSet
  <2> QED
    BY <1>1, <2>1, SameAsked DEF Inv, Settled
<1> QED
  BY <1>2, <1>5, <1>7, <1>8, <1>9, <1>10 DEF Inv

\* The mode comes last, only for -p, and is the source's.
LEMMA SetPermissionsKeeps ==
  ASSUME Inv, SetPermissions
  PROVE  /\ Inv' /\ dest # NoFile
         /\ job.preserve /\ trailer.sent /\ dest'.mode = meta.mode \cap Perm
<1>1. /\ pc = "perms" /\ pc' = "done"
      /\ dest' = [dest EXCEPT !.mode = Asked("ModeBits") \cap Perm]
      /\ UNCHANGED <<job, src, meta, warned, header, trailer, asked, late>>
  BY DEF SetPermissions
<1>2. dest # NoFile /\ ~late /\ Has("ModeBits") /\ trailer.sent
  BY <1>1 DEF Inv, Opened, Settled, AsOpened
<1>3. dest \in Entry
  BY <1>2 DEF Inv, TypeOK, Entry
<1>4. job.preserve /\ Asked("ModeBits") \cap Perm = meta.mode \cap Perm
  <2>1. "ModeBits" \in MetadataAttr
    BY DEF MetadataAttr
  <2>2. job.preserve /\ Asked("ModeBits") = mode(meta)
    BY <1>1, <1>2, <2>1, AskedFacts
  <2> QED
    BY <2>2 DEF mode
<1> DEFINE m == Asked("ModeBits") \cap Perm
<1>5. m \in Modes
  BY DEF Modes
<1>6. /\ dest' \in Entry /\ dest'.mode = m
      /\ dest'.atime = dest.atime /\ dest'.mtime = dest.mtime
  <2> HIDE DEF m
  <2> QED
    BY <1>1, <1>3, <1>5 DEF Entry, m
<1>7. dest' # NoFile
  BY <1>6 DEF Entry, NoFile
<1>8. TypeOK'
  BY <1>1, <1>6 DEF Inv, TypeOK, Entry
<1>9. AsOpened'
  BY <1>1, SameMessages DEF Inv, AsOpened
<1>10. Opened'
  BY <1>1, <1>2, <1>7 DEF Opened
<1>11. Settled'
  <2>1. TimesAreSet'
    BY <1>1, <1>6, SameAsked DEF Inv, Settled, TimesAreSet
  <2>2. dest'.mode = Asked("ModeBits")' \cap Perm
    BY <1>1, <1>6, SameAsked
  <2> QED
    BY <1>1, <2>1, <2>2 DEF Inv, Settled
<1> QED
  BY <1>2, <1>4, <1>6, <1>8, <1>9, <1>10, <1>11 DEF Inv

\* A step of nobody changes nothing.
LEMMA Stutters == Inv /\ UNCHANGED vars => Inv'
<1> SUFFICES ASSUME Inv, UNCHANGED vars PROVE Inv'
  OBVIOUS
<1>1. UNCHANGED <<job, src, meta, warned, header, trailer, dest, asked, late, pc>>
  BY DEF vars
<1>2. TypeOK'
  BY <1>1 DEF Inv, TypeOK
<1>3. AsOpened'
  BY <1>1, SameMessages DEF Inv, AsOpened
<1>4. Opened' /\ Settled'
  BY <1>1, SameAsked DEF Inv, Opened, Settled, TimesAreSet
<1> QED
  BY <1>2, <1>3, <1>4 DEF Inv

\* Each step keeps the invariant, and what it may do to the mode of the file.
LEMMA EachStep ==
  ASSUME Inv, [Next]_vars
  PROVE  /\ Inv'
         /\ dest = NoFile /\ dest' # NoFile /\ job.level >= 2 =>
              dest'.mode = (meta.mode \cap Perm) \ job.umask
         /\ dest # NoFile /\ dest'.mode # dest.mode =>
              job.preserve /\ trailer.sent /\ dest'.mode = meta.mode \cap Perm
<1>1. CASE Warn
  BY <1>1, WarnKeeps DEF Warn
<1>2. CASE Touch \/ SendHeader \/ SendTrailer
  BY <1>2, SenderKeeps DEF Touch, SendHeader, SendTrailer
<1>3. CASE create_or_truncate
  BY <1>3, CreateKeeps DEF GET2_PUT2
<1>4. CASE CannotOpen \/ CopyFails \/ CannotUpdate
  <2>1. pc # "warn" /\ Fail
    BY <1>4 DEF CannotOpen, CopyFails, CannotUpdate
  <2> QED
    BY <2>1, FailKeeps DEF Fail
<1>5. CASE CopyData
  BY <1>5, CopyDataKeeps DEF CopyData
<1>6. CASE WriteHappens
  BY <1>6, WriteKeeps
<1>7. CASE ReceiveTrailer
  BY <1>7, ReceiveTrailerKeeps DEF ReceiveTrailer
<1>8. CASE Flush
  BY <1>8, FlushKeeps DEF Flush
<1>9. CASE SetTimes
  BY <1>9, SetTimesKeeps
<1>10. CASE SetPermissions
  BY <1>10, SetPermissionsKeeps
<1>11. CASE UNCHANGED vars
  BY <1>11, Stutters DEF vars
<1> QED
  BY <1>1, <1>2, <1>3, <1>4, <1>5, <1>6, <1>7, <1>8, <1>9, <1>10, <1>11 DEF Next

-----------------------------------------------------------------------------
(* What module FileMetadata promises.                                      *)

\* In every state the messages and the file are as Inv describes.
THEOREM Invariance == Spec => []Inv
<1>1. Inv /\ [Next]_vars => Inv'
  BY EachStep
<1> QED
  BY <1>1, Initially, PTL DEF Spec

\* Every variable keeps its type (file_ext.rs, metadata_ext.rs).
THEOREM TypeCorrect == Spec => []TypeOK
BY Invariance, PTL DEF Inv

\* A copy that succeeds has what -p promises, or the user was warned.
THEOREM PreservedAlways == Spec => []PreservedOrWarned
<1>1. Inv => PreservedOrWarned
  <2> SUFFICES ASSUME Inv, pc = "done", job.preserve, ~warned
               PROVE  /\ ~late
                      /\ dest.mode = meta.mode \cap Perm
                      /\ dest.atime = Told(meta.atime) /\ dest.mtime = Told(meta.mtime)
    BY DEF PreservedOrWarned
  <2>1. job.level >= GET2_PUT2
    BY DEF Inv, Settled, PRESERVE, GET2_PUT2
  <2>2. MetadataAttr = {"ModeBits", "AccessTime", "ModificationTime"}
    BY DEF MetadataAttr
  <2>3. /\ Has("ModeBits") /\ Has("AccessTime") /\ Has("ModificationTime")
        /\ Asked("ModeBits") = mode(meta)
        /\ Asked("AccessTime") = to_unix(meta.atime)
        /\ Asked("ModificationTime") = to_unix(meta.mtime)
    BY <2>1, <2>2, AskedFacts
  <2>4. meta.atime \in Int /\ meta.mtime \in Int
    BY TimesAreInts DEF Inv, TypeOK, File
  <2>5. dest.atime = Told(meta.atime) /\ dest.mtime = Told(meta.mtime)
    BY <2>3, <2>4, TimesTravel DEF Inv, Settled, TimesAreSet
  <2>6. dest.mode = mode(meta) \cap Perm
    BY <2>3 DEF Inv, Settled
  <2>7. ~late
    BY DEF Inv, Opened
  <2> QED
    BY <2>5, <2>6, <2>7 DEF mode
<1> QED
  BY <1>1, Invariance, PTL

\* A file that a copy creates never lets anybody do more than it should.
THEOREM WiderNever == Spec => NeverWider
<1>1. Inv /\ [Next]_vars =>
        [dest = NoFile /\ dest' # NoFile /\ job.level >= 2 =>
           dest'.mode \subseteq (meta.mode \cap Perm) \ job.umask]_dest
  BY EachStep
<1> QED
  BY <1>1, Invariance, PTL DEF Spec, NeverWider

\* A file that is there changes its mode only for -p.
THEOREM ModeIsKept == Spec => ModeKept
<1>1. Inv /\ [Next]_vars =>
        [dest # NoFile /\ dest'.mode # dest.mode =>
           job.preserve /\ trailer.sent /\ dest'.mode = meta.mode \cap Perm]_dest
  BY EachStep
<1> QED
  BY <1>1, Invariance, PTL DEF Spec, ModeKept

-----------------------------------------------------------------------------
(* Meter: sums.                                                            *)

\* What holds of 0, and of every number after one it holds of, holds of all.
LEMMA NumbersFrom0 ==
  ASSUME NEW S, 0 \in S, \A n \in Nat : n \in S => n + 1 \in S
  PROVE  Nat \subseteq S
<1> DEFINE T == Nat \ S
           R == {ss \in Nat \X Nat : ss[1] < ss[2]}
<1>1. SUFFICES ASSUME T # {}
               PROVE  FALSE
  OBVIOUS
<1>2. PICK x \in T : \A y \in T : <<y, x>> \notin R
  <2>1. IsWellFoundedOn(R, Nat)
    BY NatLessThanWellFounded DEF OpToRel
  <2> HIDE DEF R
  <2> QED
    BY <1>1, <2>1, WFMin
<1>3. x \in Nat /\ x # 0 /\ x - 1 \in Nat
  BY <1>2
<1>4. x - 1 \in T
  BY <1>3
<1>5. <<x - 1, x>> \in R
  BY <1>3
<1> QED
  BY <1>2, <1>4, <1>5

\* The partial sums of a sequence.
PartialSums(s, n, f) ==
  f \in [0..n -> Nat] /\ f[0] = 0 /\ \A i \in 1..n : f[i] = f[i - 1] + s[i]

\* There are partial sums ...
LEMMA SumsExist ==
  ASSUME NEW s \in Seq(Nat)
  PROVE  \E f : PartialSums(s, Len(s), f)
<1> DEFINE S == {n \in Nat : n <= Len(s) => \E f : PartialSums(s, n, f)}
<1>1. 0 \in S
  <2>1. PartialSums(s, 0, [i \in 0..0 |-> 0])
    BY DEF PartialSums
  <2> QED
    BY <2>1
<1>2. ASSUME NEW n \in Nat, n \in S
      PROVE  n + 1 \in S
  <2>1. SUFFICES ASSUME n + 1 <= Len(s)
                 PROVE  \E f : PartialSums(s, n + 1, f)
    OBVIOUS
  <2>2. PICK f : PartialSums(s, n, f)
    BY <1>2, <2>1
  <2> DEFINE g == [i \in 0..n + 1 |-> IF i = n + 1 THEN f[n] + s[n + 1] ELSE f[i]]
  <2>3. f \in [0..n -> Nat] /\ s[n + 1] \in Nat
    BY <2>1, <2>2 DEF PartialSums
  <2>4. g \in [0..n + 1 -> Nat]
    BY <2>3
  <2>5. g[0] = 0
    BY <2>2 DEF PartialSums
  <2>6. ASSUME NEW i \in 1..n + 1
        PROVE  g[i] = g[i - 1] + s[i]
    <3>1. CASE i = n + 1
      BY <3>1
    <3>2. CASE i # n + 1
      <4>1. i \in 1..n /\ i - 1 \in 0..n
        BY <3>2
      <4> QED
        BY <2>2, <4>1 DEF PartialSums
    <3> QED
      BY <3>1, <3>2
  <2>7. PartialSums(s, n + 1, g)
    BY <2>4, <2>5, <2>6 DEF PartialSums
  <2> QED
    BY <2>7
<1>3. Nat \subseteq S
  <2> HIDE DEF S
  <2> QED
    BY <1>1, <1>2, NumbersFrom0
<1> QED
  BY <1>3

\* ... and the recursive definition is of such.
LEMMA SumIsPartialSum ==
  ASSUME NEW s \in Seq(Nat)
  PROVE  \E f : PartialSums(s, Len(s), f) /\ SumOf(s) = f[Len(s)]
<1> DEFINE Upto(f) == f = [i \in 0..Len(s) |-> IF i = 0 THEN 0 ELSE f[i - 1] + s[i]]
           up == CHOOSE f : Upto(f)
<1>1. SumOf(s) = up[Len(s)]
  BY DEF SumOf
<1>2. PICK f : PartialSums(s, Len(s), f)
  BY SumsExist
<1>3. Upto(f)
  <2> DEFINE g == [i \in 0..Len(s) |-> IF i = 0 THEN 0 ELSE f[i - 1] + s[i]]
  <2>1. ASSUME NEW i \in 0..Len(s)
        PROVE  f[i] = g[i]
    <3>1. CASE i = 0
      BY <1>2, <3>1 DEF PartialSums
    <3>2. CASE i # 0
      <4>1. i \in 1..Len(s)
        BY <3>2
      <4> QED
        BY <1>2, <3>2, <4>1 DEF PartialSums
    <3> QED
      BY <3>1, <3>2
  <2>2. f = [i \in 0..Len(s) |-> f[i]]
    BY <1>2 DEF PartialSums
  <2> QED
    BY <2>1, <2>2
<1>4. Upto(up)
  <2> HIDE DEF Upto
  <2> QED
    BY <1>3
<1>5. PartialSums(s, Len(s), up)
  <2> HIDE DEF up
  <2>1. /\ DOMAIN up = 0..Len(s) /\ up = [i \in 0..Len(s) |-> up[i]]
        /\ \A i \in 0..Len(s) : up[i] = IF i = 0 THEN 0 ELSE up[i - 1] + s[i]
    BY <1>4
  <2>0. Len(s) \in Nat
    OBVIOUS
  <2> DEFINE S == {n \in Nat : n <= Len(s) => up[n] \in Nat}
  <2>2. 0 \in S
    BY <2>1
  <2>3. ASSUME NEW n \in Nat, n \in S
        PROVE  n + 1 \in S
    <3>1. SUFFICES ASSUME n + 1 <= Len(s)
                   PROVE  up[n + 1] \in Nat
      OBVIOUS
    <3>2. up[n] \in Nat /\ s[n + 1] \in Nat
      BY <2>3, <3>1
    <3>3. up[n + 1] = up[n] + s[n + 1]
      <4>1. Len(s) \in Nat
        OBVIOUS
      <4>2. n + 1 \in 0..Len(s) /\ n + 1 # 0 /\ (n + 1) - 1 = n
        BY <3>1, <4>1
      <4> QED
        BY <2>1, <4>2
    <3> QED
      BY <3>2, <3>3
  <2>4. Nat \subseteq S
    <3> HIDE DEF S
    <3> QED
      BY <2>2, <2>3, NumbersFrom0
  <2>5. \A i \in 0..Len(s) : up[i] \in Nat
    BY <2>4
  <2>6. up \in [0..Len(s) -> Nat]
    BY <2>1, <2>5
  <2>7. ASSUME NEW i \in 1..Len(s)
        PROVE  up[i] = up[i - 1] + s[i]
    <3>1. i \in 0..Len(s) /\ i # 0
      BY <2>0
    <3> QED
      BY <2>1, <3>1
  <2>8. up[0] = 0
    BY <2>0, <2>1
  <2> QED
    BY <2>6, <2>7, <2>8 DEF PartialSums
<1> QED
  BY <1>1, <1>5

\* Of one sequence there is one sum, and one more file adds its size.
LEMMA SumAgrees ==
  ASSUME NEW s \in Seq(Nat), NEW t \in Seq(Nat), NEW f, NEW g,
         Len(s) <= Len(t), \A i \in 1..Len(s) : s[i] = t[i],
         PartialSums(s, Len(s), f), PartialSums(t, Len(t), g)
  PROVE  f[Len(s)] = g[Len(s)]
<1> DEFINE S == {n \in Nat : n <= Len(s) => f[n] = g[n]}
<1>1. 0 \in S
  BY DEF PartialSums
<1>2. ASSUME NEW n \in Nat, n \in S
      PROVE  n + 1 \in S
  <2>1. SUFFICES ASSUME n + 1 <= Len(s)
                 PROVE  f[n + 1] = g[n + 1]
    OBVIOUS
  <2>2. f[n] = g[n] /\ s[n + 1] = t[n + 1]
    BY <1>2, <2>1
  <2>3. n + 1 \in 1..Len(s) /\ n + 1 \in 1..Len(t) /\ (n + 1) - 1 = n
    BY <2>1
  <2> QED
    BY <2>2, <2>3 DEF PartialSums
<1>3. Nat \subseteq S
  <2> HIDE DEF S
  <2> QED
    BY <1>1, <1>2, NumbersFrom0
<1> QED
  BY <1>3

\* What SumOf returns: 0 of no file, and of one file more, its size more.
LEMMA SumFacts ==
  /\ SumOf(<<>>) = 0
  /\ \A s \in Seq(Nat), n \in Nat : /\ SumOf(s) \in Nat
                                    /\ SumOf(Append(s, n)) = SumOf(s) + n
<1>1. SumOf(<<>>) = 0
  <2>1. PICK f : PartialSums(<<>>, Len(<<>>), f) /\ SumOf(<<>>) = f[Len(<<>>)]
    <3>1. <<>> \in Seq(Nat)
      OBVIOUS
    <3> QED
      BY <3>1, SumIsPartialSum
  <2> QED
    BY <2>1 DEF PartialSums
<1>2. ASSUME NEW s \in Seq(Nat), NEW n \in Nat
      PROVE  /\ SumOf(s) \in Nat
             /\ SumOf(Append(s, n)) = SumOf(s) + n
  <2> DEFINE t == Append(s, n)
  <2>1. /\ t \in Seq(Nat) /\ Len(t) = Len(s) + 1 /\ t[Len(t)] = n
        /\ \A i \in 1..Len(s) : s[i] = t[i]
    OBVIOUS
  <2>2. PICK f : PartialSums(s, Len(s), f) /\ SumOf(s) = f[Len(s)]
    BY SumIsPartialSum
  <2> HIDE DEF t
  <2>3. PICK g : PartialSums(t, Len(t), g) /\ SumOf(t) = g[Len(t)]
    BY <2>1, SumIsPartialSum
  <2>4. f[Len(s)] = g[Len(s)]
    <3>1. Len(s) <= Len(t)
      BY <2>1
    <3>2. PartialSums(s, Len(s), f) /\ PartialSums(t, Len(t), g)
      BY <2>2, <2>3
    <3>3. t \in Seq(Nat) /\ \A i \in 1..Len(s) : s[i] = t[i]
      BY <2>1
    <3> QED
      BY <3>1, <3>2, <3>3, SumAgrees
  <2>5. g[Len(t)] = g[Len(s)] + n
    <3>1. Len(t) \in 1..Len(t) /\ Len(t) - 1 = Len(s)
      BY <2>1
    <3> QED
      BY <2>1, <2>3, <3>1 DEF PartialSums
  <2>6. f[Len(s)] \in Nat
    BY <2>2 DEF PartialSums
  <2> QED
    BY <2>2, <2>3, <2>4, <2>5, <2>6 DEF t
<1> QED
  BY <1>1, <1>2

-----------------------------------------------------------------------------
(* Meter: the invariant.                                                   *)

WatchNames == {"Setup", "control_channel", "data_channel_setup", SHOW_TIME, "shutdown"}
Watch == [name : WatchNames, start : Nat, stop : Nat \cup {Running}]
Runner == [task : {"none", "asleep", "over"}, told : BOOLEAN, prev : Nat,
           peak : 0..MaxU64, slept : Nat, wall : Int]

\* What type each variable has.
MeterTypes ==
  /\ phase \in {"setup", "control", "data", "transfer", "shutdown", "closed", "end"}
  /\ dir \in {"put", "get"}
  /\ stage \in {"none", "moving", "stopping", "stopped"}
  /\ now \in 0..MaxTime /\ todo \in 0..NFiles
  /\ size \in Nat /\ bar \in 0 .. size + Header /\ sent \in Nat
  /\ meter \in Runner /\ meter.prev <= bar
  /\ stepped \in BOOLEAN
  /\ total \in [payload : Nat, peak : Nat] /\ moved \in Seq(Nat)

\* A file is on its way only in the transfer phase, all of it has passed the bar
\* when its meter is told to stop, and outside of that there is no meter.
InItsPhase ==
  /\ stage # "none" => phase = "transfer" /\ todo > 0
  /\ stage \in {"stopping", "stopped"} => bar = size + Header
  /\ NoMeterLeft

Intervals == [bytes : Nat, ticks : Nat]
Course == [since : Nat, from : Nat, samples : SUBSET Intervals, done : SUBSET Intervals]

\* A meter that samples knows where the bar was at the last sample and has slept since;
\* while nobody sets the clock that is also what it divides by, and its peak is
\* that of the intervals it has sampled.
HonestMeter ==
  /\ course \in Course
  /\ meter.task = "asleep" => /\ meter.prev = course.from
                              /\ course.since + meter.slept = now
  /\ stage = "none" => course.from = 0 /\ course.samples = {}
  /\ \A i \in course.samples \cup course.done : i.ticks >= Second
  /\ ~stepped => /\ meter.wall = meter.slept
                 /\ stage # "none" => FastestOf(meter.peak, course.samples)

\* The totals are those of the files that are done.
HonestTotals ==
  /\ total.payload = SumOf(moved)
  /\ sent >= total.payload + (IF stage = "none" THEN 0 ELSE bar)
  /\ ~stepped => FastestOf(total.peak, course.done)

\* A stopwatch stops when the next one starts, and the fourth is the transfer's.
Chained ==
  /\ watches \in Seq(Watch) /\ watches # <<>>
  /\ \A i \in 1..Len(watches) : /\ watches[i].start <= now
                                /\ watches[i].name = SHOW_TIME <=> i = 4
  /\ \A i \in 1..Len(watches) - 1 : /\ watches[i].stop = watches[i + 1].start
                                    /\ watches[i].start <= watches[i + 1].start
  /\ phase = "setup" => Len(watches) = 1
  /\ phase = "control" => Len(watches) = 2
  /\ phase = "data" => Len(watches) = 3
  /\ phase = "transfer" => Len(watches) = 4
  /\ phase \in {"shutdown", "closed"} => Len(watches) = 5

\* The report is of the state the run ended in.
Reported ==
  /\ report.said \in BOOLEAN
  /\ report.said => /\ phase = "end" /\ Len(watches) = 5
                    /\ \E c \in Conn : report = process_statistics(c)

MeterInv ==
  MeterTypes /\ InItsPhase /\ HonestMeter /\ HonestTotals /\ Chained /\ Reported

\* What the constants are.
LEMMA MeterConstants ==
  /\ NFiles \in Nat \ {0} /\ Second \in Nat \ {0} /\ MaxTime \in Nat \ {0}
  /\ MaxU64 \in Nat \ {0} /\ Header \in Nat
  /\ \A n \in Sizes : n \in Nat
BY MeterAssumption

\* It holds at the start.
LEMMA MeterInitInv == MeterInit => MeterInv
<1> SUFFICES ASSUME MeterInit
             PROVE  MeterInv
  OBVIOUS
<1>1. MeterTypes
  <2>1. NoMeter \in Runner /\ NoMeter.prev = 0
    <3>1. 0 \in 0..MaxU64
      BY MeterConstants
    <3> QED
      BY <3>1 DEF NoMeter, Runner
  <2>2. moved \in Seq(Nat)
    BY DEF MeterInit
  <2>3. now \in 0..MaxTime /\ todo \in 0..NFiles
    BY MeterConstants DEF MeterInit
  <2>4. size \in Nat /\ bar \in 0 .. size + Header /\ sent \in Nat
    BY MeterConstants DEF MeterInit
  <2>5. total \in [payload : Nat, peak : Nat]
    BY DEF MeterInit
  <2>6. meter \in Runner /\ meter.prev <= bar
    BY <2>1 DEF MeterInit
  <2>7. /\ phase \in {"setup", "control", "data", "transfer", "shutdown", "closed", "end"}
        /\ dir \in {"put", "get"}
        /\ stage \in {"none", "moving", "stopping", "stopped"}
        /\ stepped \in BOOLEAN
    BY DEF MeterInit
  <2> QED
    BY <2>2, <2>3, <2>4, <2>5, <2>6, <2>7 DEF MeterTypes
<1>2. InItsPhase
  BY DEF MeterInit, InItsPhase, NoMeterLeft, NoMeter
<1>3. HonestMeter
  BY MeterConstants DEF MeterInit, HonestMeter, NoMeter, Course
<1>4. HonestTotals
  BY SumFacts DEF MeterInit, HonestTotals, FastestOf
<1>5. Chained
  <2>1. watches = <<[name |-> "Setup", start |-> 0, stop |-> Running]>>
    BY DEF MeterInit
  <2>2. watches \in Seq(Watch) /\ Len(watches) = 1
    <3>1. [name |-> "Setup", start |-> 0, stop |-> Running] \in Watch
      BY DEF Watch, WatchNames
    <3> QED
      BY <2>1, <3>1
  <2>3. watches[1].start = 0 /\ watches[1].name = "Setup"
    BY <2>1
  <2> QED
    BY <2>2, <2>3 DEF MeterInit, Chained, SHOW_TIME
<1>6. Reported
  BY DEF MeterInit, Reported, NoReport
<1> QED
  BY <1>1, <1>2, <1>3, <1>4, <1>5, <1>6 DEF MeterInv

-----------------------------------------------------------------------------
(* Meter: every step keeps the invariant.                                  *)

\* A rate is a u64.
LEMMA RateTyped ==
  ASSUME NEW b \in Nat, NEW t \in Int
  PROVE  Rate(b, t) \in 0..MaxU64
<1>1. CASE t > 0
  <2> DEFINE q == (b * Second) \div t
  <2>1. b * Second \in Nat
    BY MeterConstants
  <2>2. q \in Nat
    BY <1>1, <2>1
  <2>3. Rate(b, t) = Capped(q)
    BY <1>1 DEF Rate
  <2> HIDE DEF q
  <2> QED
    BY <2>2, <2>3, MeterConstants DEF Capped
<1>2. CASE ~(t > 0)
  BY <1>2, MeterConstants DEF Rate
<1> QED
  BY <1>1, <1>2

\* The rate of an interval is a u64, and without any clock of its own the meter's.
LEMMA RateOfTyped ==
  ASSUME NEW i \in Intervals
  PROVE  /\ RateOf(i) \in 0..MaxU64
         /\ i.ticks > 0 => RateOf(i) = Rate(i.bytes, i.ticks)
<1>1. i.bytes \in Nat /\ i.ticks \in Nat
  BY DEF Intervals
<1>2. CASE i.ticks = 0
  BY <1>2, MeterConstants DEF RateOf
<1>3. CASE i.ticks > 0
  <2>1. RateOf(i) = Rate(i.bytes, i.ticks)
    BY <1>1, <1>3 DEF RateOf, Rate
  <2>2. Rate(i.bytes, i.ticks) \in 0..MaxU64
    <3>1. i.ticks \in Int
      BY <1>1
    <3> QED
      BY <1>1, <3>1, RateTyped
  <2> QED
    BY <2>1, <2>2
<1> QED
  BY <1>1, <1>2, <1>3

\* Of more intervals, the fastest is the faster of the fastest.
LEMMA FastestGrows ==
  ASSUME NEW a \in Nat, NEW b \in Nat, NEW S \in SUBSET Intervals,
         NEW T \in SUBSET Intervals, FastestOf(a, S), FastestOf(b, T)
  PROVE  FastestOf(Greater(a, b), S \cup T)
<1>1. \A i \in S \cup T : RateOf(i) \in Nat
  BY RateOfTyped, MeterConstants
<1>2. CASE a > b
  <2>1. Greater(a, b) = a
    BY <1>2 DEF Greater
  <2>2. \A i \in T : RateOf(i) <= a
    BY <1>1, <1>2 DEF FastestOf
  <2> QED
    BY <2>1, <2>2 DEF FastestOf
<1>3. CASE ~(a > b)
  <2>1. Greater(a, b) = b
    BY <1>3 DEF Greater
  <2>2. \A i \in S : RateOf(i) <= b
    BY <1>1, <1>3 DEF FastestOf
  <2> QED
    BY <2>1, <2>2 DEF FastestOf
<1> QED
  BY <1>2, <1>3

\* An interval alone.
LEMMA FastestOfOne ==
  ASSUME NEW i \in Intervals
  PROVE  FastestOf(RateOf(i), {i})
BY RateOfTyped, MeterConstants DEF FastestOf

\* A meter that has just been started.
LEMMA StartTyped ==
  /\ start \in Runner /\ start.prev = 0 /\ start.peak = 0
  /\ start.slept = 0 /\ start.wall = 0 /\ start.task = "asleep"
<1>1. 0 \in 0..MaxU64
  BY MeterConstants
<1>2. NoMeter \in Runner
  BY <1>1 DEF NoMeter, Runner
<1>3. start \in Runner /\ start.task = "asleep"
  BY <1>2 DEF start, Runner
<1>4. start.prev = 0 /\ start.peak = 0 /\ start.slept = 0 /\ start.wall = 0
  BY DEF start, NoMeter
<1> QED
  BY <1>3, <1>4

\* Types are kept.
LEMMA TypesKept == MeterInv /\ [MeterNext]_MeterVars => MeterTypes'
<1> SUFFICES ASSUME MeterInv, [MeterNext]_MeterVars
             PROVE  MeterTypes'
  OBVIOUS
<1> USE DEF MeterInv
<1>1. CASE Connect("setup", "control", "control_channel")
  BY <1>1 DEF Connect, MeterTypes, transfer
<1>2. CASE Connect("control", "data", "data_channel_setup")
  BY <1>2 DEF Connect, MeterTypes, transfer
<1>3. CASE Connect("data", "transfer", SHOW_TIME)
  BY <1>3 DEF Connect, MeterTypes, transfer
<1>4. CASE GiveUp
  BY <1>4 DEF GiveUp, MeterTypes, transfer
<1>5. CASE StartMeter
  <2>1. size' \in Nat /\ bar' = 0 /\ bar' \in 0 .. size' + Header
    BY <1>5, MeterConstants DEF StartMeter
  <2>2. meter' \in Runner /\ meter'.prev = 0
    BY <1>5, StartTyped DEF StartMeter
  <2> QED
    BY <1>5, <2>1, <2>2 DEF StartMeter, MeterTypes
<1>6. CASE Move
  <2>1. PICK to \in bar + 1 .. size + Header : bar' = to /\ sent' = sent + (to - bar)
    BY <1>6 DEF Move
  <2>2. /\ bar' \in 0 .. size + Header /\ bar < bar' /\ sent' \in Nat
        /\ bar \in Nat /\ meter.prev \in Nat /\ meter.prev <= bar
    BY <2>1, MeterConstants DEF MeterTypes, Runner
  <2>3. meter.prev <= bar'
    BY <2>2
  <2> QED
    BY <1>6, <2>2, <2>3 DEF Move, MeterTypes
<1>7. CASE StopMeter
  <2>1. meter' \in Runner /\ meter'.prev = meter.prev
    BY <1>7 DEF StopMeter, MeterTypes, Runner
  <2> QED
    BY <1>7, <2>1 DEF StopMeter, MeterTypes
<1>8. CASE MeterStopped
  BY <1>8 DEF MeterStopped, MeterTypes, transfer
<1>9. CASE JobDone
  <2>1. total' \in [payload : Nat, peak : Nat]
    BY <1>9 DEF JobDone, MeterTypes, Runner, Greater
  <2>2. moved' \in Seq(Nat)
    BY <1>9 DEF JobDone, MeterTypes
  <2>3. todo' \in 0..NFiles
    BY <1>9, MeterConstants DEF JobDone, MeterTypes, InItsPhase
  <2> QED
    BY <1>9, <2>1, <2>2, <2>3 DEF JobDone, MeterTypes
<1>10. CASE JobFails
  <2>1. meter' \in Runner /\ meter'.prev = meter.prev
    BY <1>10 DEF JobFails, drop, MeterTypes, Runner
  <2>2. todo' \in 0..NFiles
    BY <1>10, MeterConstants DEF JobFails
  <2> QED
    BY <1>10, <2>1, <2>2 DEF JobFails, MeterTypes
<1>11. CASE Sample
  <2>1. bar \in Nat /\ bar - meter.prev \in Nat
    BY MeterConstants DEF MeterTypes, Runner
  <2>2. Rate(bar - meter.prev, meter.wall) \in 0..MaxU64
    BY <2>1, RateTyped DEF MeterTypes, Runner
  <2> DEFINE peak == Greater(meter.peak, Rate(bar - meter.prev, meter.wall))
  <2>5. peak \in 0..MaxU64
    BY <2>2 DEF MeterTypes, Runner, Greater
  <2>6. meter' = [meter EXCEPT !.peak = peak, !.prev = bar, !.slept = 0, !.wall = 0]
    BY <1>11 DEF Sample, update
  <2> HIDE DEF peak
  <2>7. meter \in Runner /\ bar \in Nat
    BY <2>1 DEF MeterTypes
  <2>3. meter' \in Runner /\ meter'.prev = bar
    <3>1. PICK s \in Nat, w \in Int : s = 0 /\ w = 0
      OBVIOUS
    <3>2. meter' = [meter EXCEPT !.peak = peak, !.prev = bar, !.slept = s, !.wall = w]
      BY <2>6, <3>1
    <3> QED
      BY <2>5, <2>7, <3>2 DEF Runner
  <2>4. meter'.prev <= bar'
    BY <1>11, <2>1, <2>3 DEF Sample, transfer
  <2> QED
    BY <1>11, <2>3, <2>4 DEF Sample, MeterTypes, transfer
<1>12. CASE TaskStops
  <2>1. meter' \in Runner /\ meter'.prev = meter.prev
    BY <1>12 DEF TaskStops, Over, MeterTypes, Runner
  <2> QED
    BY <1>12, <2>1 DEF TaskStops, MeterTypes, transfer
<1>13. CASE Tick
  <2>1. meter' \in Runner /\ meter'.prev = meter.prev
    <3>1. CASE meter.task = "asleep"
      <4>1. meter' = [meter EXCEPT !.slept = meter.slept + 1, !.wall = meter.wall + 1]
        BY <1>13, <3>1 DEF Tick
      <4>2. meter.slept + 1 \in Nat /\ meter.wall + 1 \in Int
        BY DEF MeterTypes, Runner
      <4> QED
        BY <4>1, <4>2 DEF MeterTypes, Runner
    <3>2. CASE meter.task # "asleep"
      BY <1>13, <3>2 DEF Tick, MeterTypes
    <3> QED
      BY <3>1, <3>2
  <2>2. now' \in 0..MaxTime
    <3>1. now < MaxTime /\ now' = now + 1 /\ now \in 0..MaxTime
      BY <1>13, MeterConstants DEF Tick, MeterTypes
    <3> QED
      BY <3>1, MeterConstants
  <2> QED
    BY <1>13, <2>1, <2>2 DEF Tick, MeterTypes, transfer
<1>14. CASE ClockStep
  <2>1. PICK wall \in {-1, 0} : meter' = [meter EXCEPT !.wall = wall]
    BY <1>14 DEF ClockStep
  <2>2. wall \in Int /\ meter \in Runner
    BY DEF MeterTypes
  <2>3. meter' \in Runner /\ meter'.prev = meter.prev
    BY <2>1, <2>2 DEF Runner
  <2> QED
    BY <1>14, <2>3 DEF ClockStep, MeterTypes, transfer
<1>15. CASE Closedown
  BY <1>15 DEF Closedown, MeterTypes, transfer
<1>16. CASE ClosedDown
  BY <1>16 DEF ClosedDown, MeterTypes, transfer
<1>17. CASE Report
  BY <1>17 DEF Report, MeterTypes, transfer
<1>18. CASE Ended \/ UNCHANGED MeterVars
  BY <1>18 DEF Ended, MeterVars, MeterTypes, transfer
<1>19. CASE JobRefused
  BY <1>19, MeterConstants DEF JobRefused, MeterTypes, transfer
<1> QED
  BY <1>1, <1>2, <1>3, <1>4, <1>5, <1>6, <1>7, <1>8, <1>9, <1>10, <1>11,
     <1>12, <1>13, <1>14, <1>15, <1>16, <1>17, <1>18, <1>19 DEF MeterNext

\* A meter goes with the file it belongs to.
LEMMA PhaseKept == MeterInv /\ [MeterNext]_MeterVars => InItsPhase'
<1> SUFFICES ASSUME MeterInv, [MeterNext]_MeterVars
             PROVE  InItsPhase'
  OBVIOUS
<1> USE DEF MeterInv
<1>1. CASE Connect("setup", "control", "control_channel")
  BY <1>1 DEF Connect, InItsPhase, NoMeterLeft, transfer
<1>2. CASE Connect("control", "data", "data_channel_setup")
  BY <1>2 DEF Connect, InItsPhase, NoMeterLeft, transfer
<1>3. CASE Connect("data", "transfer", SHOW_TIME)
  BY <1>3 DEF Connect, InItsPhase, NoMeterLeft, transfer
<1>4. CASE GiveUp
  BY <1>4 DEF GiveUp, InItsPhase, NoMeterLeft, transfer
<1>5. CASE StartMeter
  BY <1>5 DEF StartMeter, InItsPhase, NoMeterLeft
<1>6. CASE Move
  BY <1>6 DEF Move, InItsPhase, NoMeterLeft, transfer
<1>7. CASE StopMeter
  BY <1>7 DEF StopMeter, InItsPhase, NoMeterLeft
<1>8. CASE MeterStopped
  BY <1>8 DEF MeterStopped, InItsPhase, NoMeterLeft, transfer
<1>9. CASE JobDone
  BY <1>9 DEF JobDone, InItsPhase, NoMeterLeft, transfer
<1>10. CASE JobFails
  <2>1. meter'.task # "asleep"
    BY <1>10 DEF JobFails, drop, MeterTypes, Runner
  <2> QED
    BY <1>10, <2>1 DEF JobFails, InItsPhase, NoMeterLeft
<1>11. CASE Sample
  <2>1. meter'.task = meter.task
    BY <1>11 DEF Sample, update, MeterTypes, Runner
  <2> QED
    BY <1>11, <2>1 DEF Sample, InItsPhase, NoMeterLeft, transfer
<1>12. CASE TaskStops
  <2>1. meter'.task = "over"
    BY <1>12 DEF TaskStops, Over, MeterTypes, Runner
  <2> QED
    BY <1>12, <2>1 DEF TaskStops, InItsPhase, NoMeterLeft, transfer
<1>13. CASE Tick
  <2>1. meter'.task = meter.task
    BY <1>13 DEF Tick, MeterTypes, Runner
  <2> QED
    BY <1>13, <2>1 DEF Tick, InItsPhase, NoMeterLeft, transfer
<1>14. CASE ClockStep
  <2>1. meter'.task = meter.task
    BY <1>14 DEF ClockStep, MeterTypes, Runner
  <2> QED
    BY <1>14, <2>1 DEF ClockStep, InItsPhase, NoMeterLeft, transfer
<1>15. CASE Closedown
  BY <1>15 DEF Closedown, InItsPhase, NoMeterLeft, transfer
<1>16. CASE ClosedDown
  BY <1>16 DEF ClosedDown, InItsPhase, NoMeterLeft, transfer
<1>17. CASE Report
  BY <1>17 DEF Report, InItsPhase, NoMeterLeft, transfer
<1>18. CASE Ended \/ UNCHANGED MeterVars
  BY <1>18 DEF Ended, MeterVars, InItsPhase, NoMeterLeft, transfer
<1>19. CASE JobRefused
  BY <1>19, MeterConstants DEF JobRefused, InItsPhase, NoMeterLeft, transfer
<1> QED
  BY <1>1, <1>2, <1>3, <1>4, <1>5, <1>6, <1>7, <1>8, <1>9, <1>10, <1>11,
     <1>12, <1>13, <1>14, <1>15, <1>16, <1>17, <1>18, <1>19 DEF MeterNext

\* What the meter sees is what there is.
LEMMA HonestMeterKept == MeterInv /\ [MeterNext]_MeterVars => HonestMeter'
<1> SUFFICES ASSUME MeterInv, [MeterNext]_MeterVars
             PROVE  HonestMeter'
  OBVIOUS
<1> USE DEF MeterInv
<1>1. CASE Connect("setup", "control", "control_channel")
  BY <1>1 DEF Connect, HonestMeter, FastestOf, transfer
<1>2. CASE Connect("control", "data", "data_channel_setup")
  BY <1>2 DEF Connect, HonestMeter, FastestOf, transfer
<1>3. CASE Connect("data", "transfer", SHOW_TIME)
  BY <1>3 DEF Connect, HonestMeter, FastestOf, transfer
<1>4. CASE GiveUp
  BY <1>4 DEF GiveUp, HonestMeter, FastestOf, transfer
<1>5. CASE StartMeter
  <2>1. meter' = start
    BY <1>5 DEF StartMeter
  <2>2. /\ meter'.wall = 0 /\ meter'.slept = 0 /\ meter'.peak = 0 /\ meter'.prev = 0
    BY <2>1, StartTyped
  <2>3. now \in Nat /\ course \in Course /\ course.from = 0 /\ course.samples = {}
    BY <1>5, MeterConstants DEF StartMeter, HonestMeter, MeterTypes
  <2>4. course' \in Course
    BY <1>5, <2>3 DEF StartMeter, Course
  <2>5. /\ course'.since = now /\ course'.from = 0 /\ course'.samples = {}
        /\ course'.done = course.done
    BY <1>5, <2>3 DEF StartMeter, Course
  <2>6. FastestOf(0, {})
    BY DEF FastestOf
  <2>7. (now' = now) /\ (course'.since + meter'.slept = now)
    BY <1>5, <2>2, <2>3, <2>5 DEF StartMeter
  <2>8. \A i \in course'.samples \cup course'.done : i.ticks >= Second
    BY <2>3, <2>5 DEF HonestMeter
  <2>9. FastestOf(meter.peak, course.samples)'
    BY <2>2, <2>5 DEF FastestOf
  <2>10. stage' = "moving" /\ stepped' = stepped
    BY <1>5 DEF StartMeter
  <2> QED
    BY <2>2, <2>4, <2>5, <2>7, <2>8, <2>9, <2>10 DEF HonestMeter
<1>6. CASE Move
  BY <1>6 DEF Move, HonestMeter, FastestOf
<1>7. CASE StopMeter
  <2>1. /\ meter'.wall = meter.wall /\ meter'.slept = meter.slept /\ meter'.peak = meter.peak
        /\ meter'.prev = meter.prev /\ meter'.task = meter.task
    BY <1>7 DEF StopMeter, MeterTypes, Runner
  <2> QED
    BY <1>7, <2>1 DEF StopMeter, HonestMeter, FastestOf
<1>8. CASE MeterStopped
  BY <1>8 DEF MeterStopped, HonestMeter, FastestOf
<1>9. CASE JobDone
  <2>1. course \in Course
    BY DEF HonestMeter
  <2>2. course' = [since |-> 0, from |-> 0, samples |-> {},
                   done |-> course.done \cup course.samples]
    BY <1>9 DEF JobDone
  <2>3. course' \in Course
    BY <2>1, <2>2 DEF Course
  <2>4. \A i \in course'.samples \cup course'.done : i.ticks >= Second
    BY <2>2 DEF HonestMeter
  <2>5. meter' = meter /\ meter.task # "asleep"
    BY <1>9 DEF JobDone, InItsPhase, NoMeterLeft
  <2> QED
    BY <1>9, <2>2, <2>3, <2>4, <2>5 DEF JobDone, HonestMeter
<1>10. CASE JobFails
  <2>1. /\ meter'.wall = meter.wall /\ meter'.slept = meter.slept /\ meter'.peak = meter.peak
        /\ meter'.task # "asleep"
    BY <1>10 DEF JobFails, drop, MeterTypes, Runner
  <2>2. course \in Course
    BY DEF HonestMeter
  <2>3. /\ course' \in Course /\ course'.from = 0 /\ course'.samples = {}
        /\ course'.done = course.done
    BY <1>10, <2>2 DEF JobFails, Course
  <2>4. \A i \in course'.samples \cup course'.done : i.ticks >= Second
    BY <2>3 DEF HonestMeter
  <2> QED
    BY <1>10, <2>1, <2>3, <2>4 DEF JobFails, HonestMeter
<1>11. CASE Sample
  <2> DEFINE interval == [bytes |-> bar - course.from, ticks |-> now - course.since]
             rate == Rate(bar - meter.prev, meter.wall)
             peak == Greater(meter.peak, rate)
  <2>1. /\ course \in Course /\ meter.prev = course.from /\ course.since + meter.slept = now
        /\ meter.task = "asleep" /\ meter.slept >= Second
    BY <1>11 DEF Sample, HonestMeter
  <2>2. /\ bar \in Nat /\ now \in Nat /\ meter.prev \in Nat /\ meter.prev <= bar
        /\ meter.slept \in Nat /\ course.since \in Nat /\ meter.peak \in Nat
    BY <2>1, MeterConstants DEF MeterTypes, Runner, Course
  <2>3. /\ interval \in Intervals /\ interval.ticks = meter.slept
        /\ interval.bytes = bar - meter.prev /\ interval.ticks > 0
    BY <2>1, <2>2, MeterConstants DEF Intervals
  <2>4. course' = [course EXCEPT !.since = now, !.from = bar,
                                 !.samples = course.samples \cup {interval}]
    BY <1>11, <2>1 DEF Sample, Course
  <2>5. meter' = [meter EXCEPT !.peak = peak, !.prev = bar, !.slept = 0, !.wall = 0]
    BY <1>11 DEF Sample, update
  <2> HIDE DEF interval, peak
  <2>6. /\ meter'.peak = peak /\ meter'.slept = 0 /\ meter'.wall = 0 /\ meter'.prev = bar
    BY <2>5 DEF MeterTypes, Runner
  <2>7. /\ course'.since = now /\ course'.from = bar /\ course'.done = course.done
        /\ course'.samples = course.samples \cup {interval}
    BY <2>1, <2>4 DEF Course
  <2>8. course' \in Course
    <3>1. /\ course.samples \cup {interval} \in SUBSET Intervals
      BY <2>1, <2>3 DEF Course
    <3> QED
      BY <2>1, <2>2, <2>4, <3>1 DEF Course
  <2>9. \A i \in course'.samples \cup course'.done : i.ticks >= Second
    BY <2>1, <2>3, <2>7 DEF HonestMeter
  <2>10. ASSUME ~stepped
         PROVE  FastestOf(peak, course.samples \cup {interval})
    <3>1. rate = RateOf(interval)
      <4>1. meter.wall = meter.slept
        BY <2>10 DEF HonestMeter
      <4>2. RateOf(interval) = Rate(interval.bytes, interval.ticks)
        BY <2>3, RateOfTyped
      <4> QED
        BY <2>3, <4>1, <4>2
    <3>2. FastestOf(meter.peak, course.samples)
      BY <2>1, <2>10 DEF HonestMeter, InItsPhase, NoMeterLeft
    <3>3. FastestOf(rate, {interval}) /\ rate \in Nat
      BY <2>3, <3>1, FastestOfOne, RateOfTyped, MeterConstants
    <3>4. course.samples \in SUBSET Intervals /\ {interval} \in SUBSET Intervals
      BY <2>1, <2>3 DEF Course
    <3> HIDE DEF rate
    <3> QED
      BY <2>2, <3>2, <3>3, <3>4, FastestGrows DEF peak
  <2>11. stepped' = stepped /\ stage' = stage /\ now' = now /\ stage # "none"
    BY <1>11, <2>1 DEF Sample, transfer, InItsPhase, NoMeterLeft
  <2>12. ~stepped' => FastestOf(meter.peak, course.samples)'
    BY <2>6, <2>7, <2>10, <2>11 DEF FastestOf
  <2>13. course'.since + meter'.slept = now'
    BY <2>2, <2>6, <2>7, <2>11
  <2> QED
    BY <2>6, <2>7, <2>8, <2>9, <2>11, <2>12, <2>13 DEF HonestMeter
<1>12. CASE TaskStops
  <2>1. /\ meter'.wall = meter.wall /\ meter'.slept = meter.slept /\ meter'.peak = meter.peak
        /\ meter'.task = "over"
    BY <1>12 DEF TaskStops, Over, MeterTypes, Runner
  <2> QED
    BY <1>12, <2>1 DEF TaskStops, HonestMeter, FastestOf, transfer
<1>13. CASE Tick
  <2>1. CASE meter.task = "asleep"
    <3>1. /\ meter'.slept = meter.slept + 1 /\ meter'.wall = meter.wall + 1
          /\ meter'.peak = meter.peak /\ meter'.prev = meter.prev
      BY <1>13, <2>1 DEF Tick, MeterTypes, Runner
    <3>2. course' = course /\ now' = now + 1 /\ stage' = stage /\ stepped' = stepped
      BY <1>13 DEF Tick, transfer
    <3>3. /\ course.since \in Nat /\ meter.slept \in Nat /\ now \in Nat
          /\ course.since + meter.slept = now /\ meter.prev = course.from
      BY <2>1, MeterConstants DEF HonestMeter, Course, MeterTypes, Runner
    <3>4. course'.since + meter'.slept = now' /\ meter'.prev = course'.from
      BY <3>1, <3>2, <3>3
    <3>5. FastestOf(meter.peak, course.samples) => FastestOf(meter.peak, course.samples)'
      BY <3>1, <3>2 DEF FastestOf
    <3> QED
      BY <3>1, <3>2, <3>4, <3>5 DEF HonestMeter
  <2>2. CASE meter.task # "asleep"
    BY <1>13, <2>2 DEF Tick, HonestMeter, FastestOf, transfer
  <2> QED
    BY <2>1, <2>2
<1>14. CASE ClockStep
  <2>1. /\ meter'.slept = meter.slept /\ meter'.prev = meter.prev
    BY <1>14 DEF ClockStep, MeterTypes, Runner
  <2>2. stepped' = TRUE
    BY <1>14 DEF ClockStep
  <2> QED
    BY <1>14, <2>1, <2>2 DEF ClockStep, HonestMeter, transfer
<1>15. CASE Closedown
  BY <1>15 DEF Closedown, HonestMeter, FastestOf, transfer
<1>16. CASE ClosedDown
  BY <1>16 DEF ClosedDown, HonestMeter, FastestOf, transfer
<1>17. CASE Report
  BY <1>17 DEF Report, HonestMeter, FastestOf, transfer
<1>18. CASE Ended \/ UNCHANGED MeterVars
  BY <1>18 DEF Ended, MeterVars, HonestMeter, FastestOf, transfer
<1>19. CASE JobRefused
  BY <1>19, MeterConstants DEF JobRefused, HonestMeter, FastestOf, transfer
<1> QED
  BY <1>1, <1>2, <1>3, <1>4, <1>5, <1>6, <1>7, <1>8, <1>9, <1>10, <1>11,
     <1>12, <1>13, <1>14, <1>15, <1>16, <1>17, <1>18, <1>19 DEF MeterNext

\* A file that is done is added to the totals, and no other.
LEMMA TotalsKept == MeterInv /\ [MeterNext]_MeterVars => HonestTotals'
<1> SUFFICES ASSUME MeterInv, [MeterNext]_MeterVars
             PROVE  HonestTotals'
  OBVIOUS
<1> USE DEF MeterInv
<1>1. CASE Connect("setup", "control", "control_channel")
  BY <1>1 DEF Connect, HonestTotals, FastestOf, transfer
<1>2. CASE Connect("control", "data", "data_channel_setup")
  BY <1>2 DEF Connect, HonestTotals, FastestOf, transfer
<1>3. CASE Connect("data", "transfer", SHOW_TIME)
  BY <1>3 DEF Connect, HonestTotals, FastestOf, transfer
<1>4. CASE GiveUp
  BY <1>4 DEF GiveUp, HonestTotals, FastestOf, transfer
<1>5. CASE StartMeter
  <2>1. course'.done = course.done
    BY <1>5 DEF StartMeter, HonestMeter, Course
  <2> QED
    BY <1>5, <2>1, MeterConstants DEF StartMeter, HonestTotals, FastestOf, MeterTypes
<1>6. CASE Move
  <2>1. PICK to \in bar + 1 .. size + Header : bar' = to /\ sent' = sent + (to - bar)
    BY <1>6 DEF Move
  <2>2. bar \in Nat /\ to \in Nat /\ sent \in Nat /\ total.payload \in Nat
    BY <2>1, MeterConstants DEF MeterTypes
  <2>3. sent' >= total.payload + bar'
    BY <1>6, <2>1, <2>2 DEF Move, HonestTotals
  <2> QED
    BY <1>6, <2>3 DEF Move, HonestTotals, FastestOf
<1>7. CASE StopMeter
  BY <1>7 DEF StopMeter, HonestTotals, FastestOf, transfer
<1>8. CASE MeterStopped
  BY <1>8 DEF MeterStopped, HonestTotals, FastestOf, transfer
<1>9. CASE JobDone
  <2>1. /\ bar = size + Header /\ size \in Nat /\ sent \in Nat /\ bar \in Nat
        /\ total.payload \in Nat /\ total.peak \in Nat /\ meter.peak \in Nat
    BY <1>9, MeterConstants DEF JobDone, InItsPhase, MeterTypes, Runner
  <2>2. total'.payload = SumOf(moved')
    BY <1>9, <2>1, SumFacts DEF JobDone, HonestTotals, MeterTypes
  <2>3. sent' >= total'.payload + 0
    BY <1>9, <2>1, MeterConstants DEF JobDone, HonestTotals
  <2>4. ASSUME ~stepped'
        PROVE  FastestOf(total'.peak, course'.done)
    <3>1. FastestOf(meter.peak, course.samples) /\ FastestOf(total.peak, course.done)
      BY <1>9, <2>4 DEF JobDone, HonestMeter, HonestTotals
    <3>2. course.samples \in SUBSET Intervals /\ course.done \in SUBSET Intervals
      BY DEF HonestMeter, Course
    <3>3. FastestOf(Greater(total.peak, meter.peak), course.done \cup course.samples)
      BY <2>1, <3>1, <3>2, FastestGrows
    <3>4. /\ total'.peak = Greater(total.peak, meter.peak)
          /\ course'.done = course.done \cup course.samples
      BY <1>9 DEF JobDone
    <3> QED
      BY <3>3, <3>4
  <2>5. ~stepped' => FastestOf(total.peak, course.done)'
    BY <2>4 DEF FastestOf
  <2> QED
    BY <1>9, <2>2, <2>3, <2>5 DEF JobDone, HonestTotals
<1>10. CASE JobFails
  <2>1. course'.done = course.done
    BY <1>10 DEF JobFails, HonestMeter, Course
  <2> QED
    BY <1>10, <2>1, MeterConstants DEF JobFails, HonestTotals, FastestOf, MeterTypes
<1>11. CASE Sample
  <2>1. course'.done = course.done
    BY <1>11 DEF Sample, HonestMeter, Course
  <2> QED
    BY <1>11, <2>1 DEF Sample, HonestTotals, FastestOf, transfer
<1>12. CASE TaskStops
  BY <1>12 DEF TaskStops, HonestTotals, FastestOf, transfer
<1>13. CASE Tick
  BY <1>13 DEF Tick, HonestTotals, FastestOf, transfer
<1>14. CASE ClockStep
  BY <1>14 DEF ClockStep, HonestTotals, FastestOf, transfer
<1>15. CASE Closedown
  BY <1>15 DEF Closedown, HonestTotals, FastestOf, transfer
<1>16. CASE ClosedDown
  BY <1>16 DEF ClosedDown, HonestTotals, FastestOf, transfer
<1>17. CASE Report
  BY <1>17 DEF Report, HonestTotals, FastestOf, transfer
<1>18. CASE Ended \/ UNCHANGED MeterVars
  BY <1>18 DEF Ended, MeterVars, HonestTotals, FastestOf, transfer
<1>19. CASE JobRefused
  BY <1>19, MeterConstants DEF JobRefused, HonestTotals, FastestOf, transfer
<1> QED
  BY <1>1, <1>2, <1>3, <1>4, <1>5, <1>6, <1>7, <1>8, <1>9, <1>10, <1>11,
     <1>12, <1>13, <1>14, <1>15, <1>16, <1>17, <1>18, <1>19 DEF MeterNext

\* A chain with one stopwatch more.
LEMMA NextWatchFacts ==
  ASSUME NEW chain \in Seq(Watch), chain # <<>>, NEW name \in WatchNames, now \in Nat
  PROVE  LET longer == NextWatch(chain, name)
         IN  /\ longer \in Seq(Watch) /\ Len(longer) = Len(chain) + 1
             /\ \A i \in 1..Len(chain) - 1 : longer[i] = chain[i]
             /\ longer[Len(chain)].name = chain[Len(chain)].name
             /\ longer[Len(chain)].start = chain[Len(chain)].start
             /\ longer[Len(chain)].stop = now
             /\ longer[Len(chain) + 1].name = name
             /\ longer[Len(chain) + 1].start = now
<1> DEFINE n == Len(chain)
           stopped == [chain EXCEPT ![n].stop = now]
           fresh == [name |-> name, start |-> now, stop |-> Running]
<1>1. n \in Nat /\ n \in 1..n /\ chain[n] \in Watch
  OBVIOUS
<1>2. stopped \in Seq(Watch) /\ Len(stopped) = n
  <2>1. [chain[n] EXCEPT !.stop = now] \in Watch
    BY <1>1 DEF Watch
  <2> QED
    BY <1>1, <2>1
<1>3. fresh \in Watch
  BY DEF Watch
<1>4. NextWatch(chain, name) = Append(stopped, fresh)
  BY DEF NextWatch, StopWatches
<1>5. /\ \A i \in 1..n - 1 : stopped[i] = chain[i]
      /\ stopped[n].name = chain[n].name /\ stopped[n].start = chain[n].start
      /\ stopped[n].stop = now
  BY <1>1 DEF Watch
<1>6. /\ Append(stopped, fresh) \in Seq(Watch) /\ Len(Append(stopped, fresh)) = n + 1
      /\ \A i \in 1..n : Append(stopped, fresh)[i] = stopped[i]
      /\ Append(stopped, fresh)[n + 1] = fresh
  <2> HIDE DEF stopped, fresh
  <2> QED
    BY <1>2, <1>3
<1>7. \A i \in 1..n - 1 : i \in 1..n
  BY <1>1
<1>8. fresh.name = name /\ fresh.start = now
  OBVIOUS
<1> HIDE DEF stopped, fresh
<1> QED
  BY <1>1, <1>4, <1>5, <1>6, <1>7, <1>8

\* The chain goes on.
LEMMA ChainGrows ==
  ASSUME MeterInv, NEW name \in WatchNames, Len(watches) < 5,
         name = SHOW_TIME <=> Len(watches) = 3,
         watches' = NextWatch(watches, name), now' = now
  PROVE  /\ watches' \in Seq(Watch) /\ watches' # <<>>
         /\ Len(watches') = Len(watches) + 1
         /\ \A i \in 1..Len(watches') : /\ watches'[i].start <= now'
                                        /\ watches'[i].name = SHOW_TIME <=> i = 4
         /\ \A i \in 1..Len(watches') - 1 :
              /\ watches'[i].stop = watches'[i + 1].start
              /\ watches'[i].start <= watches'[i + 1].start
<1> DEFINE n == Len(watches)
<1>1. /\ watches \in Seq(Watch) /\ watches # <<>> /\ now \in Nat /\ n \in Nat /\ 1 <= n
      /\ \A i \in 1..n : /\ watches[i].start <= now
                         /\ watches[i].name = SHOW_TIME <=> i = 4
      /\ \A i \in 1..n - 1 : /\ watches[i].stop = watches[i + 1].start
                             /\ watches[i].start <= watches[i + 1].start
  BY MeterConstants DEF MeterInv, MeterTypes, Chained
<1>2. /\ watches' \in Seq(Watch) /\ Len(watches') = n + 1
      /\ \A i \in 1..n - 1 : watches'[i] = watches[i]
      /\ watches'[n].name = watches[n].name
      /\ watches'[n].start = watches[n].start
      /\ watches'[n].stop = now
      /\ watches'[n + 1].name = name
      /\ watches'[n + 1].start = now
  BY <1>1, NextWatchFacts
<1>3. \A i \in 1..n : /\ watches'[i].name = watches[i].name
                     /\ watches'[i].start = watches[i].start
  <2>1. \A i \in 1..n : i = n \/ i \in 1..n - 1
    BY <1>1
  <2> QED
    BY <1>2, <2>1
<1>4. ASSUME NEW i \in 1..n + 1
      PROVE  /\ watches'[i].start <= now'
             /\ watches'[i].name = SHOW_TIME <=> i = 4
  <2>1. CASE i = n + 1
    <3>0. \A k \in Nat : (k + 1 = 4) <=> (k = 3)
      OBVIOUS
    <3>1. (n + 1 = 4) <=> (n = 3)
      BY <1>1, <3>0
    <3> QED
      BY <1>1, <1>2, <2>1, <3>1
  <2>2. CASE i # n + 1
    <3>1. i \in 1..n
      BY <1>1, <2>2
    <3> QED
      BY <1>1, <1>3, <3>1
  <2> QED
    BY <2>1, <2>2
<1>5. ASSUME NEW i \in 1..n
      PROVE  /\ watches'[i].stop = watches'[i + 1].start
             /\ watches'[i].start <= watches'[i + 1].start
  <2>1. CASE i = n
    BY <1>1, <1>2, <1>3, <2>1
  <2>2. CASE i # n
    <3>1. i \in 1..n - 1 /\ i + 1 \in 1..n
      BY <1>1, <2>2
    <3> QED
      BY <1>1, <1>2, <1>3, <3>1
  <2> QED
    BY <2>1, <2>2
<1>6. Len(watches') - 1 = n /\ watches' # <<>>
  BY <1>1, <1>2
<1> QED
  BY <1>2, <1>4, <1>5, <1>6

\* The stopwatches stay in a chain.
LEMMA ChainKept == MeterInv /\ [MeterNext]_MeterVars => Chained'
<1> SUFFICES ASSUME MeterInv, [MeterNext]_MeterVars
             PROVE  Chained'
  OBVIOUS
<1> USE DEF MeterInv
<1>1. CASE Connect("setup", "control", "control_channel")
  <2>1. Len(watches) = 1 /\ now' = now /\ "control_channel" \in WatchNames
    BY <1>1 DEF Connect, Chained, WatchNames
  <2>2. ("control_channel" = SHOW_TIME) <=> Len(watches) = 3
    BY <2>1 DEF SHOW_TIME
  <2>3. watches' = NextWatch(watches, "control_channel")
    BY <1>1 DEF Connect
  <2>4. /\ watches' \in Seq(Watch) /\ watches' # <<>>
        /\ Len(watches') = Len(watches) + 1
        /\ \A i \in 1..Len(watches') : /\ watches'[i].start <= now'
                                       /\ watches'[i].name = SHOW_TIME <=> i = 4
        /\ \A i \in 1..Len(watches') - 1 :
             /\ watches'[i].stop = watches'[i + 1].start
             /\ watches'[i].start <= watches'[i + 1].start
    BY <2>1, <2>2, <2>3, ChainGrows
  <2>5. Len(watches') = 2 /\ phase' = "control"
    BY <1>1, <2>1, <2>4 DEF Connect
  <2> QED
    BY <2>4, <2>5 DEF Chained
<1>2. CASE Connect("control", "data", "data_channel_setup")
  <2>1. Len(watches) = 2 /\ now' = now /\ "data_channel_setup" \in WatchNames
    BY <1>2 DEF Connect, Chained, WatchNames
  <2>2. ("data_channel_setup" = SHOW_TIME) <=> Len(watches) = 3
    BY <2>1 DEF SHOW_TIME
  <2>3. watches' = NextWatch(watches, "data_channel_setup")
    BY <1>2 DEF Connect
  <2>4. /\ watches' \in Seq(Watch) /\ watches' # <<>>
        /\ Len(watches') = Len(watches) + 1
        /\ \A i \in 1..Len(watches') : /\ watches'[i].start <= now'
                                       /\ watches'[i].name = SHOW_TIME <=> i = 4
        /\ \A i \in 1..Len(watches') - 1 :
             /\ watches'[i].stop = watches'[i + 1].start
             /\ watches'[i].start <= watches'[i + 1].start
    BY <2>1, <2>2, <2>3, ChainGrows
  <2>5. Len(watches') = 3 /\ phase' = "data"
    BY <1>2, <2>1, <2>4 DEF Connect
  <2> QED
    BY <2>4, <2>5 DEF Chained
<1>3. CASE Connect("data", "transfer", SHOW_TIME)
  <2>1. Len(watches) = 3 /\ now' = now /\ SHOW_TIME \in WatchNames
    BY <1>3 DEF Connect, Chained, WatchNames
  <2>2. (SHOW_TIME = SHOW_TIME) <=> Len(watches) = 3
    BY <2>1 DEF SHOW_TIME
  <2>3. watches' = NextWatch(watches, SHOW_TIME)
    BY <1>3 DEF Connect
  <2>4. /\ watches' \in Seq(Watch) /\ watches' # <<>>
        /\ Len(watches') = Len(watches) + 1
        /\ \A i \in 1..Len(watches') : /\ watches'[i].start <= now'
                                       /\ watches'[i].name = SHOW_TIME <=> i = 4
        /\ \A i \in 1..Len(watches') - 1 :
             /\ watches'[i].stop = watches'[i + 1].start
             /\ watches'[i].start <= watches'[i + 1].start
    BY <2>1, <2>2, <2>3, ChainGrows
  <2>5. Len(watches') = 4 /\ phase' = "transfer"
    BY <1>3, <2>1, <2>4 DEF Connect
  <2> QED
    BY <2>4, <2>5 DEF Chained
<1>4. CASE GiveUp
  BY <1>4 DEF GiveUp, Chained, transfer
<1>5. CASE StartMeter
  BY <1>5 DEF StartMeter, Chained, transfer
<1>6. CASE Move
  BY <1>6 DEF Move, Chained, transfer
<1>7. CASE StopMeter
  BY <1>7 DEF StopMeter, Chained, transfer
<1>8. CASE MeterStopped
  BY <1>8 DEF MeterStopped, Chained, transfer
<1>9. CASE JobDone
  BY <1>9 DEF JobDone, Chained, transfer
<1>10. CASE JobFails
  BY <1>10 DEF JobFails, Chained, transfer
<1>11. CASE Sample
  BY <1>11 DEF Sample, Chained, transfer
<1>12. CASE TaskStops
  BY <1>12 DEF TaskStops, Chained, transfer
<1>13. CASE Tick
  <2>1. now \in Nat /\ now' = now + 1 /\ watches' = watches /\ phase' = phase
    BY <1>13, MeterConstants DEF Tick, MeterTypes
  <2>2. \A i \in 1..Len(watches) : watches[i].start \in Nat
    <3>1. \A i \in 1..Len(watches) : watches[i] \in Watch
      BY DEF Chained
    <3> QED
      BY <3>1 DEF Watch
  <2>3. \A i \in 1..Len(watches) : watches[i].start <= now'
    BY <2>1, <2>2 DEF Chained
  <2> QED
    BY <2>1, <2>3 DEF Chained
<1>14. CASE ClockStep
  BY <1>14 DEF ClockStep, Chained, transfer
<1>15. CASE Closedown
  <2>1. Len(watches) = 4 /\ now' = now /\ "shutdown" \in WatchNames
    BY <1>15 DEF Closedown, Chained, WatchNames
  <2>2. ("shutdown" = SHOW_TIME) <=> Len(watches) = 3
    BY <2>1 DEF SHOW_TIME
  <2>3. watches' = NextWatch(watches, "shutdown")
    BY <1>15 DEF Closedown
  <2>4. /\ watches' \in Seq(Watch) /\ watches' # <<>>
        /\ Len(watches') = Len(watches) + 1
        /\ \A i \in 1..Len(watches') : /\ watches'[i].start <= now'
                                       /\ watches'[i].name = SHOW_TIME <=> i = 4
        /\ \A i \in 1..Len(watches') - 1 :
             /\ watches'[i].stop = watches'[i + 1].start
             /\ watches'[i].start <= watches'[i + 1].start
    BY <2>1, <2>2, <2>3, ChainGrows
  <2>5. Len(watches') = 5 /\ phase' = "shutdown"
    BY <1>15, <2>1, <2>4 DEF Closedown
  <2> QED
    BY <2>4, <2>5 DEF Chained
<1>16. CASE ClosedDown
  <2> DEFINE n == Len(watches)
  <2>1. n = 5 /\ watches \in Seq(Watch) /\ now \in Nat /\ now' = now
    BY <1>16, MeterConstants DEF ClosedDown, Chained, MeterTypes
  <2>2. watches' = [watches EXCEPT ![n].stop = now]
    BY <1>16, <2>1 DEF ClosedDown, StopWatches
  <2>3. watches' \in Seq(Watch) /\ Len(watches') = n
    <3>1. 5 \in 1..Len(watches)
      BY <2>1
    <3>0. \A i \in 1..Len(watches) :
            /\ watches[i] \in Watch
            /\ \A w \in Watch : /\ [watches EXCEPT ![i] = w] \in Seq(Watch)
                                /\ Len([watches EXCEPT ![i] = w]) = Len(watches)
      BY DEF Chained
    <3>2. watches[5] \in Watch
      BY <3>0, <3>1
    <3>3. [watches[5] EXCEPT !.stop = now] \in Watch
      BY <2>1, <3>2 DEF Watch
    <3>4. watches' = [watches EXCEPT ![5] = [watches[5] EXCEPT !.stop = now]]
      BY <2>1, <2>2
    <3>5. \A w \in Watch : /\ [watches EXCEPT ![5] = w] \in Seq(Watch)
                          /\ Len([watches EXCEPT ![5] = w]) = Len(watches)
      BY <3>0, <3>1
    <3> QED
      BY <2>1, <3>3, <3>4, <3>5
  <2>4. /\ \A i \in 1..n - 1 : watches'[i] = watches[i]
        /\ watches'[n].name = watches[n].name
        /\ watches'[n].start = watches[n].start
    BY <2>1, <2>2 DEF Watch
  <2>5. \A i \in 1..n : /\ watches'[i].name = watches[i].name
                       /\ watches'[i].start = watches[i].start
    <3>1. \A i \in 1..n : i = n \/ i \in 1..n - 1
      BY <2>1
    <3> QED
      BY <2>4, <3>1
  <2>6. \A i \in 1..n - 1 : i \in 1..n /\ i + 1 \in 1..n
    BY <2>1
  <2>7. phase' = "closed" /\ watches' # <<>>
    <3>1. Len(watches') # 0
      BY <2>1, <2>3
    <3> QED
      BY <1>16, <3>1 DEF ClosedDown
  <2> QED
    BY <2>1, <2>3, <2>4, <2>5, <2>6, <2>7 DEF Chained
<1>17. CASE Report
  BY <1>17 DEF Report, Chained, transfer
<1>18. CASE Ended \/ UNCHANGED MeterVars
  BY <1>18 DEF Ended, MeterVars, Chained, transfer
<1>19. CASE JobRefused
  BY <1>19, MeterConstants DEF JobRefused, Chained, transfer
<1> QED
  BY <1>1, <1>2, <1>3, <1>4, <1>5, <1>6, <1>7, <1>8, <1>9, <1>10, <1>11,
     <1>12, <1>13, <1>14, <1>15, <1>16, <1>17, <1>18, <1>19 DEF MeterNext

\* Nothing moves any more once the report is made.
LEMMA ReportKept == MeterInv /\ [MeterNext]_MeterVars => Reported'
<1> SUFFICES ASSUME MeterInv, [MeterNext]_MeterVars
             PROVE  Reported'
  OBVIOUS
<1> USE DEF MeterInv
<1>1. CASE Connect("setup", "control", "control_channel")
  <2>1. ~report.said /\ report' = report
    BY <1>1 DEF Connect, Reported, InItsPhase, NoMeterLeft
  <2> QED
    BY <2>1 DEF Reported
<1>2. CASE Connect("control", "data", "data_channel_setup")
  <2>1. ~report.said /\ report' = report
    BY <1>2 DEF Connect, Reported, InItsPhase, NoMeterLeft
  <2> QED
    BY <2>1 DEF Reported
<1>3. CASE Connect("data", "transfer", SHOW_TIME)
  <2>1. ~report.said /\ report' = report
    BY <1>3 DEF Connect, Reported, InItsPhase, NoMeterLeft
  <2> QED
    BY <2>1 DEF Reported
<1>4. CASE GiveUp
  <2>1. ~report.said /\ report' = report
    BY <1>4 DEF GiveUp, Reported, InItsPhase, NoMeterLeft
  <2> QED
    BY <2>1 DEF Reported
<1>5. CASE StartMeter
  <2>1. ~report.said /\ report' = report
    BY <1>5 DEF StartMeter, Reported, InItsPhase, NoMeterLeft
  <2> QED
    BY <2>1 DEF Reported
<1>6. CASE Move
  <2>1. ~report.said /\ report' = report
    BY <1>6 DEF Move, Reported, InItsPhase, NoMeterLeft
  <2> QED
    BY <2>1 DEF Reported
<1>7. CASE StopMeter
  <2>1. ~report.said /\ report' = report
    BY <1>7 DEF StopMeter, Reported, InItsPhase, NoMeterLeft
  <2> QED
    BY <2>1 DEF Reported
<1>8. CASE MeterStopped
  <2>1. ~report.said /\ report' = report
    BY <1>8 DEF MeterStopped, Reported, InItsPhase, NoMeterLeft
  <2> QED
    BY <2>1 DEF Reported
<1>9. CASE JobDone
  <2>1. ~report.said /\ report' = report
    BY <1>9 DEF JobDone, Reported, InItsPhase, NoMeterLeft
  <2> QED
    BY <2>1 DEF Reported
<1>10. CASE JobFails
  <2>1. ~report.said /\ report' = report
    BY <1>10 DEF JobFails, Reported, InItsPhase, NoMeterLeft
  <2> QED
    BY <2>1 DEF Reported
<1>11. CASE Sample
  <2>1. ~report.said /\ report' = report
    BY <1>11 DEF Sample, Reported, InItsPhase, NoMeterLeft
  <2> QED
    BY <2>1 DEF Reported
<1>12. CASE TaskStops
  <2>1. ~report.said /\ report' = report
    BY <1>12 DEF TaskStops, Reported, InItsPhase, NoMeterLeft
  <2> QED
    BY <2>1 DEF Reported
<1>13. CASE Tick
  <2>1. ~report.said /\ report' = report
    BY <1>13 DEF Tick, Reported, InItsPhase, NoMeterLeft
  <2> QED
    BY <2>1 DEF Reported
<1>14. CASE ClockStep
  <2>1. ~report.said /\ report' = report
    BY <1>14 DEF ClockStep, Reported, InItsPhase, NoMeterLeft
  <2> QED
    BY <2>1 DEF Reported
<1>15. CASE Closedown
  <2>1. ~report.said /\ report' = report
    BY <1>15 DEF Closedown, Reported, InItsPhase, NoMeterLeft
  <2> QED
    BY <2>1 DEF Reported
<1>16. CASE ClosedDown
  <2>1. ~report.said /\ report' = report
    BY <1>16 DEF ClosedDown, Reported, InItsPhase, NoMeterLeft
  <2> QED
    BY <2>1 DEF Reported
<1>17. CASE Report
  <2>1. PICK c \in Conn : report' = process_statistics(c)
    BY <1>17 DEF Report
  <2>2. process_statistics(c)' = process_statistics(c)
    BY <1>17 DEF Report, process_statistics, sender_sent_bytes, local_sent, remote_sent,
       suggest_bandwidth_tuning, Suggested, from_cwnd, rtt_ms, blocked, current, transfer
  <2>3. report'.said = TRUE
    BY <2>1 DEF process_statistics
  <2>4. phase' = "end" /\ Len(watches') = 5
    BY <1>17 DEF Report, Chained
  <2> QED
    BY <2>1, <2>2, <2>3, <2>4 DEF Reported
<1>18. CASE Ended \/ UNCHANGED MeterVars
  <2>1. UNCHANGED MeterVars
    BY <1>18 DEF Ended
  <2>2. \A c \in Conn : process_statistics(c)' = process_statistics(c)
    BY <2>1 DEF MeterVars, process_statistics, sender_sent_bytes, local_sent, remote_sent,
       suggest_bandwidth_tuning, Suggested, from_cwnd, rtt_ms, blocked, current
  <2> QED
    BY <2>1, <2>2 DEF MeterVars, Reported
<1>19. CASE JobRefused
  <2>1. ~report.said /\ report' = report
    BY <1>19 DEF JobRefused, Reported, InItsPhase, NoMeterLeft
  <2> QED
    BY <2>1 DEF Reported
<1> QED
  BY <1>1, <1>2, <1>3, <1>4, <1>5, <1>6, <1>7, <1>8, <1>9, <1>10, <1>11,
     <1>12, <1>13, <1>14, <1>15, <1>16, <1>17, <1>18, <1>19 DEF MeterNext

\* MeterInv is kept.
LEMMA MeterStepInv == MeterInv /\ [MeterNext]_MeterVars => MeterInv'
BY TypesKept, PhaseKept, HonestMeterKept, TotalsKept, ChainKept, ReportKept DEF MeterInv

\* MeterInv holds in every state.
THEOREM MeterInvariance == MeterSpec => []MeterInv
<1>1. MeterInit => MeterInv
  BY MeterInitInv
<1>2. MeterInv /\ [MeterNext]_MeterVars => MeterInv'
  BY MeterStepInv
<1> QED
  BY <1>1, <1>2, PTL DEF MeterSpec

-----------------------------------------------------------------------------
(* Meter: what is reported.                                                *)

\* The stopwatches are stopwatches.
LEMMA WatchesTyped ==
  ASSUME MeterInv
  PROVE  \A i \in 1..Len(watches) : watches[i] \in Watch
BY DEF MeterInv, Chained

\* When a chain has come to its end, the time of the transfer is known.
LEMMA TransferTime ==
  ASSUME MeterInv, Len(watches) = 5
  PROVE  Elapsed(watches, SHOW_TIME) \in Nat
<1> DEFINE named == {i \in 1..Len(watches) : watches[i].name = SHOW_TIME}
<1>1. /\ 4 \in 1..Len(watches) /\ 4 \in 1..Len(watches) - 1 /\ 4 + 1 = 5
      /\ 5 \in 1..Len(watches)
  OBVIOUS
<1>2. named = {4}
  <2>1. \A i \in 1..Len(watches) : watches[i].name = SHOW_TIME <=> i = 4
    BY DEF MeterInv, Chained
  <2> QED
    BY <1>1, <2>1
<1>3. Elapsed(watches, SHOW_TIME) =
        LET i == IF named # {} THEN CHOOSE x \in named : \A y \in named : x =< y ELSE 0
        IN  IF i = 0 \/ watches[i].stop = Running THEN Unknown
            ELSE watches[i].stop - watches[i].start
  BY Zenon DEF Elapsed, SelectInSeq, Min
<1>4. 4 = CHOOSE x \in {4} : \A y \in {4} : x =< y
  OBVIOUS
<1>5. Elapsed(watches, SHOW_TIME) =
        IF watches[4].stop = Running THEN Unknown ELSE watches[4].stop - watches[4].start
  <2> HIDE DEF named
  <2> QED
    BY <1>2, <1>3, <1>4
<1>6. /\ watches[4].stop = watches[5].start
      /\ watches[4].start <= watches[5].start
  BY <1>1 DEF MeterInv, Chained
<1>7. watches[4].start \in Nat /\ watches[5].start \in Nat
  <2>1. \A i \in 1..Len(watches) : watches[i] \in Watch
    BY WatchesTyped
  <2> QED
    BY <1>1, <2>1 DEF Watch
<1> QED
  BY <1>5, <1>6, <1>7 DEF Running

\* StatisticsSound is about the state after process_statistics (util/stats.rs); it
\* holds because the totals and the chain of stopwatches are right all along.
LEMMA InvImpliesStatisticsSound == MeterInv => StatisticsSound
<1> DEFINE mean == [bytes |-> SumOf(moved), ticks |-> report.time]
<1> SUFFICES ASSUME MeterInv, report.said
             PROVE  /\ total.payload = SumOf(moved)
                    /\ report.time >= 0
                    /\ \A i \in 1..Len(watches) - 1 : watches[i].stop = watches[i + 1].start
                    /\ \A i \in course.done : i.ticks >= Second
                    /\ total.payload > 0 /\ ~stepped =>
                         FastestOf(report.peak, course.done \cup {mean})
                    /\ report.overhead >= 0
  BY DEF StatisticsSound
<1>1. PICK c \in Conn : report = process_statistics(c)
  BY DEF MeterInv, Reported
<1>2. Len(watches) = 5
  BY DEF MeterInv, Reported
<1>3. report.time = Elapsed(watches, SHOW_TIME)
  BY <1>1 DEF process_statistics
<1>4. report.time >= 0
  BY <1>2, <1>3, TransferTime
<1>5. report.overhead = sender_sent_bytes - total.payload
  BY <1>1 DEF process_statistics
<1>6. /\ sent \in Nat /\ total.payload \in Nat /\ dir \in {"put", "get"} /\ bar \in Nat
  BY MeterConstants DEF MeterInv, MeterTypes
<1>7. sender_sent_bytes = sent
  BY <1>6 DEF sender_sent_bytes, local_sent, remote_sent, Greater
<1>8. sent >= total.payload
  BY <1>6 DEF MeterInv, HonestTotals
<1>9. report.overhead >= 0
  BY <1>5, <1>6, <1>7, <1>8
<1>10. ASSUME total.payload > 0, ~stepped
       PROVE  FastestOf(report.peak, course.done \cup {mean})
  <2>1. /\ report.time \in Nat /\ mean \in Intervals
        /\ mean.bytes = total.payload /\ mean.ticks = report.time
    BY <1>2, <1>3, <1>6, TransferTime DEF Intervals, MeterInv, HonestTotals
  <2>2. report.peak = Greater(total.peak, DataRate(total.payload, report.time))
    BY <1>1, <1>3, <1>10 DEF process_statistics
  <2>3. DataRate(total.payload, report.time) = RateOf(mean)
    BY <2>1 DEF DataRate, RateOf, Unknown
  <2> HIDE DEF mean
  <2>4. FastestOf(RateOf(mean), {mean}) /\ RateOf(mean) \in Nat
    BY <2>1, FastestOfOne, RateOfTyped, MeterConstants
  <2>5. /\ FastestOf(total.peak, course.done) /\ total.peak \in Nat
        /\ course.done \in SUBSET Intervals /\ {mean} \in SUBSET Intervals
    BY <1>10, <2>1 DEF MeterInv, HonestTotals, HonestMeter, MeterTypes, Course
  <2> QED
    BY <2>2, <2>3, <2>4, <2>5, FastestGrows
<1>11. \A i \in course.done : i.ticks >= Second
  BY DEF MeterInv, HonestMeter
<1> QED
  BY <1>4, <1>9, <1>10, <1>11 DEF MeterInv, HonestTotals, Chained

\* The rates that may be configured.
LEMMA RatesBounded ==
  ASSUME NEW r \in Rates
  PROVE  r \in Nat /\ 0 < r /\ 22 * r <= MaxU64
<1>1. r \in 1..MaxU64 \div 22 /\ MaxU64 \in Nat
  BY MeterAssumption
<1> QED
  BY <1>1

\* What a quotient that is rounded up comes to, in a u64.
LEMMA CappedQuotient ==
  ASSUME NEW n \in Nat, NEW d \in Nat \ {0}
  PROVE  Capped(DivCeil(n, d)) \in 0..MaxU64
<1> DEFINE q == (n + d - 1) \div d
<1>1. n + d - 1 \in Nat
  OBVIOUS
<1>2. q \in Nat
  BY <1>1
<1>3. Capped(DivCeil(n, d)) = Capped(q)
  BY DEF DivCeil
<1> HIDE DEF q
<1> QED
  BY <1>2, <1>3, MeterConstants DEF Capped

\* Both estimates are u64.
LEMMA EstimatesTyped ==
  ASSUME MeterTypes, NEW c \in Conn, NEW p \in Nat, NEW t \in Nat
  PROVE  from_cwnd(c) \in 0..MaxU64 /\ from_average(p, t) \in 0..MaxU64
<1>1. /\ c.cwnd \in Nat /\ c.remoteCwnd \in Nat /\ rtt_ms(c) \in Nat \ {0}
  BY MeterAssumption DEF Conn, rtt_ms
<1>2. from_cwnd(c) \in 0..MaxU64
  <2> DEFINE n == (IF dir = "put" THEN c.cwnd ELSE c.remoteCwnd) * Second
  <2>1. n \in Nat
    BY <1>1, MeterConstants
  <2>2. from_cwnd(c) = Capped(DivCeil(n, rtt_ms(c)))
    BY DEF from_cwnd
  <2> HIDE DEF n
  <2> QED
    BY <1>1, <2>1, <2>2, CappedQuotient
<1>3. from_average(p, t) \in 0..MaxU64
  <2>1. CASE t \in {Unknown, 0}
    BY <2>1, MeterConstants DEF from_average
  <2>2. CASE t \notin {Unknown, 0}
    <3>1. p * Second \in Nat /\ t \in Nat \ {0}
      BY <2>2, MeterConstants
    <3>2. from_average(p, t) = Capped(DivCeil(p * Second, t))
      BY <2>2 DEF from_average
    <3> QED
      BY <3>1, <3>2, CappedQuotient
  <2> QED
    BY <2>1, <2>2
<1> QED
  BY <1>2, <1>3

\* A quarter more is more.
LEMMA QuarterMore ==
  ASSUME NEW e \in 0..MaxU64
  PROVE  /\ Capped(DivCeil(5 * e, 4)) \in 0..MaxU64
         /\ e <= Capped(DivCeil(5 * e, 4))
<1>1. DivCeil(5 * e, 4) \in Nat /\ e <= DivCeil(5 * e, 4)
  BY MeterConstants DEF DivCeil
<1> QED
  BY <1>1, MeterConstants DEF Capped

\* What is suggested is no less than what was seen on average and what was suggested
\* by the estimates; it is more than the current rate if whoever sends was blocked, or
\* if it is a substantial increase.
LEMMA SuggestedFacts ==
  ASSUME MeterTypes, NEW c \in Conn, NEW p \in Nat, NEW t \in Nat
  PROVE  LET B == Capped(DivCeil(5 * Greater(from_cwnd(c), from_average(p, t)), 4))
             bw == Suggested(c, p, t)
         IN  /\ B \in Nat /\ bw \in Nat /\ current(c) \in Nat
             /\ B <= bw
             /\ from_average(p, t) <= bw
             /\ blocked(c) => current(c) < bw
             /\ bw > Capped(11 * current(c)) \div 10 => current(c) < bw
<1> DEFINE avg == from_average(p, t)
           E == Greater(from_cwnd(c), avg)
           B == Capped(DivCeil(5 * E, 4))
           cur == current(c)
           bw == Suggested(c, p, t)
<1>1. from_cwnd(c) \in 0..MaxU64 /\ avg \in 0..MaxU64 /\ MaxU64 \in Nat
  BY EstimatesTyped, MeterConstants
<1>2. E \in 0..MaxU64 /\ avg <= E
  <2> HIDE DEF avg
  <2> QED
    BY <1>1 DEF Greater
<1>3. B \in 0..MaxU64 /\ E <= B
  <2> HIDE DEF E
  <2> QED
    BY <1>2, QuarterMore
<1>4. cur \in Rates
  BY DEF current, Conn
<1>5. cur \in Nat /\ 0 < cur /\ 22 * cur <= MaxU64
  <2> HIDE DEF cur
  <2> QED
    BY <1>4, RatesBounded
<1>6. bw = IF blocked(c) /\ B <= cur THEN Capped(2 * cur) ELSE Greater(B, cur)
  BY DEF Suggested
<1>7. Capped(2 * cur) = 2 * cur /\ Capped(11 * cur) = 11 * cur
  <2> HIDE DEF cur
  <2> QED
    BY <1>1, <1>5 DEF Capped
<1>8. bw \in Nat /\ B <= bw /\ (blocked(c) => cur < bw)
  <2> HIDE DEF cur, B, bw
  <2> QED
    BY <1>1, <1>3, <1>5, <1>6, <1>7 DEF Greater
<1>9. avg <= bw
  <2> HIDE DEF cur, B, bw, avg, E
  <2> QED
    BY <1>1, <1>2, <1>3, <1>8
<1>10. bw > Capped(11 * cur) \div 10 => cur < bw
  <2> HIDE DEF cur, bw
  <2>1. cur <= (11 * cur) \div 10
    BY <1>5
  <2> QED
    BY <1>5, <1>7, <1>8, <2>1
<1> QED
  BY <1>1, <1>3, <1>5, <1>8, <1>9, <1>10

\* Whoever follows the advice is given no other.
LEMMA AdviceSettles ==
  ASSUME MeterTypes, NEW c \in Conn, NEW p \in Nat, NEW t \in Nat,
         11 * Suggested(c, p, t) <= MaxU64
  PROVE  LET bw == Suggested(c, p, t)
             set == IF dir = "put" THEN [c EXCEPT !.tx = bw, !.txBlocked = FALSE]
                    ELSE [c EXCEPT !.rx = bw, !.rxBlocked = FALSE]
         IN  suggest_bandwidth_tuning(set, p, t) = NoAdvice
<1> DEFINE bw == Suggested(c, p, t)
           set == IF dir = "put" THEN [c EXCEPT !.tx = bw, !.txBlocked = FALSE]
                  ELSE [c EXCEPT !.rx = bw, !.rxBlocked = FALSE]
           B == Capped(DivCeil(5 * Greater(from_cwnd(c), from_average(p, t)), 4))
<1>1. B \in Nat /\ bw \in Nat /\ B <= bw
  BY SuggestedFacts
<1>2. /\ set.cwnd = c.cwnd /\ set.remoteCwnd = c.remoteCwnd
      /\ set.rtt = c.rtt /\ set.configRtt = c.configRtt
  BY DEF Conn
<1>3. current(set) = bw /\ ~blocked(set)
  BY DEF current, blocked, Conn
<1> HIDE DEF set
<1>4. from_cwnd(set) = from_cwnd(c)
  BY <1>2, Zenon DEF from_cwnd, rtt_ms
<1>5. Suggested(set, p, t) = Greater(B, bw)
  BY <1>3, <1>4, Zenon DEF Suggested
<1> HIDE DEF B, bw
<1>6. Suggested(set, p, t) = bw
  BY <1>1, <1>5 DEF Greater
<1>7. ~ (bw > Capped(11 * bw) \div 10)
  <2>1. Capped(11 * bw) = 11 * bw
    BY <1>1, MeterConstants DEF Capped, bw
  <2>2. bw <= (11 * bw) \div 10
    BY <1>1
  <2>3. (11 * bw) \div 10 \in Nat
    BY <1>1
  <2> QED
    BY <1>1, <2>1, <2>2, <2>3
<1>8. suggest_bandwidth_tuning(set, p, t) = NoAdvice
  BY <1>3, <1>6, <1>7 DEF suggest_bandwidth_tuning
<1> QED
  BY <1>8 DEF set, bw

\* AdviceSound is about what suggest_bandwidth_tuning (util/stats.rs) returns.
LEMMA InvImpliesAdviceSound == MeterInv => AdviceSound
<1> SUFFICES ASSUME MeterInv, report.said
             PROVE  AdviceSound
  BY DEF AdviceSound
<1>1. PICK c \in Conn : report = process_statistics(c)
  BY DEF MeterInv, Reported
<1> DEFINE p == total.payload
           t == report.time
           bw == Suggested(c, p, t)
           cwnd == IF dir = "put" THEN c.cwnd ELSE c.remoteCwnd
           flag == IF dir = "put" THEN "tx" ELSE "rx"
           none == p = 0 \/ cwnd = 0 \/ (~blocked(c) /\ ~(bw > Capped(11 * current(c)) \div 10))
           set == IF dir = "put" THEN [c EXCEPT !.tx = bw, !.txBlocked = FALSE]
                  ELSE [c EXCEPT !.rx = bw, !.rxBlocked = FALSE]
<1>2. /\ t = Elapsed(watches, SHOW_TIME) /\ report.conn = c
      /\ report.advice = suggest_bandwidth_tuning(c, p, t)
  BY <1>1 DEF process_statistics
<1>3. t \in Nat
  BY <1>2, TransferTime DEF MeterInv, Reported
<1>4. MeterTypes /\ p \in Nat
  BY DEF MeterInv, MeterTypes
<1>5. /\ bw \in Nat /\ current(c) \in Nat /\ from_average(p, t) <= bw
      /\ blocked(c) => current(c) < bw
      /\ bw > Capped(11 * current(c)) \div 10 => current(c) < bw
  <2> HIDE DEF p, t
  <2> QED
    BY <1>3, <1>4, SuggestedFacts
<1>6. report.advice = IF none THEN NoAdvice ELSE Advice(flag, bw)
  <2> HIDE DEF p, t
  <2> QED
    BY <1>2, Zenon DEF suggest_bandwidth_tuning
<1>7. Advice(flag, bw) # NoAdvice
  <2>1. Advice(flag, bw).flag # NoAdvice.flag
    BY DEF Advice, NoAdvice
  <2> QED
    BY <2>1
<1>8. 11 * bw <= MaxU64 => suggest_bandwidth_tuning(set, p, t) = NoAdvice
  <2> HIDE DEF p, t
  <2> QED
    BY <1>3, <1>4, AdviceSettles
<1>9. cwnd \in Nat
  BY MeterAssumption DEF Conn
<1>10. CASE none
  <2>1. report.advice = NoAdvice
    BY <1>6, <1>10
  <2>2. ~(blocked(c) /\ cwnd > 0 /\ p > 0)
    BY <1>10, <1>9, <1>4
  <2> QED
    BY <1>2, <2>1, <2>2 DEF AdviceSound
<1>11. CASE ~none
  <2>1. report.advice = Advice(flag, bw)
    BY <1>6, <1>11
  <2>2. report.advice.flag = flag /\ report.advice.bw = bw
    BY <2>1 DEF Advice
  <2>3. bw > current(c)
    <3>1. current(c) < bw
      BY <1>5, <1>11
    <3> HIDE DEF bw
    <3> QED
      BY <1>5, <3>1
  <2>4. bw >= from_average(p, t)
    <3>1. from_average(p, t) \in Nat
      <4> HIDE DEF p, t
      <4> QED
        BY <1>3, <1>4, EstimatesTyped, MeterConstants
    <3> HIDE DEF bw, p, t
    <3> QED
      BY <1>5, <3>1
  <2> HIDE DEF bw, none, flag
  <2> QED
    BY <1>2, <1>7, <1>8, <2>1, <2>2, <2>3, <2>4, Zenon DEF AdviceSound, flag
<1> QED
  BY <1>10, <1>11

\* The variables keep their types, the peak stays in a u64, and the meter has seen
\* no more of a file than has passed its bar (client/meter.rs).
THEOREM MeterTypeCorrect == MeterSpec => []MeterTypeOK
<1>1. MeterInv => MeterTypeOK
  BY DEF MeterInv, MeterTypes, MeterTypeOK, Runner
<1> QED
  BY <1>1, MeterInvariance, PTL

\* No meter task outlives its file, whether the job was done or has failed at any
\* await: Drop for InstaMeterRunner aborts it (client/meter.rs, session/get.rs,
\* session/put.rs).
THEOREM MeterNeverLeft == MeterSpec => []NoMeterLeft
<1>1. MeterInv => NoMeterLeft
  BY DEF MeterInv, InItsPhase
<1> QED
  BY <1>1, MeterInvariance, PTL

\* What the user is told is of the files that are done and of no other, whichever
\* sizes they have, however many there are and whatever was set on the clock
\* (util/stats.rs, process_statistics).
THEOREM StatisticsSoundAlways == MeterSpec => []StatisticsSound
BY MeterInvariance, InvImpliesStatisticsSound, PTL

\* The advice (util/stats.rs, suggest_bandwidth_tuning) makes nothing slower and
\* settles, for all congestion windows, rates and round trip times.
THEOREM AdviceSoundAlways == MeterSpec => []AdviceSound
BY MeterInvariance, InvImpliesAdviceSound, PTL

=============================================================================
