-------------------------------- MODULE Jobs --------------------------------
(***************************************************************************)
(* What one run of qcp copies, and in which order: how the command line    *)
(* becomes a list of jobs (cli/args.rs `jobspecs`, util/dirwalk.rs, the    *)
(* listings of client/main_loop.rs `process_recursive_get`), and how       *)
(* `process_file_transfers` works it off: files and directories first,     *)
(* stopping at the first failure, then the directories' permissions in     *)
(* reverse order.  A job that copies a file is module Put or Get; here it  *)
(* succeeds or fails.                                                      *)
(*                                                                         *)
(* Paths are relative to the destination the user named, which is <<>>.    *)
(* Sources and destination are trees of at most MaxEntries entries.        *)
(* The permissions of a directory are "open" or "shut": a shut one lets    *)
(* nobody at the destination reach what is inside.                         *)
(***************************************************************************)
EXTENDS Naturals, SequencesExt

CONSTANTS Names,        \* names of files and directories
          MaxSources,   \* sources on the command line
          MaxEntries    \* entries of all sources together; of the start, one less

ASSUME JobsAssumption == /\ MaxSources \in Nat \ {0}
                         /\ MaxEntries \in Nat \ {0}

VARIABLES
  req,      \* the command line, and what is at the destination before
  fs,       \* what is at the destination now
  phase,    \* where the client is
  k,        \* sources listed so far
  jobs,     \* the list of job specs
  i,        \* next job of the transfer phase, or of the post phase
  full,     \* full_success: nothing was skipped when the sources were listed
  ok,       \* overall_success
  faulty    \* something failed that the state of the destination allowed

vars == <<req, fs, phase, k, jobs, i, full, ok, faulty>>

Above(p) == Prefixes(p) \ {p}

\* Finite trees: functions on prefix-closed sets of paths.
Rels == UNION {[1..d -> Names] : d \in 0..MaxEntries - 1}
Closed(S) == \A r \in S : Prefixes(r) \subseteq S
Trees(leaves, dirs, max) ==
  UNION {{t \in [S -> leaves \cup dirs] :
            \A r \in S : \A q \in Above(r) : t[q] \in dirs} :
         S \in {S \in SUBSET Rels : IsFiniteSet(S) /\ Cardinality(S) <= max /\ Closed(S)}}

\* fs: at each path, a file or a directory (its permissions: mode).
Old    == [is |-> "old",  mode |-> "default"]
NewDir == [is |-> "dir",  mode |-> "default"]
Part   == [is |-> "part", mode |-> "default"]
Copied == [is |-> "copied", mode |-> "default"]

Source == [name : Names,
           tree : Trees({"file"}, {"open", "shut"}, MaxEntries) \ {<<>>}]
Starts == Trees({Old}, {NewDir}, MaxEntries - 1)

Entries(ss) == FoldLeft(LAMBDA c, s : c + Cardinality(DOMAIN s.tree), 0, ss)

\* What the command line may name.  Names are interchangeable, so the first
\* source has a fixed one.
SourceLists == {ss \in BoundedSeq(Source, MaxSources) :
                  /\ ss # <<>> /\ Entries(ss) <= MaxEntries
                  /\ ss[1].name = CHOOSE n \in Names : TRUE}

\* into: the destination ends in a slash, does not, or is a bare host.
Requests == [way : {"put", "get"}, into : {"plain", "slash", "bare"},
             recurse : BOOLEAN, preserve : BOOLEAN,
             sources : SourceLists, start : Starts]

Put     == req.way = "put"
Get     == req.way = "get"
Single  == Len(req.sources) = 1

Init == /\ req \in Requests
        /\ req.into = "bare" => Put /\ <<>> \in DOMAIN req.start
                                    /\ req.start[<<>>] = NewDir
        \* Without -r nobody looks into a directory.
        /\ ~req.recurse => Entries(req.sources) = Len(req.sources)
        /\ fs = req.start
        /\ phase = "check"
        /\ k = 0 /\ jobs = <<>> /\ i = 1
        /\ full = TRUE /\ ok = TRUE /\ faulty = FALSE

-----------------------------------------------------------------------------
(* From the command line to the list of jobs.                              *)

IsDir(p) == p \in DOMAIN fs /\ fs[p].is = "dir"

\* A recursive GET wants a directory there, or nothing and one source only.
CheckDestination ==
  /\ phase = "check"
  /\ phase' = IF /\ Get /\ req.recurse
                 /\ ~IsDir(<<>>)
                 /\ (<<>> \in DOMAIN fs \/ ~Single)
              THEN "fatal" ELSE "list"
  /\ UNCHANGED <<req, fs, k, jobs, i, full, ok, faulty>>

\* Plausible bug: the destination's existence is not looked at.
StemBySources(s) ==
  IF Single /\ (Get \/ req.into # "slash") THEN <<>> ELSE <<s.name>>

\* What is put before the path of an entry within its source.
Stem(s) ==
  LET merged == IF ~req.recurse THEN Single
                ELSE IF Put THEN req.into # "slash"
                ELSE ~IsDir(<<>>)              \* single_source_mkdir_mode
  IN  IF merged THEN <<>> ELSE <<s.name>>

\* join_remote(stem, "") leaves a slash at the end of a root's path; so does
\* a destination that the user wrote with one.
EndsInSlash(rel, p) ==
  rel = <<>> /\ ((Put /\ req.recurse) \/ (req.into = "slash" /\ p = <<>>))

JobFor(s, rel, p) ==
  [path |-> p, slash |-> EndsInSlash(rel, p),
   dir |-> req.recurse /\ s.tree[rel] # "file", mode |-> s.tree[rel],
   name |-> Last(<<s.name>> \o rel)]
JobOf(s, rel) == JobFor(s, rel, Stem(s) \o rel)

\* Plausible bug: a walk that yields the contents of a directory first.
WalksContentsFirst(S) ==
  {w \in SetToSeqs(S) : \A a, b \in DOMAIN w :
                           a < b => ~IsStrictPrefix(w[a], w[b])}

\* WalkDir yields a directory, then at once all that is in it.
Walks(S) == {w \in SetToSeqs(S) :
               \A a, b \in DOMAIN w : a < b =>
                 /\ ~IsStrictPrefix(w[b], w[a])
                 /\ \A c \in a + 1..b : IsPrefix(w[a], w[b]) => IsPrefix(w[a], w[c])}

\* The entries found, if the contents of the directories in `hidden` cannot
\* be read; a bare host skips the root.
Found(s, hidden) ==
  IF ~req.recurse THEN {<<>>}
  ELSE {r \in DOMAIN s.tree : /\ Above(r) \cap hidden = {}
                              /\ req.into = "bare" => r # <<>>}

\* Plausible bug: recurse_local_source forgets what contents_of has skipped.
ListSourceQuietly ==
  /\ phase = "list"
  /\ k < Len(req.sources)
  /\ LET s == req.sources[k + 1]
     IN  \E hidden \in SUBSET {r \in DOMAIN s.tree : Put /\ s.tree[r] # "file"} :
         \E w \in Walks(Found(s, hidden)) :
           jobs' = jobs \o [a \in DOMAIN w |-> JobOf(s, w[a])]
  /\ k' = k + 1
  /\ UNCHANGED <<req, fs, phase, i, full, ok, faulty>>

\* A PUT walks its source and skips what it may not read; a GET asks the
\* server for a listing, which is complete or an error.
ListSource ==
  /\ phase = "list"
  /\ k < Len(req.sources)
  /\ LET s == req.sources[k + 1]
         dirs == {r \in DOMAIN s.tree : s.tree[r] # "file"}
     IN  \E hidden \in IF Put /\ req.recurse THEN SUBSET dirs ELSE {{}} :
         \E w \in Walks(Found(s, hidden)) :
           /\ jobs' = jobs \o [a \in DOMAIN w |-> JobOf(s, w[a])]
           /\ full' = (full /\ hidden = {})
  /\ k' = k + 1
  /\ UNCHANGED <<req, fs, phase, i, ok, faulty>>

\* A source that does not exist, a broken link, an answer that is no listing.
ListFails ==
  /\ phase = "list"
  /\ phase' = "fatal"
  /\ faulty' = TRUE
  /\ UNCHANGED <<req, fs, k, jobs, i, full, ok>>

\* prep expects a job; a GET that is to create its destination does so now.
ListDone ==
  /\ phase = "list"
  /\ k = Len(req.sources)
  /\ phase' = IF jobs = <<>> THEN "panic" ELSE "transfer"
  /\ fs' = IF Get /\ req.recurse /\ <<>> \notin DOMAIN fs /\ jobs[1].dir
           THEN [q \in {<<>>} |-> NewDir] ELSE fs
  /\ UNCHANGED <<req, k, jobs, i, full, ok, faulty>>

-----------------------------------------------------------------------------
(* The transfer phase.                                                     *)

\* The program at the destination can get at what is, or will be, at p.
Reachable(p) == \A q \in Above(p) : IsDir(q) /\ fs[q].mode # "shut"

Local(job) == Get /\ job.dir           \* needs no request

\* mkdir.rs creates one directory, a GET all that are missing (create_dir_all).
CanMake(job) ==
  IF Get THEN \A q \in Prefixes(job.path) : q \in DOMAIN fs => IsDir(q)
  ELSE Reachable(job.path) /\ (job.path \in DOMAIN fs => IsDir(job.path))

\* What is there stays.
Adding(Q, e) == [p \in DOMAIN fs \cup Q |-> IF p \in DOMAIN fs THEN fs[p] ELSE e]

\* Plausible bug: directories are created with the permissions of the source.
MadeLikeSource(job) ==
  Adding({job.path}, [is |-> "dir", mode |-> job.mode])

Made(job) == Adding(IF Get THEN Prefixes(job.path) ELSE {job.path}, NewDir)

\* Where the file goes: create_or_truncate puts it into a directory that is
\* there, and before it handle_impl of a PUT does the same.
Target(job) ==
  LET within(p) == IF IsDir(p) THEN Append(p, job.name) ELSE p
  IN  IF Put THEN within(within(job.path)) ELSE within(job.path)

CanCopy(job) == /\ job.mode = "file"
                /\ job.slash => IsDir(job.path)
                /\ Reachable(Target(job))
                /\ ~IsDir(Target(job))

With(p, e) == [q \in DOMAIN fs \cup {p} |-> IF q = p THEN e ELSE fs[q]]

MakeDir == /\ phase = "transfer" /\ i <= Len(jobs)
           /\ jobs[i].dir
           /\ CanMake(jobs[i])
           /\ fs' = Made(jobs[i])
           /\ i' = i + 1
           /\ UNCHANGED <<req, phase, k, jobs, full, ok, faulty>>

CopyFile == /\ phase = "transfer" /\ i <= Len(jobs)
            /\ ~jobs[i].dir
            /\ CanCopy(jobs[i])
            /\ fs' = With(Target(jobs[i]), Copied)
            /\ i' = i + 1
            /\ UNCHANGED <<req, phase, k, jobs, full, ok, faulty>>

\* Only a list of more than one job has its directories' permissions set.
EndTransfers == /\ phase' = IF Len(jobs) > 1 THEN "post" ELSE "end"
                /\ i' = Len(jobs)
                /\ UNCHANGED <<req, k, jobs, full>>

TransfersDone == /\ phase = "transfer" /\ i > Len(jobs)
                 /\ EndTransfers
                 /\ UNCHANGED <<fs, ok, faulty>>

\* The first failure ends the transfers.  A file may have been copied in part.
JobFails ==
  /\ phase = "transfer" /\ i <= Len(jobs)
  /\ LET job == jobs[i]
         could == IF job.dir THEN CanMake(job) ELSE CanCopy(job)
     IN  /\ faulty' = (faulty \/ could)
         /\ fs' \in {fs} \cup IF could /\ ~job.dir
                              THEN {With(Target(job), Part)} ELSE {}
  /\ ok' = FALSE
  /\ EndTransfers

-----------------------------------------------------------------------------
(* The post phase: SetMetadata requests, or for a GET a local chmod.       *)

Stamps(job) == job.dir /\ req.preserve

CanStamp(job) == /\ job.path \in DOMAIN fs
                 /\ Put => IsDir(job.path)
                 /\ Reachable(job.path)

Posting == phase = "post" /\ i > 0

PassJob == /\ Posting
           /\ ~Stamps(jobs[i])
           /\ i' = i - 1
           /\ UNCHANGED <<req, fs, phase, k, jobs, full, ok, faulty>>

SetMode == /\ Posting
           /\ Stamps(jobs[i]) /\ CanStamp(jobs[i])
           /\ fs' = [fs EXCEPT ![jobs[i].path].mode = jobs[i].mode]
           /\ i' = i - 1
           /\ UNCHANGED <<req, phase, k, jobs, full, ok, faulty>>

SetModeFails == /\ Posting
                /\ Stamps(jobs[i])
                /\ ok' = FALSE
                /\ faulty' = (faulty \/ CanStamp(jobs[i]))
                /\ i' = i - 1
                /\ UNCHANGED <<req, fs, phase, k, jobs, full>>

PostDone == /\ phase = "post" /\ i = 0
            /\ phase' = "end"
            /\ UNCHANGED <<req, fs, k, jobs, i, full, ok, faulty>>

\* open_stream fails: for every job but a local directory, and in the post
\* phase for these as well.
NoStream == /\ \/ phase = "transfer" /\ i <= Len(jobs) /\ ~Local(jobs[i])
               \/ Posting /\ Stamps(jobs[i])
            /\ phase' = "fatal"
            /\ faulty' = TRUE
            /\ UNCHANGED <<req, fs, k, jobs, i, full, ok>>

-----------------------------------------------------------------------------
Final == {"end", "fatal", "panic"}

Step == \/ CheckDestination \/ ListSource \/ ListFails \/ ListDone
        \/ MakeDir \/ CopyFile \/ JobFails \/ TransfersDone
        \/ PassJob \/ SetMode \/ SetModeFails \/ PostDone
        \/ NoStream

Next == Step \/ (phase \in Final /\ UNCHANGED vars)

\* One program, which the runtime keeps polling: every request ends
\* (Put!BothEnd, Get!BothEnd, Session!BothExit).
Spec == Init /\ [][Next]_vars /\ WF_vars(Step)
-----------------------------------------------------------------------------
(* What must hold.                                                         *)

Entry == [is : {"old", "dir", "part", "copied"}, mode : {"default", "open", "shut"}]

Job == [path : Seq(Names), slash : BOOLEAN, dir : BOOLEAN, mode : {"file", "open", "shut"},
        name : Names]

TypeOK ==
  /\ req \in Requests /\ jobs \in Seq(Job)
  /\ DOMAIN fs \subseteq Seq(Names) /\ Closed(DOMAIN fs)
  /\ fs \in [DOMAIN fs -> Entry]
  /\ phase \in {"check", "list", "transfer", "post"} \cup Final
  /\ k \in 0..Len(req.sources)
  /\ i \in 0..Len(jobs) + 1
  /\ \A b \in {full, ok, faulty} : b \in BOOLEAN

\* Where client/options.rs says that an entry of a source goes, from what was
\* at the destination before: into it, or in its place.
Into == IF ~req.recurse THEN ~Single
        ELSE IF Get THEN <<>> \in DOMAIN req.start ELSE req.into = "slash"
Place(s, rel) == (IF Into THEN <<s.name>> ELSE <<>>) \o rel

HasMode(p, modes) ==
  req.preserve /\ Len(jobs) > 1 => fs[p].mode \in modes

\* Success: every entry of every source has arrived where the rules for Get
\* and Put say, a file whole (if need be inside a directory that was there),
\* a directory with the permissions of a source that goes there.
SuccessMeansAll ==
  phase = "end" /\ ok /\ full =>
    \A a \in 1..Len(req.sources) :
      LET s == req.sources[a]
      IN  \A rel \in IF req.recurse THEN DOMAIN s.tree ELSE {<<>>} :
            LET p == Place(s, rel)
                name == Last(<<s.name>> \o rel)
                same == {b \in 1..Len(jobs) : jobs[b].path = p}
            IN  \/ req.into = "bare" /\ req.recurse /\ rel = <<>>
                \/ /\ s.tree[rel] # "file"
                   /\ IsDir(p)
                   /\ HasMode(p, {jobs[b].mode : b \in same})
                \/ /\ s.tree[rel] = "file"
                   /\ \E q \in {p, Append(p, name), p \o <<name, name>>} :
                        q \in DOMAIN fs /\ fs[q] = Copied

\* The sources go to places of their own.
Apart == \/ Single
         \/ /\ ~req.recurse \/ Get \/ req.into = "slash"
            /\ \A a, b \in 1..Len(req.sources) :
                 a # b => req.sources[a].name # req.sources[b].name

OnlyRoot == DOMAIN req.start = {<<>>} /\ req.start[<<>>] = NewDir
Nothing  == DOMAIN req.start = {}
RootFile(a) == req.sources[a].tree[<<>>] = "file"

Clean == /\ OnlyRoot \/ (Nothing /\ Single /\ req.into = "plain")
         /\ Apart
         /\ \A a \in 1..Len(req.sources) :
              IF req.recurse THEN Put => ~RootFile(a) ELSE RootFile(a)

\* A copy of directories into an empty directory, or of one source to a new
\* name, succeeds unless something outside the client fails: no job depends
\* on a later one, and none is cut off by what an earlier one did.
CleanCopySucceeds ==
  phase \in {"end", "fatal"} /\ ~faulty /\ Clean => phase = "end" /\ ok

\* Permissions are set from the inside out: a directory whose turn it is can
\* be reached through those that were copied with it.
NoLockout ==
  Posting /\ Apart => \A q \in Above(jobs[i].path) :
                         q \in DOMAIN fs => fs[q].mode # "shut"

\* Whatever fails, what was at the destination and is no place of a copy
\* stays as it was; a GET that is refused leaves everything as it was.
Concerns(p) == \E a \in 1..Len(req.sources) :
                 LET s == req.sources[a]
                 IN  \E rel \in DOMAIN s.tree :
                       LET at == Place(s, rel)
                           name == Last(<<s.name>> \o rel)
                       IN  p \in {at, Append(at, name), at \o <<name, name>>}
NothingElseTouched ==
  /\ \A p \in DOMAIN req.start : fs[p] = req.start[p] \/ Concerns(p)
  /\ (phase = "fatal" /\ ~faulty) => fs = req.start

-----------------------------------------------------------------------------
(* The inductive invariant.                                                *)

\* A job for an entry, as options.rs has it.
Planned(s, rel) == JobFor(s, rel, Place(s, rel))

\* How far the client is.
OnTheWay ==
  /\ req.into = "bare" => Put /\ <<>> \in DOMAIN req.start /\ req.start[<<>>] = NewDir
  /\ phase \in {"check", "list"} => fs = req.start /\ i = 1
  /\ phase = "check" => k = 0 /\ jobs = <<>>
  /\ phase = "list" /\ Get /\ req.recurse =>
       IF <<>> \in DOMAIN req.start THEN req.start[<<>>] = NewDir ELSE Single
  /\ phase \in {"transfer", "post", "end"} => k = Len(req.sources)
  /\ phase = "transfer" => i > 0
  /\ phase \in {"post", "end"} => i <= Len(jobs)
  /\ phase = "end" /\ Len(jobs) > 1 => i = 0
  /\ phase \notin {"post", "end", "fatal"} => ok

\* Every job is for an entry of a source, and if it is in a directory there is
\* one for that, too.
IsFrom(b, s) == \E rel \in Found(s, {}) :
                  /\ jobs[b] = Planned(s, rel)
                  /\ \A q \in Above(rel) \cap Found(s, {}) :
                       \E c \in DOMAIN jobs : jobs[c] = Planned(s, q)
FromSources == \A b \in DOMAIN jobs : \E a \in 1..k : IsFrom(b, req.sources[a])

\* Nothing was left out, if nothing was skipped.
AllListed == full => \A a \in 1..k : \A rel \in Found(req.sources[a], {}) :
                       \E b \in DOMAIN jobs : jobs[b] = Planned(req.sources[a], rel)

\* No job is for what contains the place of an earlier one, or is that place.
InOrder == Apart => \A b, c \in DOMAIN jobs : b < c =>
                      jobs[c].path \notin Prefixes(jobs[b].path)

\* What a job that was done has left at the destination.
Done(job) == IF job.dir THEN IsDir(job.path)
             ELSE /\ job.mode = "file"
                  /\ \E q \in {job.path, Append(job.path, job.name),
                               job.path \o <<job.name, job.name>>} :
                       q \in DOMAIN fs /\ fs[q] = Copied
SoFar == /\ phase = "transfer" => \A b \in 1..i - 1 : Done(jobs[b])
         /\ phase \in {"post", "end"} /\ ok => \A b \in DOMAIN jobs : Done(jobs[b])

\* Permissions are those of a directory for which a later job was done.
Stamped ==
  /\ \A p \in DOMAIN fs : fs[p].mode # "default" =>
       \E b \in i + 1..Len(jobs) : jobs[b].path = p /\ phase \in {"post", "end", "fatal"}
  /\ phase \in {"post", "end"} /\ ok /\ req.preserve =>
       \A b \in i + 1..Len(jobs) : jobs[b].dir =>
         fs[jobs[b].path].mode \in {jobs[c].mode : c \in {c \in DOMAIN jobs :
                                                          jobs[c].path = jobs[b].path}}

\* Nothing goes away, and a directory stays one.
DirsStay == \A p \in DOMAIN req.start :
              p \in DOMAIN fs /\ (req.start[p] = NewDir => IsDir(p))

\* What there can be at the destination while such a copy is made.
Expected(p) ==
  IF IsDir(p)
  THEN (p = <<>> /\ OnlyRoot) \/ \E b \in DOMAIN jobs : jobs[b].dir /\ jobs[b].path = p
  ELSE \E b \in DOMAIN jobs : ~jobs[b].dir /\ (jobs[b].path = p \/ ~req.recurse)
Undisturbed ==
  Clean => /\ phase = "fatal" => faulty
           /\ phase \in {"post", "end"} => ok \/ faulty
           /\ phase \in {"check", "list", "transfer"} => \A p \in DOMAIN fs : Expected(p)

Inv == /\ TypeOK /\ OnTheWay /\ FromSources /\ AllListed /\ InOrder /\ SoFar /\ Stamped
       /\ DirsStay /\ NothingElseTouched /\ Undisturbed
=============================================================================
