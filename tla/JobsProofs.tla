------------------------------ MODULE JobsProofs ------------------------------
(***************************************************************************)
(* What module Jobs promises, proved for every tree of sources, every      *)
(* destination and every list of jobs that a walk may give.                *)
(*                                                                         *)
(* The argument is about prefixes of paths: no job comes before the one    *)
(* for the directory it is in (InOrder), so nothing that a job needs is    *)
(* made by a later one, and the permissions of a directory are set when    *)
(* all that is in it is done with.                                         *)
(***************************************************************************)
EXTENDS Jobs, FiniteSetTheorems, SequenceTheorems, TLAPS

-----------------------------------------------------------------------------
(* Paths.                                                                  *)

\* A prefix is shorter and agrees as far as it goes.
LEMMA PrefixFacts ==
  ASSUME NEW p \in Seq(Names), NEW q
  PROVE  q \in Prefixes(p) <=> /\ q \in Seq(Names) /\ Len(q) <= Len(p)
                               /\ \A j \in 1..Len(q) : q[j] = p[j]
<1>1. ASSUME q \in Prefixes(p)
      PROVE  /\ q \in Seq(Names) /\ Len(q) <= Len(p)
             /\ \A j \in 1..Len(q) : q[j] = p[j]
  <2>1. PICK l \in 0..Len(p) : q = SubSeq(p, 1, l)
    BY <1>1 DEF Prefixes
  <2>2. /\ q \in Seq(Names) /\ Len(q) = l /\ \A j \in 1..l : q[j] = p[j]
    BY <2>1, SubSeqProperties
  <2> QED
    BY <2>1, <2>2
<1>2. ASSUME q \in Seq(Names), Len(q) <= Len(p), \A j \in 1..Len(q) : q[j] = p[j]
      PROVE  q \in Prefixes(p)
  <2> DEFINE t == SubSeq(p, 1, Len(q))
  <2>1. Len(q) \in 0..Len(p)
    BY <1>2
  <2>2. t \in Seq(Names) /\ Len(t) = Len(q) /\ \A j \in 1..Len(t) : q[j] = t[j]
    BY <1>2, <2>1, SubSeqProperties
  <2>3. t \in Prefixes(p)
    BY <2>1 DEF Prefixes
  <2> HIDE DEF t
  <2>4. t = q
    BY <1>2, <2>2, SeqEqual
  <2> QED
    BY <2>3, <2>4
<1> QED
  BY <1>1, <1>2

\* A path and the root are both among its prefixes.
LEMMA EndsArePrefixes ==
  ASSUME NEW p \in Seq(Names)
  PROVE  p \in Prefixes(p) /\ <<>> \in Prefixes(p)
<1>1. p \in Prefixes(p)
  BY PrefixFacts
<1>2. SubSeq(p, 1, 0) = <<>> /\ 0 \in 0..Len(p)
  BY SubSeqEmpty
<1>3. <<>> \in Prefixes(p)
  BY <1>2 DEF Prefixes
<1> QED
  BY <1>1, <1>3

\* Prefixes are ordered: a prefix of a prefix is one, and none is its own.
LEMMA PrefixOrder ==
  ASSUME NEW p \in Seq(Names), NEW q \in Prefixes(p)
  PROVE  /\ q \in Seq(Names)
         /\ Prefixes(q) \subseteq Prefixes(p)
         /\ p \in Prefixes(q) => p = q
         /\ q # p => p \notin Prefixes(q) /\ IsStrictPrefix(q, p)
<1>1. /\ q \in Seq(Names) /\ Len(q) <= Len(p) /\ \A j \in 1..Len(q) : q[j] = p[j]
      /\ Len(p) \in Nat /\ Len(q) \in Nat
  BY PrefixFacts
<1>3. ASSUME NEW r \in Prefixes(q)
      PROVE  r \in Prefixes(p)
  <2>1. r \in Seq(Names) /\ Len(r) <= Len(q) /\ \A j \in 1..Len(r) : r[j] = q[j]
    BY <1>1, PrefixFacts
  <2> QED
    BY <1>1, <2>1, PrefixFacts
<1>4. ASSUME p \in Prefixes(q)
      PROVE  p = q
  <2>1. Len(p) = Len(q)
    BY <1>1, <1>4, PrefixFacts
  <2> QED
    BY <1>1, <2>1, SeqEqual
<1>5. IsPrefix(q, p)
  BY <1>1 DEF IsPrefix
<1> QED
  BY <1>1, <1>3, <1>4, <1>5 DEF IsStrictPrefix

\* A name in front of a path.
LEMMA JoinFacts ==
  ASSUME NEW n \in Names, NEW r \in Seq(Names)
  PROVE  /\ <<n>> \o r \in Seq(Names) /\ Len(<<n>> \o r) = Len(r) + 1
         /\ (<<n>> \o r)[1] = n
         /\ \A j \in 1..Len(r) : (<<n>> \o r)[j + 1] = r[j]
<1>1. <<n>> \in Seq(Names) /\ Len(<<n>>) = 1 /\ <<n>>[1] = n /\ Len(r) \in Nat
  OBVIOUS
<1> QED
  BY <1>1, ConcatProperties

\* The prefixes of a path in a directory of its own.
LEMMA PrefixOfJoin ==
  ASSUME NEW n \in Names, NEW r \in Seq(Names), NEW q
  PROVE  /\ <<n>> \o r \in Seq(Names)
         /\ q \in Prefixes(<<n>> \o r)
              <=> q = <<>> \/ \E t \in Prefixes(r) : q = <<n>> \o t
<1> DEFINE p == <<n>> \o r
<1>1. /\ p \in Seq(Names) /\ Len(p) = Len(r) + 1 /\ p[1] = n
      /\ \A j \in 1..Len(r) : p[j + 1] = r[j]
  BY JoinFacts
<1>2. ASSUME q \in Prefixes(p), q # <<>>
      PROVE  \E t \in Prefixes(r) : q = <<n>> \o t
  <2>1. q \in Seq(Names) /\ Len(q) <= Len(p) /\ \A j \in 1..Len(q) : q[j] = p[j]
    BY <1>1, <1>2, PrefixFacts
  <2>2. Len(q) >= 1 /\ q[1] = n
    BY <1>1, <1>2, <2>1
  <2>3. /\ Tail(q) \in Seq(Names) /\ Len(Tail(q)) = Len(q) - 1
        /\ \A j \in 1..Len(q) - 1 : Tail(q)[j] = q[j + 1]
    BY <1>2, <2>1, HeadTailProperties
  <2> DEFINE u == <<n>> \o Tail(q)
  <2>4. /\ u \in Seq(Names) /\ Len(u) = Len(q) /\ u[1] = n
        /\ \A j \in 1..Len(q) - 1 : u[j + 1] = Tail(q)[j]
    BY <2>2, <2>3, JoinFacts
  <2>5. q = u
    <3> HIDE DEF u, p
    <3>1. \A j \in 1..Len(q) : j = 1 \/ (j - 1 \in 1..Len(q) - 1 /\ j = (j - 1) + 1)
      BY <2>1
    <3>2. ASSUME NEW j \in 1..Len(q)
          PROVE  q[j] = u[j]
      <4>1. CASE j = 1
        BY <2>2, <2>4, <4>1
      <4>2. CASE j - 1 \in 1..Len(q) - 1 /\ j = (j - 1) + 1
        <5>1. PICK m \in 1..Len(q) - 1 : j = m + 1
          BY <4>2
        <5>2. Tail(q)[m] = q[m + 1] /\ u[m + 1] = Tail(q)[m]
          BY <2>3, <2>4
        <5> QED
          BY <5>1, <5>2
      <4> QED
        BY <3>1, <4>1, <4>2
    <3> QED
      BY <2>1, <2>4, <3>2, SeqEqual
  <2>6. Tail(q) \in Prefixes(r)
    <3> HIDE DEF p
    <3>1. Len(r) \in Nat /\ Len(q) \in Nat
      OBVIOUS
    <3>2. ASSUME NEW j \in 1..Len(Tail(q))
          PROVE  Tail(q)[j] = r[j]
      <4>1. j \in 1..Len(q) - 1 /\ j \in 1..Len(r) /\ j + 1 \in 1..Len(q)
        BY <1>1, <2>1, <2>3, <3>1
      <4>2. Tail(q)[j] = q[j + 1] /\ q[j + 1] = p[j + 1] /\ p[j + 1] = r[j]
        BY <1>1, <2>1, <2>3, <4>1
      <4> QED
        BY <4>2
    <3>3. Len(Tail(q)) <= Len(r)
      BY <1>1, <2>1, <2>3, <3>1
    <3> DEFINE w == Tail(q)
    <3>4. w \in Seq(Names) /\ Len(w) <= Len(r) /\ \A j \in 1..Len(w) : w[j] = r[j]
      BY <2>3, <3>2, <3>3
    <3>5. w \in Prefixes(r)
      <4> HIDE DEF w
      <4> QED
        BY <3>4, PrefixFacts
    <3> QED
      BY <3>5
  <2> QED
    BY <2>5, <2>6
<1>3. ASSUME NEW t \in Prefixes(r), q = <<n>> \o t
      PROVE  q \in Prefixes(p)
  <2>1. t \in Seq(Names) /\ Len(t) <= Len(r) /\ \A j \in 1..Len(t) : t[j] = r[j]
    BY PrefixFacts
  <2>2. /\ q \in Seq(Names) /\ Len(q) = Len(t) + 1 /\ q[1] = n
        /\ \A j \in 1..Len(t) : q[j + 1] = t[j]
    BY <1>3, <2>1, JoinFacts
  <2> HIDE DEF p
  <2>4. Len(t) \in Nat /\ Len(r) \in Nat
    BY <2>1
  <2>3. ASSUME NEW j \in 1..Len(q)
        PROVE  q[j] = p[j]
    <3>1. CASE j = 1
      BY <1>1, <2>2, <3>1
    <3>2. CASE j # 1
      <4> DEFINE l == j - 1
      <4>1. l \in 1..Len(t) /\ l \in 1..Len(r) /\ j = l + 1
        BY <2>1, <2>2, <2>4, <3>2
      <4> HIDE DEF l
      <4>2. q[l + 1] = t[l] /\ t[l] = r[l] /\ p[l + 1] = r[l]
        BY <1>1, <2>1, <2>2, <4>1
      <4> QED
        BY <4>1, <4>2
    <3> QED
      BY <3>1, <3>2
  <2> QED
    BY <1>1, <2>1, <2>2, <2>3, PrefixFacts
<1>4. <<>> \in Prefixes(p)
  BY <1>1, EndsArePrefixes
<1>5. ASSUME q = <<>> \/ \E t \in Prefixes(r) : q = <<n>> \o t
      PROVE  q \in Prefixes(p)
  <2>1. CASE q = <<>>
    BY <1>4, <2>1
  <2>2. CASE \E t \in Prefixes(r) : q = <<n>> \o t
    BY <1>3, <2>2
  <2> QED
    BY <1>5, <2>1, <2>2
<1>6. q \in Prefixes(p) => q = <<>> \/ (\E t \in Prefixes(r) : q = <<n>> \o t)
  BY <1>2
<1> QED
  BY <1>1, <1>5, <1>6

\* Paths below two names are equal only if both parts are.
LEMMA JoinCancels ==
  ASSUME NEW n \in Names, NEW m \in Names, NEW r \in Seq(Names), NEW t \in Seq(Names),
         <<n>> \o r = <<m>> \o t
  PROVE  n = m /\ r = t
<1> DEFINE p == <<n>> \o r
           q == <<m>> \o t
<1>1. Len(p) = Len(r) + 1 /\ p[1] = n /\ \A j \in 1..Len(r) : p[j + 1] = r[j]
  BY JoinFacts
<1>2. Len(q) = Len(t) + 1 /\ q[1] = m /\ \A j \in 1..Len(t) : q[j + 1] = t[j]
  BY JoinFacts
<1>3. p = q
  OBVIOUS
<1> HIDE DEF p, q
<1>4. n = m /\ Len(r) = Len(t)
  BY <1>1, <1>2, <1>3
<1>5. \A j \in 1..Len(r) : r[j] = t[j]
  BY <1>1, <1>2, <1>3, <1>4
<1> QED
  BY <1>4, <1>5, SeqEqual

-----------------------------------------------------------------------------
(* Trees, and what the command line may be.                                *)

\* In a tree all that is above an entry is a directory.
LEMMA TreeFacts ==
  ASSUME NEW L, NEW D, NEW n, NEW t \in Trees(L, D, n)
  PROVE  /\ t \in [DOMAIN t -> L \cup D]
         /\ DOMAIN t \subseteq Seq(Names) /\ IsFiniteSet(DOMAIN t) /\ Closed(DOMAIN t)
         /\ \A r \in DOMAIN t : \A q \in Above(r) : t[q] \in D
<1>1. PICK S \in SUBSET Rels :
        /\ IsFiniteSet(S) /\ Closed(S)
        /\ t \in {u \in [S -> L \cup D] : \A r \in S : \A q \in Above(r) : u[q] \in D}
  BY DEF Trees
<1>2. t \in [S -> L \cup D] /\ DOMAIN t = S
  BY <1>1
<1>3. Rels \subseteq Seq(Names)
  BY DEF Rels
<1> QED
  BY <1>1, <1>2, <1>3

\* What a source is: a tree with a root.
LEMMA SourceFacts ==
  ASSUME req \in Requests, NEW a \in 1..Len(req.sources)
  PROVE  /\ req.sources[a].name \in Names
         /\ DOMAIN req.sources[a].tree \subseteq Seq(Names)
         /\ IsFiniteSet(DOMAIN req.sources[a].tree)
         /\ Closed(DOMAIN req.sources[a].tree)
         /\ <<>> \in DOMAIN req.sources[a].tree
         /\ \A r \in DOMAIN req.sources[a].tree :
              /\ req.sources[a].tree[r] \in {"file", "open", "shut"}
              /\ \A q \in Above(r) : req.sources[a].tree[q] # "file"
<1> DEFINE t == req.sources[a].tree
<1>1. req.sources \in BoundedSeq(Source, MaxSources)
  BY DEF Requests, SourceLists
<1>2. req.sources[a] \in Source
  BY <1>1 DEF BoundedSeq, SeqOf
<1>3. /\ req.sources[a].name \in Names
      /\ t \in Trees({"file"}, {"open", "shut"}, MaxEntries) /\ t # <<>>
  BY <1>2 DEF Source
<1> HIDE DEF t
<1>4. /\ t \in [DOMAIN t -> {"file", "open", "shut"}]
      /\ DOMAIN t \subseteq Seq(Names) /\ IsFiniteSet(DOMAIN t) /\ Closed(DOMAIN t)
      /\ \A r \in DOMAIN t : \A q \in Above(r) : t[q] \in {"open", "shut"}
  BY <1>3, TreeFacts
<1>5. DOMAIN t # {}
  BY <1>3, <1>4
<1>6. <<>> \in DOMAIN t
  <2>1. PICK r \in DOMAIN t : r \in Seq(Names)
    BY <1>4, <1>5
  <2>2. <<>> \in Prefixes(r)
    BY <2>1, EndsArePrefixes
  <2> QED
    BY <1>4, <2>2 DEF Closed
<1>7. \A r \in DOMAIN t : /\ t[r] \in {"file", "open", "shut"}
                          /\ \A q \in Above(r) : t[q] # "file"
  BY <1>4
<1> QED
  BY <1>3, <1>4, <1>6, <1>7 DEF t

\* What any command line and any destination have in common.
LEMMA RequestFacts ==
  ASSUME req \in Requests
  PROVE  /\ req.way \in {"put", "get"} /\ req.into \in {"plain", "slash", "bare"}
         /\ req.recurse \in BOOLEAN /\ req.preserve \in BOOLEAN
         /\ Len(req.sources) \in Nat /\ Len(req.sources) >= 1
         /\ req.start \in [DOMAIN req.start -> {Old, NewDir}]
         /\ DOMAIN req.start \subseteq Seq(Names) /\ Closed(DOMAIN req.start)
         /\ \A p \in DOMAIN req.start : \A q \in Above(p) : req.start[q] = NewDir
<1>1. /\ req.way \in {"put", "get"} /\ req.into \in {"plain", "slash", "bare"}
      /\ req.recurse \in BOOLEAN /\ req.preserve \in BOOLEAN
      /\ req.sources \in SourceLists /\ req.start \in Starts
  BY DEF Requests
<1>2. Len(req.sources) \in Nat /\ Len(req.sources) >= 1
  <2>1. req.sources \in BoundedSeq(Source, MaxSources) /\ req.sources # <<>>
    BY <1>1 DEF SourceLists
  <2>2. req.sources \in Seq(Source)
    BY <2>1 DEF BoundedSeq, SeqOf
  <2> QED
    BY <2>1, <2>2
<1>3. req.start \in Trees({Old}, {NewDir}, MaxEntries - 1)
  BY <1>1 DEF Starts
<1> QED
  BY <1>1, <1>2, <1>3, TreeFacts

-----------------------------------------------------------------------------
(* Where an entry goes.                                                    *)

\* The place of an entry is a path, below the source's name or not.
LEMMA PlaceFacts ==
  ASSUME NEW s, s.name \in Names, NEW rel \in Seq(Names)
  PROVE  /\ Place(s, rel) \in Seq(Names)
         /\ Place(s, rel) = IF Into THEN <<s.name>> \o rel ELSE rel
         /\ Into => Place(s, rel) # <<>>
<1>1. Place(s, rel) = IF Into THEN <<s.name>> \o rel ELSE rel
  BY ConcatEmptySeq DEF Place
<1>2. /\ <<s.name>> \o rel \in Seq(Names) /\ Len(<<s.name>> \o rel) = Len(rel) + 1
      /\ Len(rel) \in Nat /\ Len(<<>>) = 0
  BY JoinFacts
<1> QED
  BY <1>1, <1>2

\* What is above a place is the place of what is above, or the destination.
LEMMA PlacePrefix ==
  ASSUME NEW s, s.name \in Names, NEW rel \in Seq(Names), NEW q
  PROVE  q \in Prefixes(Place(s, rel))
           <=> (Into /\ q = <<>>) \/ \E t \in Prefixes(rel) : q = Place(s, t)
<1>1. Prefixes(rel) \subseteq Seq(Names)
  BY PrefixFacts
<1>2. CASE Into
  <2>1. /\ Place(s, rel) = <<s.name>> \o rel
        /\ \A t \in Prefixes(rel) : Place(s, t) = <<s.name>> \o t
    BY <1>1, <1>2, PlaceFacts
  <2>2. q \in Prefixes(<<s.name>> \o rel)
              <=> q = <<>> \/ \E t \in Prefixes(rel) : q = <<s.name>> \o t
    BY PrefixOfJoin
  <2> QED
    BY <1>2, <2>1, <2>2
<1>3. CASE ~Into
  <2>1. Place(s, rel) = rel /\ \A t \in Prefixes(rel) : Place(s, t) = t
    BY <1>1, <1>3, PlaceFacts
  <2> QED
    BY <1>3, <2>1
<1> QED
  BY <1>2, <1>3

\* Two entries have two places, unless sources have the same name.
LEMMA PlacesDiffer ==
  ASSUME NEW s, s.name \in Names, NEW r \in Seq(Names),
         NEW z, z.name \in Names, NEW t \in Seq(Names),
         s.name = z.name \/ Into,
         Place(s, r) \in Prefixes(Place(z, t))
  PROVE  s.name = z.name /\ r \in Prefixes(t)
<1>1. CASE Into
  <2>1. Place(s, r) = <<s.name>> \o r /\ Place(s, r) # <<>>
    BY <1>1, PlaceFacts
  <2>2. PICK u \in Prefixes(t) : Place(s, r) = Place(z, u)
    <3> DEFINE q == Place(s, r)
    <3>1. q \in Prefixes(Place(z, t)) /\ q # <<>>
      BY <2>1
    <3> HIDE DEF q
    <3>2. \E u \in Prefixes(t) : q = Place(z, u)
      BY <3>1, PlacePrefix
    <3> QED
      BY <3>2 DEF q
  <2>3. u \in Seq(Names)
    BY PrefixFacts
  <2>4. Place(z, u) = <<z.name>> \o u
    BY <1>1, <2>3, PlaceFacts
  <2>5. s.name = z.name /\ r = u
    <3>1. <<s.name>> \o r = <<z.name>> \o u
      BY <2>1, <2>2, <2>4
    <3>2. PICK n \in Names, m \in Names : n = s.name /\ m = z.name
      OBVIOUS
    <3>3. <<n>> \o r = <<m>> \o u
      BY <3>1, <3>2
    <3>4. n = m /\ r = u
      BY <2>3, <3>3, JoinCancels
    <3> QED
      BY <3>2, <3>4
  <2> QED
    BY <2>5
<1>2. CASE ~Into
  BY <1>2, PlaceFacts
<1> QED
  BY <1>1, <1>2

-----------------------------------------------------------------------------
(* The list of jobs.                                                       *)

\* A walk visits every entry, and none after what is in it.
LEMMA WalkFacts ==
  ASSUME NEW S \in SUBSET Seq(Names), IsFiniteSet(S), NEW w \in Walks(S)
  PROVE  /\ w \in Seq(S)
         /\ \A r \in S : \E b \in 1..Len(w) : w[b] = r
         /\ \A a, b \in 1..Len(w) : a < b => w[b] \notin Prefixes(w[a])
<1> DEFINE n == Cardinality(S)
           D == 1..n
<1>1. n \in Nat
  BY FS_CardinalityType
<1>2. /\ w \in [D -> S] /\ \A a, b \in D : a # b => w[a] # w[b]
      /\ \A a, b \in DOMAIN w : a < b => ~IsStrictPrefix(w[b], w[a])
  BY DEF Walks, SetToSeqs
<1> HIDE DEF n
<1>3. w \in Seq(S) /\ Len(w) = n /\ DOMAIN w = D
  BY <1>1, <1>2
<1>4. IsFiniteSet(D) /\ Cardinality(D) = n
  <2>1. 1 \in Int /\ n \in Int
    BY <1>1
  <2> QED
    BY <1>1, <2>1, FS_Interval
<1>5. w \in Injection(D, S)
  BY <1>2 DEF Injection, IsInjective
<1>6. w \in Surjection(D, S)
  <2> HIDE DEF D
  <2> QED
    BY <1>4, <1>5, FS_Injection DEF n
<1>7. \A r \in S : \E b \in 1..Len(w) : w[b] = r
  BY <1>3, <1>6 DEF Surjection
<1>8. ASSUME NEW a \in 1..Len(w), NEW b \in 1..Len(w), a < b
      PROVE  w[b] \notin Prefixes(w[a])
  <2>1. /\ w[a] \in Seq(Names) /\ w[b] \in Seq(Names) /\ w[a] # w[b]
        /\ ~IsStrictPrefix(w[b], w[a])
    BY <1>2, <1>3, <1>8
  <2> QED
    BY <2>1, PrefixOrder
<1> QED
  BY <1>3, <1>7, <1>8

\* A walk finds entries of the tree, and what is above each of them.
LEMMA FoundFacts ==
  ASSUME req \in Requests, NEW a \in 1..Len(req.sources), NEW hidden
  PROVE  LET s == req.sources[a]
         IN  /\ Found(s, hidden) \in SUBSET Seq(Names) /\ IsFiniteSet(Found(s, hidden))
             /\ Found(s, hidden) \subseteq DOMAIN s.tree
             /\ Found(s, hidden) \subseteq Found(s, {})
             /\ \A r \in Found(s, hidden) : Above(r) \cap Found(s, {}) \subseteq Found(s, hidden)
<1> DEFINE s == req.sources[a]
<1>1. /\ <<>> \in DOMAIN s.tree /\ DOMAIN s.tree \subseteq Seq(Names)
      /\ IsFiniteSet(DOMAIN s.tree)
  BY SourceFacts
<1> HIDE DEF s
<1>2. Found(s, hidden) \in SUBSET DOMAIN s.tree
  BY <1>1 DEF Found
<1>3. Found(s, hidden) \subseteq Found(s, {})
  BY DEF Found
<1>4. ASSUME NEW r \in Found(s, hidden), NEW q \in Above(r) \cap Found(s, {})
      PROVE  q \in Found(s, hidden)
  <2>1. r \in Seq(Names)
    BY <1>1, <1>2
  <2>2. Above(q) \subseteq Above(r)
    BY <2>1, PrefixOrder DEF Above
  <2> QED
    BY <2>2 DEF Found
<1>5. IsFiniteSet(Found(s, hidden))
  BY <1>1, <1>2, FS_Subset
<1>6. Found(s, hidden) \in SUBSET Seq(Names)
  BY <1>1, <1>2
<1> QED
  BY <1>2, <1>3, <1>4, <1>5, <1>6 DEF s

\* While sources are listed, the code and options.rs agree.
LEMMA StemIsPlace ==
  ASSUME TypeOK, OnTheWay, phase = "list", NEW s, NEW rel
  PROVE  JobOf(s, rel) = Planned(s, rel)
<1>1. req.way \in {"put", "get"} /\ req.recurse \in BOOLEAN
  BY RequestFacts DEF TypeOK
<1>2. Get /\ req.recurse => (IsDir(<<>>) <=> <<>> \in DOMAIN req.start)
  BY DEF OnTheWay, IsDir, NewDir
<1>3. Stem(s) \o rel = Place(s, rel)
  BY <1>1, <1>2 DEF Stem, Place, Into, Put, Get
<1> QED
  BY <1>3 DEF JobOf, Planned

\* The job planned for an entry is a job.
LEMMA PlannedIsJob ==
  ASSUME req \in Requests, NEW a \in 1..Len(req.sources),
         NEW rel \in DOMAIN req.sources[a].tree
  PROVE  Planned(req.sources[a], rel) \in Job
<1> DEFINE s == req.sources[a]
<1>1. s.name \in Names /\ rel \in Seq(Names) /\ s.tree[rel] \in {"file", "open", "shut"}
  BY SourceFacts
<1> HIDE DEF s
<1>2. Place(s, rel) \in Seq(Names)
  BY <1>1, PlaceFacts
<1>3. Last(<<s.name>> \o rel) \in Names
  <2> DEFINE p == <<s.name>> \o rel
  <2>1. p \in Seq(Names) /\ Len(p) = Len(rel) + 1 /\ Len(rel) \in Nat
    BY <1>1, JoinFacts
  <2> HIDE DEF p
  <2>2. p[Len(p)] \in Names
    BY <2>1
  <2> QED
    BY <2>2 DEF Last, p
<1>4. req.recurse \in BOOLEAN
  BY RequestFacts
<1>5. EndsInSlash(rel, Place(s, rel)) \in BOOLEAN
  BY DEF EndsInSlash
<1> QED
  BY <1>1, <1>2, <1>3, <1>4, <1>5 DEF Planned, JobFor, Job, s

\* Sources that go to places of their own go into directories of their names.
LEMMA ApartFacts ==
  ASSUME TypeOK, OnTheWay, phase = "list", Apart, ~Single
  PROVE  Into /\ \A a, b \in 1..Len(req.sources) :
                    a # b => req.sources[a].name # req.sources[b].name
<1>1. req.way \in {"put", "get"}
  BY RequestFacts DEF TypeOK
<1> QED
  BY <1>1 DEF OnTheWay, Apart, Into, Put, Get

\* What a step that lists a source adds.
Grows(s, hidden, w) ==
  /\ k' = k + 1 /\ Len(jobs') = Len(jobs) + Len(w)
  /\ \A b \in 1..Len(jobs) : jobs'[b] = jobs[b]
  /\ \A b \in 1..Len(w) : jobs'[Len(jobs) + b] = Planned(s, w[b])
  /\ full' => hidden = {} /\ full

\* Listing a source appends one job per entry found, in the walk's order.
LEMMA ListSourceAdds ==
  ASSUME Inv, ListSource
  PROVE  /\ phase = "list" /\ k + 1 \in 1..Len(req.sources) /\ jobs' \in Seq(Job)
         /\ UNCHANGED <<req, fs, phase, i, ok, faulty>> /\ full' \in BOOLEAN
         /\ \E hidden \in SUBSET DOMAIN req.sources[k + 1].tree :
            \E w \in Walks(Found(req.sources[k + 1], hidden)) :
              Grows(req.sources[k + 1], hidden, w)
<1> DEFINE s == req.sources[k + 1]
<1>1. phase = "list" /\ k + 1 \in 1..Len(req.sources) /\ req \in Requests
  BY RequestFacts DEF ListSource, Inv, TypeOK
<1>12. PICK hidden \in SUBSET DOMAIN s.tree : \E w \in Walks(Found(s, hidden)) :
         /\ jobs' = jobs \o [a \in DOMAIN w |-> JobOf(s, w[a])]
         /\ full' = (full /\ hidden = {})
  BY DEF ListSource
<1>2. PICK w \in Walks(Found(s, hidden)) :
        /\ jobs' = jobs \o [a \in DOMAIN w |-> JobOf(s, w[a])]
        /\ full' = (full /\ hidden = {})
  BY <1>12
<1>3. UNCHANGED <<req, fs, phase, i, ok, faulty>> /\ k' = k + 1
  BY DEF ListSource
<1>4. w \in Seq(Found(s, hidden)) /\ Found(s, hidden) \subseteq DOMAIN s.tree
  <2>1. /\ Found(s, hidden) \in SUBSET Seq(Names) /\ IsFiniteSet(Found(s, hidden))
        /\ Found(s, hidden) \subseteq DOMAIN s.tree
    BY <1>1, FoundFacts
  <2> HIDE DEF s
  <2> QED
    BY <2>1, WalkFacts
<1> DEFINE new == [a \in 1..Len(w) |-> Planned(s, w[a])]
<1>5. [a \in DOMAIN w |-> JobOf(s, w[a])] = new
  <2>1. DOMAIN w = 1..Len(w)
    BY <1>4
  <2>2. \A a \in 1..Len(w) : JobOf(s, w[a]) = Planned(s, w[a])
    BY <1>1, StemIsPlace DEF Inv
  <2> QED
    BY <2>1, <2>2
<1>6. new \in Seq(Job) /\ Len(new) = Len(w) /\ \A b \in 1..Len(w) : new[b] = Planned(s, w[b])
  <2>1. Len(w) \in Nat /\ \A a \in 1..Len(w) : w[a] \in DOMAIN s.tree
    BY <1>4
  <2>2. \A a \in 1..Len(w) : Planned(s, w[a]) \in Job
    BY <1>1, <2>1, PlannedIsJob
  <2>3. new \in [1..Len(w) -> Job]
    BY <2>2
  <2> HIDE DEF s
  <2> QED
    BY <2>1, <2>3
<1>7. jobs \in Seq(Job) /\ jobs' = jobs \o new
  BY <1>2, <1>5 DEF Inv, TypeOK
<1> HIDE DEF s, new
<1>8. /\ jobs' \in Seq(Job) /\ Len(jobs') = Len(jobs) + Len(w)
      /\ Len(jobs) \in Nat /\ Len(w) \in Nat
      /\ \A b \in 1..Len(jobs) + Len(w) :
           jobs'[b] = IF b <= Len(jobs) THEN jobs[b] ELSE new[b - Len(jobs)]
  <2>1. /\ jobs \o new \in Seq(Job) /\ Len(jobs \o new) = Len(jobs) + Len(new)
        /\ \A b \in 1..Len(jobs) + Len(new) :
             (jobs \o new)[b] = IF b <= Len(jobs) THEN jobs[b] ELSE new[b - Len(jobs)]
    BY <1>6, <1>7, ConcatProperties, ZenonT(20)
  <2>2. Len(jobs) \in Nat /\ Len(w) \in Nat
    BY <1>4, <1>7
  <2> QED
    BY <1>6, <1>7, <2>1, <2>2
<1>9. /\ \A b \in 1..Len(jobs) : jobs'[b] = jobs[b]
      /\ \A b \in 1..Len(w) : jobs'[Len(jobs) + b] = Planned(s, w[b])
  <2>1. \A b \in 1..Len(jobs) : b \in 1..Len(jobs) + Len(w) /\ b <= Len(jobs)
    BY <1>8
  <2>2. \A b \in 1..Len(w) : /\ Len(jobs) + b \in 1..Len(jobs) + Len(w)
                             /\ ~(Len(jobs) + b <= Len(jobs))
                             /\ Len(jobs) + b - Len(jobs) = b
    BY <1>8
  <2> QED
    BY <1>6, <1>8, <2>1, <2>2
<1>10. full' \in BOOLEAN /\ (full' => hidden = {} /\ full)
  BY <1>2
<1>11. Grows(s, hidden, w)
  BY <1>3, <1>8, <1>9, <1>10 DEF Grows
<1> QED
  BY <1>1, <1>3, <1>8, <1>10, <1>11 DEF s

\* The jobs added come from the source, and none of its entries is left out.
LEMMA ListKeepsSources == Inv /\ ListSource => FromSources' /\ AllListed'
<1> SUFFICES ASSUME Inv, ListSource PROVE FromSources' /\ AllListed'
  OBVIOUS
<1>0. PICK s : s = req.sources[k + 1]
  OBVIOUS
<1>1. /\ phase = "list" /\ k + 1 \in 1..Len(req.sources) /\ jobs' \in Seq(Job)
      /\ UNCHANGED req
      /\ req \in Requests /\ jobs \in Seq(Job)
  BY ListSourceAdds DEF Inv, TypeOK
<1>2. PICK hidden \in SUBSET DOMAIN s.tree :
        \E w \in Walks(Found(s, hidden)) : Grows(s, hidden, w)
  BY <1>0, ListSourceAdds
<1>3. PICK w \in Walks(Found(s, hidden)) : Grows(s, hidden, w)
  BY <1>2
<1>4. /\ Found(s, hidden) \in SUBSET Seq(Names) /\ IsFiniteSet(Found(s, hidden))
      /\ Found(s, hidden) \subseteq Found(s, {})
      /\ \A r \in Found(s, hidden) : Above(r) \cap Found(s, {}) \subseteq Found(s, hidden)
  BY <1>1, <1>0, FoundFacts
<1>5. w \in Seq(Found(s, hidden)) /\ \A r \in Found(s, hidden) : \E b \in 1..Len(w) : w[b] = r
  BY <1>4, WalkFacts
<1>6. /\ DOMAIN jobs = 1..Len(jobs) /\ DOMAIN jobs' = 1..Len(jobs')
      /\ Len(jobs) \in Nat /\ Len(w) \in Nat /\ Len(jobs') = Len(jobs) + Len(w)
      /\ k' = k + 1 /\ k \in Nat /\ req'.sources[k'] = s
  BY <1>1, <1>3, <1>5, <1>0 DEF Grows, Inv, TypeOK
<1>7. /\ \A b \in 1..Len(jobs) : b \in 1..Len(jobs') /\ jobs'[b] = jobs[b]
      /\ \A b \in 1..Len(w) : /\ Len(jobs) + b \in 1..Len(jobs')
                              /\ jobs'[Len(jobs) + b] = Planned(s, w[b])
      /\ \A b \in 1..Len(jobs') : \/ b \in 1..Len(jobs)
                                  \/ \E a \in 1..Len(w) : b = Len(jobs) + a
  <2>1. \A b \in 1..Len(jobs') : \/ b \in 1..Len(jobs)
                                 \/ (b - Len(jobs) \in 1..Len(w)
                                     /\ b = Len(jobs) + (b - Len(jobs)))
    BY <1>6
  <2>2. \A b \in 1..Len(jobs) : b \in 1..Len(jobs')
    BY <1>6
  <2>3. \A b \in 1..Len(w) : Len(jobs) + b \in 1..Len(jobs')
    BY <1>6
  <2> QED
    BY <1>3, <2>1, <2>2, <2>3 DEF Grows
<1>8. \A z, r : /\ Planned(z, r)' = Planned(z, r) /\ Found(z, {})' = Found(z, {})
  BY <1>1 DEF Planned, JobFor, EndsInSlash, Place, Into, Single, Put, Get, Found
<1>9. \A r \in Found(s, hidden) : \E c \in 1..Len(jobs') : jobs'[c] = Planned(s, r)
  BY <1>5, <1>7
<1>10. FromSources'
  <2>1. ASSUME NEW b, NEW z, NEW rel \in Found(z, {}),
               jobs'[b] = Planned(z, rel),
               \A q \in Above(rel) \cap Found(z, {}) :
                 \E c \in 1..Len(jobs') : jobs'[c] = Planned(z, q)
        PROVE  IsFrom(b, z)'
    BY <1>6, <1>8, <2>1 DEF IsFrom
  <2>2. ASSUME NEW b \in 1..Len(jobs)
        PROVE  \E a \in 1..k : IsFrom(b, req.sources[a])'
    <3>1. PICK a \in 1..k : IsFrom(b, req.sources[a])
      BY <1>6 DEF Inv, FromSources
    <3>5. PICK z : z = req.sources[a] /\ IsFrom(b, z) /\ req'.sources[a] = z
      BY <1>1, <3>1
    <3>2. PICK rel \in Found(z, {}) :
            /\ jobs[b] = Planned(z, rel)
            /\ \A q \in Above(rel) \cap Found(z, {}) :
                 \E c \in DOMAIN jobs : jobs[c] = Planned(z, q)
      BY <3>5 DEF IsFrom
    <3>4. /\ jobs'[b] = Planned(z, rel)
          /\ \A q \in Above(rel) \cap Found(z, {}) :
               \E c \in 1..Len(jobs') : jobs'[c] = Planned(z, q)
      BY <1>6, <1>7, <3>2
    <3>3. IsFrom(b, z)'
      BY <2>1, <3>4
    <3> QED
      BY <3>3, <3>5
  <2>3. ASSUME NEW a \in 1..Len(w)
        PROVE  \E b : b = Len(jobs) + a /\ IsFrom(b, s)'
    <3>1. w[a] \in Found(s, hidden)
      BY <1>5, ElementOfSeq
    <3>2. w[a] \in Found(s, {}) /\ \A q \in Above(w[a]) \cap Found(s, {}) :
                                     \E c \in 1..Len(jobs') : jobs'[c] = Planned(s, q)
      BY <1>4, <1>9, <3>1
    <3>3. jobs'[Len(jobs) + a] = Planned(s, w[a])
      BY <1>7
    <3>4. PICK b : b = Len(jobs) + a
      OBVIOUS
    <3> QED
      BY <2>1, <3>2, <3>3, <3>4
  <2>4. ASSUME NEW b \in 1..Len(jobs')
        PROVE  \E a \in 1..k' : IsFrom(b, req.sources[a])'
    <3>1. CASE b \in 1..Len(jobs)
      <4>1. PICK a \in 1..k : IsFrom(b, req.sources[a])'
        BY <2>2, <3>1
      <4>2. a \in 1..k'
        BY <1>6
      <4> QED
        BY <4>1, <4>2
    <3>2. CASE b \notin 1..Len(jobs)
      <4>1. PICK a \in 1..Len(w) : b = Len(jobs) + a
        BY <1>7, <3>2
      <4>2. IsFrom(b, s)'
        BY <2>3, <4>1
      <4>3. PICK c \in 1..k' : req'.sources[c] = s
        BY <1>6
      <4> QED
        BY <4>2, <4>3
    <3> QED
      BY <3>1, <3>2
  <2> QED
    BY <1>6, <2>4 DEF FromSources
<1>11. AllListed'
  <2> SUFFICES ASSUME full', NEW a \in 1..k', NEW rel \in Found(req.sources[a], {})'
               PROVE  \E b \in DOMAIN jobs' : jobs'[b] = Planned(req.sources[a], rel)'
    BY DEF AllListed
  <2>0. PICK z : z = req.sources[a] /\ z = req'.sources[a]
    BY <1>1
  <2>4. rel \in Found(z, {})
    BY <1>8, <2>0
  <2>1. hidden = {} /\ full
    BY <1>3 DEF Grows
  <2>2. CASE a \in 1..k
    <3>1. \E b \in 1..Len(jobs) : jobs[b] = Planned(z, rel)
      BY <1>6, <2>0, <2>1, <2>2, <2>4 DEF Inv, AllListed
    <3> QED
      BY <1>6, <1>7, <1>8, <2>0, <3>1
  <2>3. CASE a \notin 1..k
    <3>1. z = s
      BY <1>6, <2>0, <2>3
    <3>2. \E b \in 1..Len(jobs') : jobs'[b] = Planned(z, rel)
      BY <1>9, <2>1, <2>4, <3>1
    <3> QED
      BY <1>6, <1>8, <2>0, <3>2
  <2> QED
    BY <2>2, <2>3
<1> QED
  BY <1>10, <1>11

\* Every job is for some entry of some source.
LEMMA JobIsPlanned ==
  ASSUME TypeOK, FromSources, NEW b \in 1..Len(jobs)
  PROVE  \E a \in 1..k : \E rel \in Found(req.sources[a], {}) :
           /\ a \in 1..Len(req.sources) /\ rel \in Seq(Names)
           /\ rel \in DOMAIN req.sources[a].tree
           /\ jobs[b] = Planned(req.sources[a], rel)
           /\ \A q \in Above(rel) \cap Found(req.sources[a], {}) :
                \E c \in 1..Len(jobs) : jobs[c] = Planned(req.sources[a], q)
<1>1. DOMAIN jobs = 1..Len(jobs)
  BY DEF TypeOK
<1>2. PICK a \in 1..k : IsFrom(b, req.sources[a])
  BY <1>1 DEF FromSources
<1>3. a \in 1..Len(req.sources) /\ req \in Requests
  BY RequestFacts DEF TypeOK
<1>4. PICK rel \in Found(req.sources[a], {}) :
        /\ jobs[b] = Planned(req.sources[a], rel)
        /\ \A q \in Above(rel) \cap Found(req.sources[a], {}) :
             \E c \in 1..Len(jobs) : jobs[c] = Planned(req.sources[a], q)
  BY <1>1, <1>2 DEF IsFrom
<1>5. Found(req.sources[a], {}) \subseteq DOMAIN req.sources[a].tree
  BY <1>3, FoundFacts
<1>6. rel \in DOMAIN req.sources[a].tree /\ rel \in Seq(Names)
  BY <1>3, <1>5, SourceFacts
<1> QED
  BY <1>3, <1>4, <1>6

\* A job's path is the place of its entry.
LEMMA PathIsPlace == \A s, rel : Planned(s, rel).path = Place(s, rel)
BY DEF Planned, JobFor

\* The jobs added contain no earlier place, nor are they one, when the sources
\* go to places of their own.
LEMMA ListKeepsOrder == Inv /\ ListSource => InOrder'
<1> SUFFICES ASSUME Inv, ListSource, Apart'
             PROVE  \A b, c \in DOMAIN jobs' : b < c =>
                      jobs'[c].path \notin Prefixes(jobs'[b].path)
  BY DEF InOrder
<1>0. PICK s : s = req.sources[k + 1]
  OBVIOUS
<1>1. /\ phase = "list" /\ k + 1 \in 1..Len(req.sources) /\ jobs' \in Seq(Job)
      /\ UNCHANGED req /\ k \in Nat
      /\ req \in Requests /\ jobs \in Seq(Job)
  BY ListSourceAdds DEF Inv, TypeOK
<1>2. PICK hidden \in SUBSET DOMAIN s.tree :
        \E w \in Walks(Found(s, hidden)) : Grows(s, hidden, w)
  BY <1>0, ListSourceAdds
<1>3. PICK w \in Walks(Found(s, hidden)) : Grows(s, hidden, w)
  BY <1>2
<1>4. /\ Found(s, hidden) \in SUBSET Seq(Names) /\ IsFiniteSet(Found(s, hidden))
      /\ s.name \in Names
  BY <1>0, <1>1, FoundFacts, SourceFacts
<1>5. /\ w \in Seq(Found(s, hidden)) /\ Len(w) \in Nat
      /\ \A b, c \in 1..Len(w) : b < c => w[c] \notin Prefixes(w[b])
      /\ \A b \in 1..Len(w) : w[b] \in Seq(Names)
  <2>1. w \in Seq(Found(s, hidden)) /\ \A b, c \in 1..Len(w) : b < c => w[c] \notin Prefixes(w[b])
    BY <1>4, WalkFacts
  <2>2. Len(w) \in Nat /\ \A b \in 1..Len(w) : w[b] \in Found(s, hidden)
    BY <2>1
  <2> QED
    BY <1>4, <2>1, <2>2
<1>6. Apart
  BY <1>1 DEF Apart, Single, Get
<1>7. \A a \in 1..k : Into /\ req.sources[a].name # s.name
  <2> SUFFICES ASSUME NEW a \in 1..k
               PROVE  Into /\ req.sources[a].name # s.name
    OBVIOUS
  <2>1. a \in 1..Len(req.sources) /\ a # k + 1 /\ ~Single
    <3>1. Len(req.sources) \in Nat
      BY <1>1, RequestFacts
    <3>2. k \in Nat /\ k + 1 \in 1..Len(req.sources)
      BY <1>1
    <3>3. a \in Nat /\ a >= 1 /\ a <= k /\ k + 1 <= Len(req.sources)
      BY <3>1, <3>2
    <3>4. Len(req.sources) # 1
      <4>1. ASSUME NEW n \in Nat, k + 1 <= n
            PROVE  n # 1
        BY <3>2, <3>3, <4>1
      <4> QED
        BY <3>1, <3>3, <4>1
    <3> QED
      BY <3>1, <3>2, <3>3, <3>4 DEF Single
  <2> QED
    BY <1>0, <1>1, <1>6, <2>1, ApartFacts DEF Inv
<1>8. Len(jobs) \in Nat /\ Len(jobs') = Len(jobs) + Len(w) /\ DOMAIN jobs' = 1..Len(jobs')
  BY <1>1, <1>3 DEF Grows
<1>9. ASSUME NEW b \in 1..Len(w)
      PROVE  jobs'[Len(jobs) + b].path = Place(s, w[b])
  BY <1>3, PathIsPlace DEF Grows
<1> SUFFICES ASSUME NEW b \in 1..Len(jobs'), NEW c \in 1..Len(jobs'), b < c
             PROVE  jobs'[c].path \notin Prefixes(jobs'[b].path)
  BY <1>8
<1>10. CASE c <= Len(jobs)
  <2>1. b \in 1..Len(jobs) /\ c \in 1..Len(jobs) /\ DOMAIN jobs = 1..Len(jobs)
    BY <1>1, <1>8, <1>10
  <2>2. jobs'[b] = jobs[b] /\ jobs'[c] = jobs[c]
    BY <1>3, <2>1 DEF Grows
  <2> QED
    BY <1>6, <2>1, <2>2 DEF Inv, InOrder
<1>11. CASE c > Len(jobs)
  <2>1. PICK u \in 1..Len(w) : c = Len(jobs) + u
    <3>1. c - Len(jobs) \in 1..Len(w) /\ c = Len(jobs) + (c - Len(jobs))
      BY <1>5, <1>8, <1>11
    <3> QED
      BY <3>1
  <2>2. jobs'[c].path = Place(s, w[u]) /\ w[u] \in Seq(Names)
    BY <1>5, <1>9, <2>1
  <2>3. CASE b <= Len(jobs)
    <3>1. b \in 1..Len(jobs) /\ jobs'[b] = jobs[b]
      BY <1>3, <1>8, <2>3 DEF Grows
    <3>2. PICK a \in 1..k : \E rel \in Seq(Names) :
            a \in 1..Len(req.sources) /\ jobs[b] = Planned(req.sources[a], rel)
      BY <3>1, JobIsPlanned DEF Inv
    <3>3. PICK rel \in Seq(Names) :
            a \in 1..Len(req.sources) /\ jobs[b] = Planned(req.sources[a], rel)
      BY <3>2
    <3>4. PICK z : z = req.sources[a]
      OBVIOUS
    <3>5. z.name \in Names /\ Into /\ z.name # s.name
      BY <1>1, <1>7, <3>3, <3>4, SourceFacts
    <3>6. jobs'[b].path = Place(z, rel)
      BY <3>1, <3>3, <3>4, PathIsPlace
    <3>7. Place(s, w[u]) \notin Prefixes(Place(z, rel))
      BY <1>4, <2>2, <3>5, PlacesDiffer
    <3> QED
      BY <2>2, <3>6, <3>7
  <2>4. CASE b > Len(jobs)
    <3>1. PICK v \in 1..Len(w) : b = Len(jobs) + v
      <4>1. b - Len(jobs) \in 1..Len(w) /\ b = Len(jobs) + (b - Len(jobs))
        BY <1>5, <1>8, <2>4
      <4> QED
        BY <4>1
    <3>2. jobs'[b].path = Place(s, w[v]) /\ w[v] \in Seq(Names)
      BY <1>5, <1>9, <3>1
    <3>3. v < u
      BY <1>5, <1>8, <2>1, <3>1
    <3>4. w[u] \notin Prefixes(w[v])
      BY <1>5, <3>3
    <3>5. Place(s, w[u]) \notin Prefixes(Place(s, w[v]))
      BY <1>4, <2>2, <3>2, <3>4, PlacesDiffer
    <3> QED
      BY <2>2, <3>2, <3>5
  <2> QED
    BY <1>8, <2>3, <2>4
<1> QED
  BY <1>8, <1>10, <1>11

-----------------------------------------------------------------------------
(* What does not change with the destination.                              *)

\* What is planned depends on the command line only.
LEMMA SameRequest ==
  ASSUME UNCHANGED req
  PROVE  /\ \A z, r : /\ Planned(z, r)' = Planned(z, r) /\ Place(z, r)' = Place(z, r)
                      /\ Found(z, {})' = Found(z, {})
         /\ Put' = Put /\ Get' = Get /\ Single' = Single /\ Into' = Into
         /\ Apart' = Apart /\ Clean' = Clean /\ OnlyRoot' = OnlyRoot
         /\ \A p : Concerns(p)' = Concerns(p)
<1>1. Put' = Put /\ Get' = Get /\ Single' = Single
  BY DEF Put, Get, Single
<1>2. Into' = Into
  BY <1>1 DEF Into
<1>3. \A z, r : /\ Place(z, r)' = Place(z, r) /\ Found(z, {})' = Found(z, {})
  BY <1>2 DEF Place, Found
<1>4. \A z, r : Planned(z, r)' = Planned(z, r)
  BY <1>1, <1>2 DEF Planned, JobFor, EndsInSlash, Place
<1>5. Apart' = Apart
  BY <1>1 DEF Apart
<1>6. OnlyRoot' = OnlyRoot /\ Nothing' = Nothing
  BY DEF OnlyRoot, Nothing
<1>7. \A a : RootFile(a)' = RootFile(a)
  BY DEF RootFile
<1>8. Clean' = Clean
  BY <1>1, <1>5, <1>6, <1>7 DEF Clean
<1>9. \A p : Concerns(p)' = Concerns(p)
  BY <1>2 DEF Concerns, Place
<1> QED
  BY <1>1, <1>2, <1>3, <1>4, <1>5, <1>6, <1>8, <1>9

\* A step that leaves the list alone keeps what is said of it.
LEMMA ListKept ==
  ASSUME Inv, UNCHANGED <<req, k, jobs, full>>
  PROVE  FromSources' /\ AllListed' /\ InOrder'
<1>1. FromSources'
  <2>1. \A b, z : IsFrom(b, z)' = IsFrom(b, z)
    BY SameRequest DEF IsFrom
  <2> QED
    BY <2>1 DEF Inv, FromSources
<1>2. AllListed'
  BY SameRequest DEF Inv, AllListed
<1>3. InOrder'
  BY SameRequest DEF Inv, InOrder
<1> QED
  BY <1>1, <1>2, <1>3

-----------------------------------------------------------------------------
(* What a step does to the destination.                                    *)

\* Directories are made; what is there stays.
LEMMA MakingFacts ==
  ASSUME TypeOK, NEW Q \in SUBSET Seq(Names), fs' = Adding(Q, NewDir)
  PROVE  /\ DOMAIN fs' = DOMAIN fs \cup Q /\ fs' \in [DOMAIN fs' -> Entry]
         /\ DOMAIN fs' \subseteq Seq(Names)
         /\ \A p \in DOMAIN fs : fs'[p] = fs[p]
         /\ \A p \in Q \ DOMAIN fs : fs'[p] = NewDir
<1>1. fs' = [p \in DOMAIN fs \cup Q |-> IF p \in DOMAIN fs THEN fs[p] ELSE NewDir]
  BY DEF Adding
<1>2. NewDir \in Entry
  BY DEF NewDir, Entry
<1>3. fs \in [DOMAIN fs -> Entry] /\ DOMAIN fs \subseteq Seq(Names)
  BY DEF TypeOK
<1>4. /\ DOMAIN fs' = DOMAIN fs \cup Q
      /\ \A p \in DOMAIN fs : fs'[p] = fs[p]
      /\ \A p \in Q \ DOMAIN fs : fs'[p] = NewDir
  BY <1>1
<1>5. fs' \in [DOMAIN fs' -> Entry]
  BY <1>1, <1>2, <1>3
<1> QED
  BY <1>3, <1>4, <1>5

\* A file is written, whole or in part.
LEMMA WritingFacts ==
  ASSUME TypeOK, NEW t \in Seq(Names), NEW e \in {Copied, Part}, fs' = With(t, e)
  PROVE  /\ DOMAIN fs' = DOMAIN fs \cup {t} /\ fs' \in [DOMAIN fs' -> Entry]
         /\ DOMAIN fs' \subseteq Seq(Names)
         /\ fs'[t] = e
         /\ \A p \in DOMAIN fs : p # t => fs'[p] = fs[p]
<1>1. fs' = [p \in DOMAIN fs \cup {t} |-> IF p = t THEN e ELSE fs[p]]
  BY DEF With
<1>2. e \in Entry
  BY DEF Copied, Part, Entry
<1>3. fs \in [DOMAIN fs -> Entry] /\ DOMAIN fs \subseteq Seq(Names)
  BY DEF TypeOK
<1>4. /\ DOMAIN fs' = DOMAIN fs \cup {t} /\ fs'[t] = e
      /\ \A p \in DOMAIN fs : p # t => fs'[p] = fs[p]
  BY <1>1
<1>5. fs' \in [DOMAIN fs' -> Entry]
  BY <1>1, <1>2, <1>3
<1> QED
  BY <1>3, <1>4, <1>5

\* Permissions are set.
LEMMA StampingFacts ==
  ASSUME TypeOK, NEW t \in DOMAIN fs, NEW m \in {"default", "open", "shut"},
         fs' = [fs EXCEPT ![t].mode = m]
  PROVE  /\ DOMAIN fs' = DOMAIN fs /\ fs' \in [DOMAIN fs' -> Entry]
         /\ fs'[t].is = fs[t].is /\ fs'[t].mode = m
         /\ \A p \in DOMAIN fs : p # t => fs'[p] = fs[p]
<1>1. fs \in [DOMAIN fs -> Entry] /\ fs[t] \in Entry
  BY DEF TypeOK
<1>2. fs' = [fs EXCEPT ![t] = [fs[t] EXCEPT !.mode = m]]
  OBVIOUS
<1>3. /\ [fs[t] EXCEPT !.mode = m] \in Entry
      /\ [fs[t] EXCEPT !.mode = m].is = fs[t].is
      /\ [fs[t] EXCEPT !.mode = m].mode = m
  BY <1>1 DEF Entry
<1>4. PICK e \in Entry : fs' = [fs EXCEPT ![t] = e] /\ e.is = fs[t].is /\ e.mode = m
  BY <1>2, <1>3
<1> QED
  BY <1>1, <1>4

\* Where a job writes is a place of its entry.
LEMMA JobConcerns ==
  ASSUME TypeOK, FromSources, NEW b \in 1..Len(jobs),
         NEW p \in {jobs[b].path, Append(jobs[b].path, jobs[b].name),
                    jobs[b].path \o <<jobs[b].name, jobs[b].name>>}
  PROVE  Concerns(p)
<1>1. PICK a \in 1..k : \E rel \in Found(req.sources[a], {}) :
        /\ a \in 1..Len(req.sources) /\ rel \in DOMAIN req.sources[a].tree
        /\ jobs[b] = Planned(req.sources[a], rel)
  BY JobIsPlanned
<1>2. PICK rel \in DOMAIN req.sources[a].tree :
        a \in 1..Len(req.sources) /\ jobs[b] = Planned(req.sources[a], rel)
  BY <1>1
<1>3. /\ jobs[b].path = Place(req.sources[a], rel)
      /\ jobs[b].name = Last(<<req.sources[a].name>> \o rel)
  BY <1>2 DEF Planned, JobFor
<1> QED
  BY <1>2, <1>3 DEF Concerns

\* A file is written to its job's path, or below it where a directory is.
LEMMA TargetFacts ==
  ASSUME NEW job \in Job
  PROVE  /\ Target(job) \in {job.path, Append(job.path, job.name),
                             job.path \o <<job.name, job.name>>}
         /\ Target(job) \in Seq(Names)
         /\ ~IsDir(job.path) => Target(job) = job.path
<1>1. job.path \in Seq(Names) /\ job.name \in Names
  BY DEF Job
<1> DEFINE one == Append(job.path, job.name)
           two == job.path \o <<job.name, job.name>>
<1>2. one \in Seq(Names) /\ two \in Seq(Names)
  BY <1>1
<1>3. Append(one, job.name) = two
  <2>1. Len(two) = Len(job.path) + 2 /\ Len(Append(one, job.name)) = Len(job.path) + 2
    BY <1>1
  <2>2. Append(one, job.name) \in Seq(Names)
    BY <1>1, <1>2
  <2>3. \A a \in 1..Len(job.path) + 2 : Append(one, job.name)[a] = two[a]
    BY <1>1
  <2> HIDE DEF one, two
  <2> QED
    BY <1>1, <1>2, <2>1, <2>2, <2>3, SeqEqual
<1>4. Target(job) \in {job.path, one, Append(one, job.name)}
  BY DEF Target
<1>5. ~IsDir(job.path) => Target(job) = job.path
  BY DEF Target
<1> HIDE DEF one, two
<1>6. Target(job) \in {job.path, one, two}
  BY <1>3, <1>4
<1>7. Target(job) \in Seq(Names)
  BY <1>1, <1>2, <1>6
<1> QED
  BY <1>5, <1>6, <1>7 DEF one, two

-----------------------------------------------------------------------------
(* One step at a time: before the transfers.                               *)

\* What was expected stays so while jobs are only added.
LEMMA ExpectedKept ==
  ASSUME UNCHANGED req, NEW p, UNCHANGED IsDir(p), Expected(p),
         \A b \in DOMAIN jobs : b \in DOMAIN jobs' /\ jobs'[b] = jobs[b]
  PROVE  Expected(p)'
<1>1. OnlyRoot' = OnlyRoot /\ IsDir(p)' = IsDir(p) /\ req' = req
  BY SameRequest
<1>2. CASE IsDir(p)
  <2>1. (p = <<>> /\ OnlyRoot) \/ \E b \in DOMAIN jobs : jobs[b].dir /\ jobs[b].path = p
    BY <1>2 DEF Expected
  <2> QED
    BY <1>1, <1>2, <2>1 DEF Expected
<1>3. CASE ~IsDir(p)
  <2>1. PICK b \in DOMAIN jobs : ~jobs[b].dir /\ (jobs[b].path = p \/ ~req.recurse)
    BY <1>3 DEF Expected
  <2>2. ~jobs'[b].dir /\ (jobs'[b].path = p \/ ~req'.recurse) /\ b \in DOMAIN jobs'
    BY <1>1, <2>1
  <2> QED
    BY <1>1, <1>3, <2>2 DEF Expected
<1> QED
  BY <1>2, <1>3

\* No job is listed, and the destination is as it was.
LEMMA Initially == Init => Inv
<1> SUFFICES ASSUME Init PROVE Inv
  OBVIOUS
<1>1. req \in Requests /\ fs = req.start
  BY DEF Init
<1>2. /\ req.start \in [DOMAIN req.start -> {Old, NewDir}]
      /\ DOMAIN req.start \subseteq Seq(Names) /\ Closed(DOMAIN req.start)
      /\ Len(req.sources) \in Nat
  BY <1>1, RequestFacts
<1>3. /\ Old \in Entry /\ NewDir \in Entry /\ NewDir.is = "dir"
      /\ Old.mode = "default" /\ NewDir.mode = "default"
  BY DEF Old, NewDir, Entry
<1>4. fs \in [DOMAIN fs -> Entry] /\ \A p \in DOMAIN fs : fs[p].mode = "default"
  BY <1>1, <1>2, <1>3
<1>5. TypeOK
  <2>1. jobs = <<>> /\ jobs \in Seq(Job) /\ Len(jobs) = 0
    BY DEF Init
  <2>2. \A b \in {full, ok, faulty} : b \in BOOLEAN
    BY DEF Init
  <2> QED
    BY <1>1, <1>2, <1>4, <2>1, <2>2 DEF Init, TypeOK
<1>6. OnTheWay
  BY DEF Init, OnTheWay
<1>7. FromSources /\ AllListed /\ InOrder
  BY DEF Init, FromSources, AllListed, InOrder
<1>8. SoFar /\ Stamped
  BY <1>4 DEF Init, SoFar, Stamped
<1>9. DirsStay /\ NothingElseTouched
  BY <1>1, <1>3 DEF Init, DirsStay, NothingElseTouched, IsDir
<1>10. Undisturbed
  <2>1. ASSUME Clean, NEW p \in DOMAIN fs
        PROVE  IsDir(p) /\ p = <<>> /\ OnlyRoot
    BY <1>1, <1>3, <2>1 DEF Clean, OnlyRoot, Nothing, IsDir
  <2> QED
    BY <2>1 DEF Undisturbed, Expected, Init
<1> QED
  BY <1>5, <1>6, <1>7, <1>8, <1>9, <1>10 DEF Inv

\* CheckDestination only looks.
LEMMA CheckKeeps == Inv /\ CheckDestination => Inv'
<1> SUFFICES ASSUME Inv, CheckDestination PROVE Inv'
  OBVIOUS
<1>1. /\ phase = "check" /\ phase' \in {"fatal", "list"}
      /\ UNCHANGED <<req, fs, k, jobs, i, full, ok, faulty>>
      /\ fs = req.start
  BY DEF CheckDestination, Inv, OnTheWay
<1>2. TypeOK'
  BY <1>1 DEF Inv, TypeOK, Final
<1>3. req.start \in [DOMAIN req.start -> {Old, NewDir}]
  BY RequestFacts DEF Inv, TypeOK
<1>4. OnTheWay'
  <2>1. ASSUME phase' = "list", Get, req.recurse
        PROVE  IF <<>> \in DOMAIN req.start THEN req.start[<<>>] = NewDir ELSE Single
    BY <1>1, <1>3, <2>1 DEF CheckDestination, IsDir, Old, NewDir
  <2> QED
    BY <1>1, <2>1, SameRequest DEF Inv, OnTheWay
<1>5. FromSources' /\ AllListed' /\ InOrder'
  BY <1>1, ListKept
<1>6. SoFar' /\ Stamped'
  BY <1>1 DEF Inv, SoFar, Stamped
<1>7. DirsStay' /\ NothingElseTouched'
  BY <1>1, SameRequest DEF Inv, DirsStay, NothingElseTouched, IsDir
<1>8. Undisturbed'
  <2>1. Clean => phase' # "fatal"
    BY <1>1 DEF CheckDestination, Clean, OnlyRoot, Nothing, IsDir, NewDir
  <2>2. \A p \in DOMAIN fs : Expected(p) => Expected(p)'
    BY <1>1, ExpectedKept DEF IsDir
  <2> QED
    BY <1>1, <2>1, <2>2, SameRequest DEF Inv, Undisturbed
<1> QED
  BY <1>2, <1>4, <1>5, <1>6, <1>7, <1>8 DEF Inv

\* Listing a source touches nothing at the destination.
LEMMA ListSourceKeeps == Inv /\ ListSource => Inv'
<1> SUFFICES ASSUME Inv, ListSource PROVE Inv'
  OBVIOUS
<1>1. /\ phase = "list" /\ k + 1 \in 1..Len(req.sources) /\ jobs' \in Seq(Job)
      /\ UNCHANGED <<req, fs, phase, i, ok, faulty>> /\ full' \in BOOLEAN
      /\ k' = k + 1 /\ i = 1 /\ jobs \in Seq(Job)
  BY ListSourceAdds DEF Inv, OnTheWay, ListSource, TypeOK
<1>2. Len(jobs') >= Len(jobs) /\ \A b \in 1..Len(jobs) : jobs'[b] = jobs[b]
  <2>1. PICK hidden \in SUBSET DOMAIN req.sources[k + 1].tree :
          \E w \in Walks(Found(req.sources[k + 1], hidden)) :
            Grows(req.sources[k + 1], hidden, w)
    BY ListSourceAdds
  <2>2. PICK w \in Walks(Found(req.sources[k + 1], hidden)) :
          Grows(req.sources[k + 1], hidden, w)
    BY <2>1
  <2>3. Len(jobs') = Len(jobs) + Len(w)
    BY <2>2 DEF Grows
  <2>4. w \in Seq(Found(req.sources[k + 1], hidden))
    <3>1. /\ Found(req.sources[k + 1], hidden) \in SUBSET Seq(Names)
          /\ IsFiniteSet(Found(req.sources[k + 1], hidden))
      BY <1>1, FoundFacts DEF Inv, TypeOK
    <3> QED
      BY <3>1, WalkFacts
  <2>5. Len(w) \in Nat /\ Len(jobs) \in Nat
    BY <1>1, <2>4
  <2> QED
    BY <2>2, <2>3, <2>5 DEF Grows
<1>3. TypeOK'
  <2>1. k' \in 0..Len(req.sources) /\ i' \in 0..Len(jobs') + 1
    BY <1>1, RequestFacts DEF Inv, TypeOK
  <2> QED
    BY <1>1, <2>1 DEF Inv, TypeOK
<1>4. OnTheWay'
  BY <1>1, SameRequest DEF Inv, OnTheWay
<1>5. FromSources' /\ AllListed' /\ InOrder'
  BY ListKeepsSources, ListKeepsOrder
<1>6. SoFar' /\ Stamped'
  BY <1>1 DEF Inv, SoFar, Stamped
<1>7. DirsStay' /\ NothingElseTouched'
  BY <1>1, SameRequest DEF Inv, DirsStay, NothingElseTouched, IsDir
<1>8. Undisturbed'
  <2>1. \A b \in DOMAIN jobs : b \in DOMAIN jobs' /\ jobs'[b] = jobs[b]
    <3>1. DOMAIN jobs = 1..Len(jobs) /\ DOMAIN jobs' = 1..Len(jobs')
      BY <1>1
    <3>2. Len(jobs) \in Nat /\ Len(jobs') \in Nat
      BY <1>1
    <3> QED
      BY <1>2, <3>1, <3>2
  <2>2. \A p \in DOMAIN fs : Expected(p) => Expected(p)'
    BY <1>1, <2>1, ExpectedKept DEF IsDir
  <2> QED
    BY <1>1, <2>2, SameRequest DEF Inv, Undisturbed
<1> QED
  BY <1>3, <1>4, <1>5, <1>6, <1>7, <1>8 DEF Inv

\* What failed is outside the client.
LEMMA FatalKeeps == Inv /\ (ListFails \/ NoStream) => Inv'
<1> SUFFICES ASSUME Inv, ListFails \/ NoStream PROVE Inv'
  OBVIOUS
<1>1. /\ phase \notin {"check", "panic"} /\ phase' = "fatal" /\ faulty'
      /\ UNCHANGED <<req, fs, k, jobs, i, full, ok>>
  BY DEF ListFails, NoStream, Posting
<1>2. faulty' \in BOOLEAN
  BY DEF ListFails, NoStream
<1>3. TypeOK'
  BY <1>1, <1>2 DEF Inv, TypeOK, Final
<1>4. OnTheWay'
  BY <1>1, SameRequest DEF Inv, OnTheWay
<1>5. FromSources' /\ AllListed' /\ InOrder'
  BY <1>1, ListKept
<1>6. SoFar' /\ Stamped'
  BY <1>1 DEF Inv, SoFar, Stamped
<1>7. DirsStay' /\ NothingElseTouched'
  BY <1>1, SameRequest DEF Inv, DirsStay, NothingElseTouched, IsDir
<1>8. Undisturbed'
  BY <1>1 DEF Undisturbed
<1> QED
  BY <1>3, <1>4, <1>5, <1>6, <1>7, <1>8 DEF Inv

-----------------------------------------------------------------------------
(* What a job finds.                                                       *)

\* What the arithmetic of the proofs needs to know of the list.
LEMMA Types ==
  ASSUME Inv
  PROVE  /\ DOMAIN jobs = 1..Len(jobs) /\ Len(jobs) \in Nat /\ i \in Nat /\ i <= Len(jobs) + 1
         /\ \A b \in 1..Len(jobs) : jobs[b] \in Job /\ jobs[b].path \in Seq(Names)
<1>1. jobs \in Seq(Job) /\ i \in 0..Len(jobs) + 1
  BY DEF Inv, TypeOK
<1>2. \A b \in 1..Len(jobs) : jobs[b] \in Job
  BY <1>1
<1>3. \A j \in Job : j.path \in Seq(Names)
  BY DEF Job
<1> QED
  BY <1>1, <1>2, <1>3

\* A job is for a directory exactly if its entry is one, in a recursive copy.
LEMMA DirIsPlanned ==
  ASSUME NEW s, NEW rel
  PROVE  Planned(s, rel).dir <=> req.recurse /\ s.tree[rel] # "file"
BY DEF Planned, JobFor

\* A directory above the place of a job is that of an earlier one.
LEMMA Containing ==
  ASSUME Inv, Apart, NEW b \in 1..Len(jobs), NEW q \in Above(jobs[b].path)
  PROVE  \/ q = <<>> /\ (Into \/ req.into = "bare")
         \/ \E c \in 1..b - 1 : jobs[c].dir /\ jobs[c].path = q
<1>1. TypeOK /\ FromSources /\ req \in Requests /\ DOMAIN jobs = 1..Len(jobs)
  BY DEF Inv, TypeOK
<1>2. PICK a \in 1..k : \E rel \in Found(req.sources[a], {}) :
        /\ a \in 1..Len(req.sources) /\ rel \in Seq(Names)
        /\ rel \in DOMAIN req.sources[a].tree
        /\ jobs[b] = Planned(req.sources[a], rel)
        /\ \A t \in Above(rel) \cap Found(req.sources[a], {}) :
             \E c \in 1..Len(jobs) : jobs[c] = Planned(req.sources[a], t)
  BY <1>1, JobIsPlanned
<1>3. PICK s : s = req.sources[a]
  OBVIOUS
<1>4. PICK rel \in Found(s, {}) :
        /\ a \in 1..Len(req.sources) /\ rel \in Seq(Names) /\ rel \in DOMAIN s.tree
        /\ jobs[b] = Planned(s, rel)
        /\ \A t \in Above(rel) \cap Found(s, {}) :
             \E c \in 1..Len(jobs) : jobs[c] = Planned(s, t)
  BY <1>2, <1>3
<1>5. /\ s.name \in Names /\ Closed(DOMAIN s.tree)
      /\ \A t \in Above(rel) : s.tree[t] # "file"
  BY <1>1, <1>3, <1>4, SourceFacts
<1>6. jobs[b].path = Place(s, rel) /\ q \in Prefixes(Place(s, rel)) /\ q # Place(s, rel)
  BY <1>4, PathIsPlace DEF Above
<1>7. CASE Into /\ q = <<>>
  BY <1>7
<1>8. CASE ~(Into /\ q = <<>>)
  <2>1. PICK t \in Prefixes(rel) : q = Place(s, t)
    BY <1>4, <1>5, <1>6, <1>8, PlacePrefix
  <2>2. t \in Above(rel) /\ t \in DOMAIN s.tree /\ t \in Seq(Names)
    BY <1>4, <1>5, <1>6, <2>1, PrefixFacts DEF Above, Closed
  <2>3. req.recurse
    <3>1. rel # <<>>
      <4>1. ASSUME rel = <<>>
            PROVE  t = rel
        <5>1. t \in Seq(Names) /\ Len(t) <= Len(<<>>)
          BY <1>4, <2>1, <4>1, PrefixFacts
        <5> QED
          BY <4>1, <5>1
      <4> QED
        BY <2>2, <4>1 DEF Above
    <3> QED
      BY <1>4, <3>1 DEF Found
  <2>4. CASE t \in Found(s, {})
    <3>1. PICK c \in 1..Len(jobs) : jobs[c] = Planned(s, t)
      BY <1>4, <2>2, <2>4
    <3>2. jobs[c].path = q /\ jobs[c].dir
      <4>1. jobs[c].path = q
        BY <2>1, <3>1, PathIsPlace
      <4>2. s.tree[t] # "file"
        BY <1>5, <2>2
      <4>3. jobs[c].dir
        BY <2>3, <3>1, <4>2, DirIsPlanned
      <4> QED
        BY <4>1, <4>3
    <3>3. c # b /\ ~(b < c)
      BY <1>1, <1>6, <3>2 DEF Inv, InOrder
    <3>4. c \in 1..b - 1
      BY <3>3
    <3> QED
      BY <3>2, <3>4
  <2>5. CASE t \notin Found(s, {})
    <3>1. req.into = "bare" /\ t = <<>>
      BY <2>2, <2>3, <2>5 DEF Found
    <3>2. Put /\ ~Into
      BY <2>3, <3>1 DEF Inv, OnTheWay, Into, Put, Get
    <3>3. q = <<>>
      BY <1>5, <2>1, <2>2, <3>1, <3>2, PlaceFacts
    <3> QED
      BY <3>1, <3>3
  <2> QED
    BY <2>4, <2>5
<1> QED
  BY <1>7, <1>8

\* One place is not the place of two jobs.
LEMMA PathIsOnes ==
  ASSUME Inv, Apart, NEW b \in 1..Len(jobs), NEW c \in 1..Len(jobs),
         jobs[b].path = jobs[c].path
  PROVE  b = c
<1>1. DOMAIN jobs = 1..Len(jobs) /\ jobs[b].path \in Seq(Names)
  BY Types
<1>2. jobs[b].path \in Prefixes(jobs[c].path) /\ jobs[c].path \in Prefixes(jobs[b].path)
  BY <1>1, EndsArePrefixes
<1> QED
  BY <1>1, <1>2 DEF Inv, InOrder

\* Nobody is locked out of what is above a job that is not done with.
LEMMA NothingShut ==
  ASSUME Inv, Apart, NEW b \in 1..Len(jobs), b <= i,
         NEW q \in Prefixes(jobs[b].path) \cap DOMAIN fs
  PROVE  fs[q].mode = "default"
<1>1. DOMAIN jobs = 1..Len(jobs) /\ i \in Nat /\ Len(jobs) \in Nat
  BY DEF Inv, TypeOK
<1>2. ASSUME fs[q].mode # "default"
      PROVE  FALSE
  <2>1. PICK c \in i + 1..Len(jobs) : jobs[c].path = q
    BY <1>2 DEF Inv, Stamped
  <2>2. b < c /\ c \in 1..Len(jobs)
    BY <1>1, <2>1
  <2> QED
    BY <1>1, <2>1, <2>2 DEF Inv, InOrder
<1> QED
  BY <1>2

\* What a clean copy is, for one source at a time.
LEMMA CleanFacts ==
  ASSUME Inv, Clean, phase \notin {"check", "panic", "fatal"}
  PROVE  /\ Apart
         /\ Into \/ req.into \in {"bare", "slash"} => OnlyRoot
         /\ OnlyRoot => IsDir(<<>>)
<1>1. OnlyRoot \/ (Nothing /\ Single /\ req.into = "plain")
  BY DEF Clean
<1>2. OnlyRoot => IsDir(<<>>)
  BY DEF Inv, DirsStay, OnlyRoot
<1>3. Into /\ Single /\ req.into = "plain" => <<>> \in DOMAIN req.start
  BY DEF Into
<1> QED
  BY <1>1, <1>2, <1>3 DEF Clean, Nothing

\* In a clean copy, nothing that a job needs is missing.
LEMMA CleanReach ==
  ASSUME Inv, Clean, NEW b \in 1..Len(jobs), b <= i,
         phase = "transfer" \/ (phase = "post" /\ ok)
  PROVE  Reachable(jobs[b].path)
<1>1. Apart
  BY CleanFacts
<1>0. /\ DOMAIN jobs = 1..Len(jobs) /\ Len(jobs) \in Nat /\ i \in Nat
      /\ jobs[b].path \in Seq(Names)
  BY Types
<1>2. ASSUME NEW q \in Above(jobs[b].path)
      PROVE  IsDir(q)
  <2>1. CASE q = <<>> /\ (Into \/ req.into = "bare")
    BY <2>1, CleanFacts
  <2>2. CASE \E c \in 1..b - 1 : jobs[c].dir /\ jobs[c].path = q
    <3>1. PICK c \in 1..b - 1 : jobs[c].dir /\ jobs[c].path = q
      BY <2>2
    <3>2. c \in 1..i - 1 /\ c \in DOMAIN jobs
      BY <1>0
    <3>3. Done(jobs[c])
      BY <3>2 DEF Inv, SoFar
    <3> QED
      BY <3>1, <3>3 DEF Done
  <2> QED
    BY <1>1, <2>1, <2>2, Containing
<1>3. ASSUME NEW q \in Above(jobs[b].path)
      PROVE  fs[q].mode # "shut"
  <2>1. q \in Prefixes(jobs[b].path) \cap DOMAIN fs
    BY <1>2, <1>3 DEF Above, IsDir
  <2> QED
    BY <1>1, <2>1, NothingShut
<1> QED
  BY <1>2, <1>3 DEF Reachable

\* In a clean copy no directory is kept from being made.
LEMMA CleanMake ==
  ASSUME Inv, Clean, phase = "transfer", i \in 1..Len(jobs), jobs[i].dir
  PROVE  CanMake(jobs[i])
<1>1. Apart /\ DOMAIN jobs = 1..Len(jobs) /\ jobs[i].path \in Seq(Names)
  BY CleanFacts, Types
<1>2. Reachable(jobs[i].path)
  BY <1>1, CleanReach, Types
<1>3. req.recurse
  <2>1. PICK a \in 1..k : \E rel \in Seq(Names) : jobs[i] = Planned(req.sources[a], rel)
    BY JobIsPlanned DEF Inv
  <2>2. PICK rel \in Seq(Names) : jobs[i] = Planned(req.sources[a], rel)
    BY <2>1
  <2> QED
    BY <2>2, DirIsPlanned
<1>4. jobs[i].path \in DOMAIN fs => IsDir(jobs[i].path)
  <2>1. ASSUME jobs[i].path \in DOMAIN fs, ~IsDir(jobs[i].path)
        PROVE  FALSE
    <3>1. PICK b \in DOMAIN jobs : ~jobs[b].dir /\ (jobs[b].path = jobs[i].path \/ ~req.recurse)
      BY <2>1 DEF Inv, Undisturbed, Expected
    <3>2. b = i
      BY <1>1, <1>3, <3>1, PathIsOnes
    <3> QED
      BY <3>1, <3>2
  <2> QED
    BY <2>1
<1>5. \A q \in Prefixes(jobs[i].path) : q \in DOMAIN fs => IsDir(q)
  BY <1>2, <1>4 DEF Reachable, Above
<1> QED
  BY <1>2, <1>4, <1>5 DEF CanMake

\* In a clean copy a file goes where nothing is: only the root of the
\* destination is in the way, of a copy without -r.
LEMMA CleanTarget ==
  ASSUME Inv, Clean, phase = "transfer", i \in 1..Len(jobs), ~jobs[i].dir
  PROVE  /\ CanCopy(jobs[i])
         /\ Target(jobs[i]) = jobs[i].path \/ ~req.recurse
<1> DEFINE job == jobs[i]
<1>1. /\ Apart /\ DOMAIN jobs = 1..Len(jobs) /\ job.path \in Seq(Names) /\ job \in Job
      /\ i \in Nat /\ req \in Requests
  BY CleanFacts, Types DEF Inv, TypeOK
<1>2. PICK a \in 1..k : \E rel \in Found(req.sources[a], {}) :
        /\ a \in 1..Len(req.sources) /\ rel \in Seq(Names)
        /\ rel \in DOMAIN req.sources[a].tree
        /\ jobs[i] = Planned(req.sources[a], rel)
  BY JobIsPlanned DEF Inv
<1>3. PICK s : s = req.sources[a]
  OBVIOUS
<1>4. PICK rel \in Found(s, {}) :
        /\ a \in 1..Len(req.sources) /\ rel \in Seq(Names) /\ rel \in DOMAIN s.tree
        /\ job = Planned(s, rel)
  BY <1>2, <1>3
<1>5. /\ s.name \in Names
      /\ job.path = Place(s, rel) /\ job.mode = s.tree[rel]
      /\ job.slash = EndsInSlash(rel, job.path)
      /\ req.recurse => s.tree[rel] = "file"
  <2>1. s.name \in Names
    BY <1>1, <1>3, <1>4, SourceFacts
  <2>2. job.path = Place(s, rel) /\ job.mode = s.tree[rel]
    BY <1>4 DEF Planned, JobFor
  <2>3. job.slash = EndsInSlash(rel, job.path)
    BY <1>4 DEF Planned, JobFor
  <2>4. req.recurse => s.tree[rel] = "file"
    BY <1>4, DirIsPlanned
  <2> QED
    BY <2>1, <2>2, <2>3, <2>4
<1>6. IF req.recurse THEN Put => s.tree[<<>>] # "file" ELSE s.tree[<<>>] = "file"
  BY <1>3, <1>4 DEF Clean, RootFile
<1>7. ~req.recurse => rel = <<>>
  BY <1>4 DEF Found
<1>8. job.mode = "file"
  BY <1>5, <1>6, <1>7
<1>9. job.slash => IsDir(job.path)
  <2>1. req.into = "slash" => IsDir(<<>>)
    BY CleanFacts
  <2> QED
    BY <1>5, <1>6, <2>1 DEF EndsInSlash
<1>10. CASE ~IsDir(job.path)
  <2>1. Target(job) = job.path
    BY <1>1, <1>10, TargetFacts
  <2>2. Reachable(job.path)
    BY <1>1, CleanReach
  <2> QED
    BY <1>8, <1>9, <1>10, <2>1, <2>2 DEF CanCopy
<1>11. CASE IsDir(job.path)
  <2>1. job.path = <<>> /\ OnlyRoot
    <3>1. job.path \in DOMAIN fs
      BY <1>11 DEF IsDir
    <3>2. \/ job.path = <<>> /\ OnlyRoot
          \/ \E b \in DOMAIN jobs : jobs[b].dir /\ jobs[b].path = job.path
      BY <1>11, <3>1 DEF Inv, Undisturbed, Expected
    <3>3. ASSUME NEW b \in DOMAIN jobs, jobs[b].dir, jobs[b].path = job.path
          PROVE  FALSE
      <4>1. b = i
        BY <1>1, <3>3, PathIsOnes
      <4> QED
        BY <3>3, <4>1
    <3> QED
      BY <3>2, <3>3
  <2>2. ~Into /\ rel = <<>>
    BY <1>4, <1>5, <2>1, PlaceFacts
  <2>3. ~req.recurse
    <3>1. req.way \in {"put", "get"} /\ <<>> \in DOMAIN req.start
      BY <1>1, <2>1, RequestFacts DEF OnlyRoot
    <3> QED
      BY <1>5, <1>6, <2>2, <3>1 DEF Into, Put, Get
  <2> DEFINE t == Append(job.path, job.name)
  <2>4. job.name \in Names /\ t \in Seq(Names) /\ Len(t) = 1 /\ t # <<>>
    <3>1. job.name \in Names
      BY <1>1 DEF Job
    <3>2. t = <<job.name>>
      BY <2>1
    <3> QED
      BY <3>1, <3>2
  <2>5. ~IsDir(t)
    <3>1. \A b \in DOMAIN jobs : ~jobs[b].dir
      <4> SUFFICES ASSUME NEW b \in 1..Len(jobs)
                   PROVE  ~jobs[b].dir
        BY <1>1
      <4>1. PICK c \in 1..k : \E r \in Seq(Names) : jobs[b] = Planned(req.sources[c], r)
        BY JobIsPlanned DEF Inv
      <4>2. PICK r \in Seq(Names) : jobs[b] = Planned(req.sources[c], r)
        BY <4>1
      <4> QED
        BY <2>3, <4>2, DirIsPlanned
    <3>2. IsDir(t) => t \in DOMAIN fs
      BY DEF IsDir
    <3> HIDE DEF t
    <3> QED
      BY <2>4, <3>1, <3>2 DEF Inv, Undisturbed, Expected
  <2>6. Target(job) = t
    BY <1>11, <2>5 DEF Target
  <2>7. Reachable(t)
    <3>1. ASSUME NEW q \in Above(t)
          PROVE  q = <<>>
      <4> HIDE DEF t
      <4>1. q \in Seq(Names) /\ Len(q) <= Len(t) /\ \A j \in 1..Len(q) : q[j] = t[j]
        BY <2>4, PrefixFacts DEF Above
      <4>2. Len(q) # 1
        <5>1. ASSUME Len(q) = 1
              PROVE  q = t
          BY <2>4, <4>1, <5>1, SeqEqual
        <5> QED
          BY <5>1 DEF Above
      <4>3. Len(q) = 0
        BY <2>4, <4>1, <4>2
      <4> QED
        BY <4>1, <4>3
    <3>2. IsDir(<<>>) /\ fs[<<>>].mode = "default"
      <4>1. <<>> \in Prefixes(job.path) \cap DOMAIN fs
        BY <1>1, <1>11, <2>1, EndsArePrefixes DEF IsDir
      <4>2. fs[<<>>].mode = "default"
        BY <1>1, <4>1, NothingShut
      <4> QED
        BY <1>11, <2>1, <4>2
    <3> QED
      BY <3>1, <3>2 DEF Reachable
  <2> QED
    BY <1>8, <1>9, <2>3, <2>5, <2>6, <2>7 DEF CanCopy
<1> QED
  BY <1>10, <1>11

\* In a clean copy that went well so far no permissions are kept from being set.
LEMMA CleanStamp ==
  ASSUME Inv, Clean, Posting, ok, Stamps(jobs[i])
  PROVE  CanStamp(jobs[i])
<1>1. phase = "post" /\ i \in 1..Len(jobs) /\ i \in DOMAIN jobs
  BY Types DEF Posting, Inv, OnTheWay
<1>2. IsDir(jobs[i].path)
  BY <1>1 DEF Inv, SoFar, Done, Stamps
<1>3. Reachable(jobs[i].path)
  BY <1>1, CleanReach, Types
<1> QED
  BY <1>2, <1>3 DEF CanStamp, IsDir

-----------------------------------------------------------------------------
(* One step at a time: the transfers.                                      *)

\* Only a destination without anything is given its root.
LEMMA ListDoneKeeps == Inv /\ ListDone => Inv'
<1> SUFFICES ASSUME Inv, ListDone PROVE Inv'
  OBVIOUS
<1>1. /\ phase = "list" /\ k = Len(req.sources) /\ fs = req.start /\ i = 1 /\ ok
      /\ phase' \in {"panic", "transfer"} /\ (phase' = "panic" <=> jobs = <<>>)
      /\ UNCHANGED <<req, k, jobs, i, full, ok, faulty>>
  BY DEF ListDone, Inv, OnTheWay
<1>2. TypeOK /\ req \in Requests /\ jobs \in Seq(Job)
  BY DEF Inv, TypeOK
<1>3. CASE fs' = fs
  <2>1. TypeOK'
    BY <1>1, <1>3 DEF Inv, TypeOK, Final
  <2>2. OnTheWay'
    BY <1>1, SameRequest DEF Inv, OnTheWay
  <2>3. FromSources' /\ AllListed' /\ InOrder'
    BY <1>1, ListKept
  <2>4. SoFar' /\ Stamped'
    <3>1. \A b \in 1..i - 1 : FALSE
      BY <1>1
    <3> QED
      BY <1>1, <1>3, <3>1 DEF Inv, SoFar, Stamped
  <2>5. DirsStay' /\ NothingElseTouched'
    BY <1>1, <1>3, SameRequest DEF Inv, DirsStay, NothingElseTouched, IsDir
  <2>6. Undisturbed'
    <3>1. \A p \in DOMAIN fs : Expected(p) => Expected(p)'
      BY <1>1, <1>3, ExpectedKept DEF IsDir
    <3> QED
      BY <1>1, <1>3, <3>1, SameRequest DEF Inv, Undisturbed
  <2> QED
    BY <2>1, <2>2, <2>3, <2>4, <2>5, <2>6 DEF Inv
<1>4. CASE fs' # fs
  <2>1. /\ Get /\ req.recurse /\ <<>> \notin DOMAIN fs /\ jobs[1].dir
        /\ fs' = [q \in {<<>>} |-> NewDir]
    BY <1>4 DEF ListDone
  <2>2. DOMAIN req.start = {}
    <3>1. ASSUME NEW p \in DOMAIN req.start
          PROVE  FALSE
      <4>1. p \in Seq(Names) /\ Prefixes(p) \subseteq DOMAIN req.start
        BY <1>2, RequestFacts DEF Closed
      <4>2. <<>> \in DOMAIN req.start
        BY <4>1, EndsArePrefixes
      <4> QED
        BY <1>1, <2>1, <4>2
    <3> QED
      BY <3>1
  <2>3. DOMAIN fs' = {<<>>} /\ fs'[<<>>] = NewDir
    BY <2>1
  <2>4. TypeOK'
    <3>1. <<>> \in Seq(Names) /\ NewDir \in Entry
      BY DEF NewDir, Entry
    <3>2. fs' \in [DOMAIN fs' -> Entry] /\ DOMAIN fs' \subseteq Seq(Names)
      BY <2>3, <2>1, <3>1
    <3>3. Closed(DOMAIN fs')
      <4>1. Prefixes(<<>>) \subseteq {<<>>}
        <5>1. ASSUME NEW q \in Prefixes(<<>>)
              PROVE  q = <<>>
          <6>1. q \in Seq(Names) /\ Len(q) <= Len(<<>>)
            BY <3>1, PrefixFacts
          <6> QED
            BY <6>1
        <5> QED
          BY <5>1
      <4> QED
        BY <2>3, <4>1 DEF Closed
    <3> QED
      BY <1>1, <1>2, <3>2, <3>3 DEF TypeOK, Final
  <2>5. OnTheWay'
    BY <1>1, SameRequest DEF Inv, OnTheWay
  <2>6. FromSources' /\ AllListed' /\ InOrder'
    BY <1>1, ListKept
  <2>7. SoFar' /\ Stamped'
    <3>1. \A b \in 1..i - 1 : FALSE
      BY <1>1
    <3>2. \A p \in DOMAIN fs' : fs'[p].mode = "default"
      BY <2>3 DEF NewDir
    <3> QED
      BY <1>1, <3>1, <3>2 DEF SoFar, Stamped
  <2>8. DirsStay' /\ NothingElseTouched'
    BY <1>1, <2>2 DEF DirsStay, NothingElseTouched
  <2>9. Undisturbed'
    <3>1. ASSUME phase' = "transfer", Clean
          PROVE  Expected(<<>>)'
      <4>1. 1 \in 1..Len(jobs) /\ 1 \in DOMAIN jobs
        BY <1>1, <1>2, <3>1
      <4>2. ~Into
        BY <1>1, <2>1, <2>2 DEF Into
      <4>3. jobs[1].path = <<>>
        <5>1. PICK a \in 1..k : \E rel \in Found(req.sources[a], {}) :
                /\ a \in 1..Len(req.sources) /\ rel \in Seq(Names)
                /\ rel \in DOMAIN req.sources[a].tree
                /\ jobs[1] = Planned(req.sources[a], rel)
                /\ \A q \in Above(rel) \cap Found(req.sources[a], {}) :
                     \E c \in 1..Len(jobs) : jobs[c] = Planned(req.sources[a], q)
          BY <1>2, <4>1, JobIsPlanned DEF Inv
        <5>2. PICK rel \in Seq(Names) :
                jobs[1] = Planned(req.sources[a], rel)
          BY <5>1
        <5>3. req.sources[a].name \in Names
          BY <1>2, <5>1, SourceFacts
        <5>4. jobs[1].path \in Seq(Names)
          BY <4>1, Types
        <5>5. ASSUME jobs[1].path # <<>>
              PROVE  FALSE
          <6>1. <<>> \in Above(jobs[1].path)
            BY <5>4, <5>5, EndsArePrefixes DEF Above
          <6>2. req.into # "bare"
            BY <2>1 DEF Inv, OnTheWay, Put, Get
          <6>3. \E c \in 1..1 - 1 : jobs[c].dir /\ jobs[c].path = <<>>
            BY <3>1, <4>1, <4>2, <6>1, <6>2, Containing DEF Clean
          <6> QED
            BY <6>3
        <5> QED
          BY <5>5
      <4>4. IsDir(<<>>)' /\ jobs' = jobs
        BY <1>1, <2>3 DEF IsDir, NewDir
      <4> QED
        BY <2>1, <4>1, <4>3, <4>4 DEF Expected
    <3> QED
      BY <1>1, <2>3, <3>1, SameRequest DEF Undisturbed
  <2> QED
    BY <2>4, <2>5, <2>6, <2>7, <2>8, <2>9 DEF Inv
<1> QED
  BY <1>3, <1>4

\* In the transfer phase nobody has set permissions yet.
LEMMA AllDefault ==
  ASSUME Inv, phase = "transfer"
  PROVE  \A p \in DOMAIN fs : fs[p].mode = "default"
BY DEF Inv, Stamped

\* A directory is made, or was there, and nothing else changes.
LEMMA MakeDirKeeps == Inv /\ MakeDir => Inv'
<1> SUFFICES ASSUME Inv, MakeDir PROVE Inv'
  OBVIOUS
<1> DEFINE job == jobs[i]
           Q == IF Get THEN Prefixes(job.path) ELSE {job.path}
<1>1. /\ phase = "transfer" /\ i \in 1..Len(jobs) /\ job.dir /\ CanMake(job)
      /\ fs' = Adding(Q, NewDir) /\ i' = i + 1
      /\ UNCHANGED <<req, phase, k, jobs, full, ok, faulty>>
  BY Types DEF MakeDir, Made, Inv, OnTheWay
<1>2. /\ TypeOK /\ DOMAIN jobs = 1..Len(jobs) /\ Len(jobs) \in Nat /\ i \in Nat
      /\ job.path \in Seq(Names)
  BY <1>1, Types DEF Inv
<1>3. Q \in SUBSET Seq(Names) /\ job.path \in Q
  BY <1>2, PrefixFacts, EndsArePrefixes
<1> HIDE DEF Q
<1>4. /\ DOMAIN fs' = DOMAIN fs \cup Q /\ fs' \in [DOMAIN fs' -> Entry]
      /\ DOMAIN fs' \subseteq Seq(Names)
      /\ \A p \in DOMAIN fs : fs'[p] = fs[p]
      /\ \A p \in Q \ DOMAIN fs : fs'[p] = NewDir
  BY <1>1, <1>2, <1>3, MakingFacts
<1>5. Closed(DOMAIN fs')
  <2>1. ASSUME NEW p \in Q, NEW q \in Prefixes(p)
        PROVE  q \in DOMAIN fs'
    <3>1. CASE Get
      <4>1. q \in Prefixes(job.path)
        BY <1>2, <2>1, <3>1, PrefixOrder DEF Q
      <4> QED
        BY <1>4, <3>1, <4>1 DEF Q
    <3>2. CASE ~Get
      <4>1. q \in Prefixes(job.path)
        BY <2>1, <3>2 DEF Q
      <4>2. q \in Above(job.path) => q \in DOMAIN fs
        BY <1>1, <3>2 DEF CanMake, Reachable, IsDir
      <4> QED
        BY <1>3, <1>4, <4>1, <4>2 DEF Above
    <3> QED
      BY <3>1, <3>2
  <2> QED
    BY <1>2, <1>4, <2>1 DEF TypeOK, Closed
<1>6. TypeOK'
  <2>1. i' \in 0..Len(jobs') + 1
    BY <1>1, <1>2
  <2> QED
    BY <1>1, <1>2, <1>4, <1>5, <2>1 DEF TypeOK
<1>7. OnTheWay'
  BY <1>1, <1>2, SameRequest DEF Inv, OnTheWay
<1>8. FromSources' /\ AllListed' /\ InOrder'
  BY <1>1, ListKept
<1>9. \A p \in DOMAIN fs : p \in DOMAIN fs' /\ IsDir(p)' = IsDir(p)
  BY <1>4 DEF IsDir
<1>10. \A p \in Q \ DOMAIN fs : IsDir(p)'
  BY <1>4 DEF IsDir, NewDir
<1>11. PICK d : d = jobs[i].path
  OBVIOUS
<1>16. IsDir(d)'
  <2>1. CASE d \in DOMAIN fs
    <3>1. IsDir(d)
      BY <1>1, <1>2, <1>11, <2>1, EndsArePrefixes DEF CanMake
    <3> QED
      BY <1>9, <2>1, <3>1
  <2>2. CASE d \notin DOMAIN fs
    BY <1>3, <1>10, <1>11, <2>2
  <2> QED
    BY <2>1, <2>2
<1>12. SoFar'
  <2>1. ASSUME NEW b \in 1..i
        PROVE  Done(jobs[b])'
    <3>1. CASE b = i
      <4>1. jobs'[b].dir /\ jobs'[b].path = d
        BY <1>1, <1>11, <3>1
      <4> QED
        BY <1>16, <4>1 DEF Done
    <3>2. CASE b # i
      <4>1. b \in 1..i - 1 /\ Done(jobs[b])
        BY <1>1, <1>2, <3>2 DEF Inv, SoFar
      <4>2. CASE jobs[b].dir
        <5>1. IsDir(jobs[b].path) /\ jobs[b].path \in DOMAIN fs
          BY <4>1, <4>2 DEF Done, IsDir
        <5> QED
          BY <1>1, <1>9, <4>2, <5>1 DEF Done
      <4>3. CASE ~jobs[b].dir
        BY <1>1, <1>4, <1>9, <4>1, <4>3 DEF Done
      <4> QED
        BY <4>2, <4>3
    <3> QED
      BY <3>1, <3>2
  <2>2. i' - 1 = i /\ jobs' = jobs
    BY <1>1, <1>2
  <2> QED
    BY <1>1, <2>1, <2>2 DEF SoFar
<1>13. Stamped'
  <2>1. \A p \in DOMAIN fs' : fs'[p].mode = "default"
    BY <1>1, <1>4, AllDefault DEF NewDir
  <2> QED
    BY <1>1, <2>1 DEF Stamped
<1>14. DirsStay' /\ NothingElseTouched'
  <2>1. \A p \in DOMAIN req.start : p \in DOMAIN fs /\ fs'[p] = fs[p]
    BY <1>4 DEF Inv, DirsStay
  <2>2. DirsStay'
    BY <1>1, <1>9, <2>1 DEF Inv, DirsStay
  <2>3. NothingElseTouched'
    BY <1>1, <2>1, SameRequest DEF Inv, NothingElseTouched
  <2> QED
    BY <2>2, <2>3
<1>15. Undisturbed'
  <2> SUFFICES ASSUME Clean, NEW p \in DOMAIN fs'
               PROVE  Expected(p)'
    BY <1>1, SameRequest DEF Undisturbed
  <2>1. CASE p \in DOMAIN fs
    <3>1. Expected(p)
      BY <1>1, <2>1 DEF Inv, Undisturbed
    <3> QED
      BY <1>1, <1>9, <2>1, <3>1, ExpectedKept
  <2>2. CASE p \notin DOMAIN fs
    <3>1. p \in Q /\ IsDir(p)'
      BY <1>4, <1>10, <2>2
    <3>2. (p = <<>> /\ OnlyRoot) \/ \E b \in DOMAIN jobs : jobs[b].dir /\ jobs[b].path = p
      <4>1. CASE p = job.path
        BY <1>1, <1>2, <4>1
      <4>2. CASE p # job.path
        <5>1. p \in Above(job.path)
          BY <3>1, <4>2 DEF Q, Above
        <5>2. \/ p = <<>> /\ (Into \/ req.into = "bare")
              \/ \E c \in 1..i - 1 : jobs[c].dir /\ jobs[c].path = p
          BY <1>1, <5>1, CleanFacts, Containing
        <5>3. Into \/ req.into = "bare" => OnlyRoot
          BY <1>1, CleanFacts
        <5>4. \A c \in 1..i - 1 : c \in DOMAIN jobs
          BY <1>1, <1>2
        <5> QED
          BY <5>2, <5>3, <5>4
      <4> QED
        BY <4>1, <4>2
    <3> QED
      BY <1>1, <3>1, <3>2, SameRequest DEF Expected
  <2> QED
    BY <2>1, <2>2
<1> QED
  BY <1>6, <1>7, <1>8, <1>12, <1>13, <1>14, <1>15 DEF Inv

\* What a file that is written leaves of the destination.
LEMMA WriteKeeps ==
  ASSUME Inv, phase = "transfer", i \in 1..Len(jobs), ~jobs[i].dir, CanCopy(jobs[i]),
         NEW e \in {Copied, Part}, fs' = With(Target(jobs[i]), e),
         UNCHANGED <<req, jobs>>
  PROVE  /\ fs' \in [DOMAIN fs' -> Entry] /\ DOMAIN fs' \subseteq Seq(Names)
         /\ Closed(DOMAIN fs') /\ DOMAIN fs' = DOMAIN fs \cup {Target(jobs[i])}
         /\ fs'[Target(jobs[i])] = e
         /\ \A p \in DOMAIN fs : p # Target(jobs[i]) => fs'[p] = fs[p]
         /\ \A p : IsDir(p)' = IsDir(p)
         /\ \A p \in DOMAIN fs' : fs'[p].mode = "default"
         /\ DirsStay'
         /\ \A p \in DOMAIN req.start : fs'[p] = req.start[p] \/ Concerns(p)
<1> DEFINE t == Target(jobs[i])
<1>1. TypeOK /\ FromSources /\ jobs[i] \in Job
  BY Types DEF Inv
<1>2. /\ t \in Seq(Names) /\ ~IsDir(t) /\ Reachable(t)
      /\ t \in {jobs[i].path, Append(jobs[i].path, jobs[i].name),
                jobs[i].path \o <<jobs[i].name, jobs[i].name>>}
  BY <1>1, TargetFacts DEF CanCopy
<1>3. Concerns(t)
  BY <1>1, <1>2, JobConcerns
<1> HIDE DEF t
<1>4. /\ DOMAIN fs' = DOMAIN fs \cup {t} /\ fs' \in [DOMAIN fs' -> Entry]
      /\ DOMAIN fs' \subseteq Seq(Names)
      /\ fs'[t] = e
      /\ \A p \in DOMAIN fs : p # t => fs'[p] = fs[p]
  BY <1>1, <1>2, WritingFacts DEF t
<1>5. Closed(DOMAIN fs')
  <2>1. \A q \in Prefixes(t) : q \in DOMAIN fs'
    BY <1>2, <1>4 DEF Reachable, Above, IsDir
  <2> QED
    BY <1>1, <1>4, <2>1 DEF TypeOK, Closed
<1>6. e.is # "dir" /\ e.mode = "default"
  BY DEF Copied, Part
<1>7. ASSUME NEW p
      PROVE  IsDir(p)' = IsDir(p)
  <2>1. CASE p = t
    BY <1>2, <1>4, <1>6, <2>1 DEF IsDir
  <2>2. CASE p # t
    BY <1>4, <2>2 DEF IsDir
  <2> QED
    BY <2>1, <2>2
<1>8. \A p \in DOMAIN fs' : fs'[p].mode = "default"
  BY <1>4, <1>6, AllDefault
<1>9. DirsStay'
  BY <1>4, <1>7 DEF Inv, DirsStay
<1>10. \A p \in DOMAIN req.start : fs'[p] = req.start[p] \/ Concerns(p)
  BY <1>3, <1>4 DEF Inv, DirsStay, NothingElseTouched
<1> QED
  BY <1>4, <1>5, <1>7, <1>8, <1>9, <1>10 DEF t

\* A file is written to its place.
LEMMA CopyFileKeeps == Inv /\ CopyFile => Inv'
<1> SUFFICES ASSUME Inv, CopyFile PROVE Inv'
  OBVIOUS
<1> DEFINE t == Target(jobs[i])
<1>1. /\ phase = "transfer" /\ i \in 1..Len(jobs) /\ ~jobs[i].dir /\ CanCopy(jobs[i])
      /\ fs' = With(t, Copied) /\ i' = i + 1
      /\ UNCHANGED <<req, phase, k, jobs, full, ok, faulty>>
  BY Types DEF CopyFile, Inv, OnTheWay
<1>2. TypeOK /\ DOMAIN jobs = 1..Len(jobs) /\ Len(jobs) \in Nat /\ i \in Nat
  BY Types DEF Inv
<1>3. /\ fs' \in [DOMAIN fs' -> Entry] /\ DOMAIN fs' \subseteq Seq(Names)
      /\ Closed(DOMAIN fs') /\ DOMAIN fs' = DOMAIN fs \cup {t}
      /\ fs'[t] = Copied
      /\ \A p \in DOMAIN fs : p # t => fs'[p] = fs[p]
      /\ \A p : IsDir(p)' = IsDir(p)
      /\ \A p \in DOMAIN fs' : fs'[p].mode = "default"
      /\ DirsStay'
      /\ \A p \in DOMAIN req.start : fs'[p] = req.start[p] \/ Concerns(p)
  BY <1>1, WriteKeeps
<1>4. t \in {jobs[i].path, Append(jobs[i].path, jobs[i].name),
             jobs[i].path \o <<jobs[i].name, jobs[i].name>>}
  BY <1>1, Types, TargetFacts
<1> HIDE DEF t
<1>5. TypeOK'
  <2>1. i' \in 0..Len(jobs') + 1
    BY <1>1, <1>2
  <2> QED
    BY <1>1, <1>2, <1>3, <2>1 DEF TypeOK
<1>6. OnTheWay'
  BY <1>1, <1>2, SameRequest DEF Inv, OnTheWay
<1>7. FromSources' /\ AllListed' /\ InOrder'
  BY <1>1, ListKept
<1>8. SoFar'
  <2>1. ASSUME NEW b \in 1..i
        PROVE  Done(jobs[b])'
    <3>1. CASE b = i
      <4>1. jobs[i].mode = "file"
        BY <1>1 DEF CanCopy
      <4> QED
        BY <1>1, <1>3, <1>4, <3>1, <4>1 DEF Done
    <3>2. CASE b # i
      <4>1. b \in 1..i - 1 /\ Done(jobs[b])
        BY <1>1, <1>2, <3>2 DEF Inv, SoFar
      <4>2. CASE jobs[b].dir
        BY <1>1, <1>3, <4>1, <4>2 DEF Done
      <4>3. CASE ~jobs[b].dir
        <5>1. PICK q \in {jobs[b].path, Append(jobs[b].path, jobs[b].name),
                          jobs[b].path \o <<jobs[b].name, jobs[b].name>>} :
                q \in DOMAIN fs /\ fs[q] = Copied
          BY <4>1, <4>3 DEF Done
        <5>2. q \in DOMAIN fs' /\ fs'[q] = Copied
          BY <1>3, <5>1
        <5> QED
          BY <1>1, <4>1, <4>3, <5>2 DEF Done
      <4> QED
        BY <4>2, <4>3
    <3> QED
      BY <3>1, <3>2
  <2>2. i' - 1 = i /\ jobs' = jobs
    BY <1>1, <1>2
  <2> QED
    BY <1>1, <2>1, <2>2 DEF SoFar
<1>9. Stamped'
  BY <1>1, <1>3 DEF Stamped
<1>10. NothingElseTouched'
  BY <1>1, <1>3, SameRequest DEF NothingElseTouched
<1>11. Undisturbed'
  <2> SUFFICES ASSUME Clean, NEW p \in DOMAIN fs'
               PROVE  Expected(p)'
    BY <1>1, SameRequest DEF Undisturbed
  <2>1. CASE p = t
    <3>1. ~IsDir(p)' /\ jobs' = jobs /\ req' = req
      BY <1>1, <1>3, <2>1 DEF CanCopy, t
    <3>2. jobs[i].path = p \/ ~req.recurse
      BY <1>1, <2>1, CleanTarget DEF t
    <3> QED
      BY <1>1, <1>2, <3>1, <3>2 DEF Expected
  <2>2. CASE p # t
    <3>1. p \in DOMAIN fs /\ Expected(p)
      BY <1>1, <1>3, <2>2 DEF Inv, Undisturbed
    <3>2. IsDir(p)' = IsDir(p)
      BY <1>3
    <3> QED
      BY <1>1, <3>1, <3>2, ExpectedKept
  <2> QED
    BY <2>1, <2>2
<1> QED
  BY <1>3, <1>5, <1>6, <1>7, <1>8, <1>9, <1>10, <1>11 DEF Inv

\* When all jobs have been seen to the post phase starts from the last one.
LEMMA TransfersDoneKeeps == Inv /\ TransfersDone => Inv'
<1> SUFFICES ASSUME Inv, TransfersDone PROVE Inv'
  OBVIOUS
<1>1. /\ phase = "transfer" /\ ~(i <= Len(jobs)) /\ i' = Len(jobs) /\ ok
      /\ phase' = (IF Len(jobs) > 1 THEN "post" ELSE "end")
      /\ UNCHANGED <<req, fs, k, jobs, full, ok, faulty>>
  BY Types DEF TransfersDone, EndTransfers, Inv, OnTheWay
<1>2. /\ TypeOK /\ DOMAIN jobs = 1..Len(jobs) /\ Len(jobs) \in Nat /\ i \in Nat
      /\ i = Len(jobs) + 1
  BY <1>1, Types DEF Inv
<1>3. TypeOK'
  <2>1. i' \in 0..Len(jobs') + 1
    BY <1>1, <1>2
  <2> QED
    BY <1>1, <1>2, <2>1 DEF TypeOK, Final
<1>4. OnTheWay'
  <2>1. jobs' = jobs /\ i' <= Len(jobs) /\ k = Len(req.sources)
    BY <1>1, <1>2 DEF Inv, OnTheWay
  <2>2. req.into = "bare" => Put /\ <<>> \in DOMAIN req.start /\ req.start[<<>>] = NewDir
    BY DEF Inv, OnTheWay
  <2> QED
    BY <1>1, <2>1, <2>2, SameRequest DEF OnTheWay
<1>5. FromSources' /\ AllListed' /\ InOrder'
  BY <1>1, ListKept
<1>6. SoFar'
  <2>1. \A b \in DOMAIN jobs : b \in 1..i - 1
    BY <1>2
  <2>2. \A b \in DOMAIN jobs : Done(jobs[b])
    BY <1>1, <2>1 DEF Inv, SoFar
  <2>3. \A b \in DOMAIN jobs : Done(jobs[b])'
    BY <1>1, <2>2 DEF Done, IsDir
  <2> QED
    BY <1>1, <2>3 DEF SoFar
<1>7. Stamped'
  <2>1. \A p \in DOMAIN fs' : fs'[p].mode = "default"
    BY <1>1, AllDefault
  <2>2. \A b \in i' + 1..Len(jobs') : FALSE
    BY <1>1, <1>2
  <2> QED
    BY <1>1, <2>1, <2>2 DEF Stamped
<1>8. DirsStay' /\ NothingElseTouched'
  BY <1>1, SameRequest DEF Inv, DirsStay, NothingElseTouched, IsDir
<1>9. Undisturbed'
  BY <1>1 DEF Undisturbed
<1> QED
  BY <1>3, <1>4, <1>5, <1>6, <1>7, <1>8, <1>9 DEF Inv

\* In a clean copy, a job that fails could have been done.
LEMMA JobFailsKeeps == Inv /\ JobFails => Inv'
<1> SUFFICES ASSUME Inv, JobFails PROVE Inv'
  OBVIOUS
<1> DEFINE could == IF jobs[i].dir THEN CanMake(jobs[i]) ELSE CanCopy(jobs[i])
<1>1. /\ phase = "transfer" /\ i \in 1..Len(jobs) /\ i' = Len(jobs) /\ ok' = FALSE
      /\ phase' = (IF Len(jobs) > 1 THEN "post" ELSE "end")
      /\ faulty' = (faulty \/ could)
      /\ UNCHANGED <<req, k, jobs, full>>
      /\ \/ fs' = fs
         \/ could /\ ~jobs[i].dir /\ fs' = With(Target(jobs[i]), Part)
  BY Types DEF JobFails, EndTransfers, Inv, OnTheWay
<1>2. /\ TypeOK /\ DOMAIN jobs = 1..Len(jobs) /\ Len(jobs) \in Nat /\ i \in Nat
  BY <1>1, Types DEF Inv
<1>3. /\ fs' \in [DOMAIN fs' -> Entry] /\ DOMAIN fs' \subseteq Seq(Names)
      /\ Closed(DOMAIN fs')
      /\ \A p \in DOMAIN fs' : fs'[p].mode = "default"
      /\ DirsStay'
      /\ \A p \in DOMAIN req.start : fs'[p] = req.start[p] \/ Concerns(p)
  <2>1. CASE fs' = fs
    BY <1>1, <1>2, <2>1, AllDefault
       DEF TypeOK, Inv, DirsStay, IsDir, NothingElseTouched
  <2>2. CASE could /\ ~jobs[i].dir /\ fs' = With(Target(jobs[i]), Part)
    BY <1>1, <2>2, WriteKeeps
  <2> QED
    BY <1>1, <2>1, <2>2
<1>4. TypeOK'
  <2>1. i' \in 0..Len(jobs') + 1
    BY <1>1, <1>2
  <2>2. faulty' \in BOOLEAN /\ ok' \in BOOLEAN
    BY <1>1, <1>2 DEF TypeOK
  <2> QED
    BY <1>1, <1>2, <1>3, <2>1, <2>2 DEF TypeOK, Final
<1>5. OnTheWay'
  <2>1. jobs' = jobs /\ i' <= Len(jobs) /\ k = Len(req.sources)
    BY <1>1, <1>2 DEF Inv, OnTheWay
  <2>2. req.into = "bare" => Put /\ <<>> \in DOMAIN req.start /\ req.start[<<>>] = NewDir
    BY DEF Inv, OnTheWay
  <2>3. ~(Len(jobs) > 1) => i' <= Len(jobs) /\ Len(jobs) <= 1
    BY <1>1, <1>2
  <2> QED
    BY <1>1, <2>1, <2>2, SameRequest DEF OnTheWay
<1>6. FromSources' /\ AllListed' /\ InOrder'
  BY <1>1, ListKept
<1>7. SoFar' /\ Stamped'
  BY <1>1, <1>3 DEF SoFar, Stamped
<1>8. NothingElseTouched'
  BY <1>1, <1>3, SameRequest DEF NothingElseTouched
<1>9. Undisturbed'
  <2>1. Clean => could
    BY <1>1, CleanMake, CleanTarget
  <2> QED
    BY <1>1, <2>1, SameRequest DEF Undisturbed
<1> QED
  BY <1>3, <1>4, <1>5, <1>6, <1>7, <1>8, <1>9 DEF Inv

-----------------------------------------------------------------------------
(* One step at a time: the permissions.                                    *)

\* The post phase passes over a job without permissions to set.
LEMMA PassJobKeeps == Inv /\ PassJob => Inv'
<1> SUFFICES ASSUME Inv, PassJob PROVE Inv'
  OBVIOUS
<1>1. /\ phase = "post" /\ i > 0 /\ ~Stamps(jobs[i]) /\ i' = i - 1
      /\ UNCHANGED <<req, fs, phase, k, jobs, full, ok, faulty>>
  BY DEF PassJob, Posting
<1>2. /\ TypeOK /\ DOMAIN jobs = 1..Len(jobs) /\ Len(jobs) \in Nat /\ i \in Nat
      /\ i \in 1..Len(jobs)
  BY <1>1, Types DEF Inv, OnTheWay
<1>3. TypeOK'
  <2>1. i' \in 0..Len(jobs') + 1
    BY <1>1, <1>2
  <2> QED
    BY <1>1, <1>2, <2>1 DEF TypeOK
<1>4. OnTheWay'
  <2>1. i' <= Len(jobs')
    BY <1>1, <1>2
  <2> QED
    BY <1>1, <2>1, SameRequest DEF Inv, OnTheWay
<1>5. FromSources' /\ AllListed' /\ InOrder'
  BY <1>1, ListKept
<1>6. SoFar'
  BY <1>1 DEF Inv, SoFar, Done, IsDir
<1>7. Stamped'
  <2>1. \A b \in i + 1..Len(jobs) : b \in i' + 1..Len(jobs')
    BY <1>1, <1>2
  <2>2. \A b \in i' + 1..Len(jobs') : b = i \/ b \in i + 1..Len(jobs)
    BY <1>1, <1>2
  <2>3. ~(jobs[i].dir /\ req.preserve)
    BY <1>1 DEF Stamps
  <2> QED
    BY <1>1, <2>1, <2>2, <2>3 DEF Inv, Stamped
<1>8. DirsStay' /\ NothingElseTouched'
  BY <1>1, SameRequest DEF Inv, DirsStay, NothingElseTouched, IsDir
<1>9. Undisturbed'
  BY <1>1, SameRequest DEF Inv, Undisturbed
<1> QED
  BY <1>3, <1>4, <1>5, <1>6, <1>7, <1>8, <1>9 DEF Inv

\* The permissions of one directory are set, with those below it done.
LEMMA SetModeKeeps == Inv /\ SetMode => Inv'
<1> SUFFICES ASSUME Inv, SetMode PROVE Inv'
  OBVIOUS
<1> DEFINE t == jobs[i].path
           m == jobs[i].mode
<1>1. /\ phase = "post" /\ i > 0 /\ i' = i - 1 /\ jobs[i].dir
      /\ t \in DOMAIN fs
      /\ fs' = [fs EXCEPT ![t].mode = m]
      /\ UNCHANGED <<req, phase, k, jobs, full, ok, faulty>>
  BY DEF SetMode, Posting, Stamps, CanStamp
<1>2. /\ TypeOK /\ FromSources /\ DOMAIN jobs = 1..Len(jobs) /\ Len(jobs) \in Nat /\ i \in Nat
      /\ i \in 1..Len(jobs)
  BY <1>1, Types DEF Inv, OnTheWay
<1>3. m \in {"open", "shut"}
  <2>1. PICK a \in 1..k : \E rel \in Found(req.sources[a], {}) :
          /\ a \in 1..Len(req.sources) /\ rel \in Seq(Names)
          /\ rel \in DOMAIN req.sources[a].tree
          /\ jobs[i] = Planned(req.sources[a], rel)
    BY <1>2, JobIsPlanned
  <2>2. PICK rel \in DOMAIN req.sources[a].tree : jobs[i] = Planned(req.sources[a], rel)
    BY <2>1
  <2>3. req.sources[a].tree[rel] \in {"file", "open", "shut"}
    BY <1>2, <2>1, SourceFacts DEF TypeOK
  <2>4. req.sources[a].tree[rel] # "file" /\ m = req.sources[a].tree[rel]
    BY <1>1, <2>2, DirIsPlanned DEF Planned, JobFor
  <2> QED
    BY <2>3, <2>4
<1>4. Concerns(t)
  BY <1>2, JobConcerns
<1>5. /\ DOMAIN fs' = DOMAIN fs /\ fs' \in [DOMAIN fs' -> Entry]
      /\ fs'[t].is = fs[t].is /\ fs'[t].mode = m
      /\ \A p \in DOMAIN fs : p # t => fs'[p] = fs[p]
  <2> HIDE DEF t, m
  <2> QED
    BY <1>1, <1>2, <1>3, StampingFacts
<1>6. PICK d : d = t
  OBVIOUS
<1>7. \A p : IsDir(p)' = IsDir(p)
  BY <1>5, <1>6 DEF IsDir
<1>8. TypeOK'
  <2>1. i' \in 0..Len(jobs') + 1
    BY <1>1, <1>2
  <2> QED
    BY <1>1, <1>2, <1>5, <2>1 DEF TypeOK
<1>9. OnTheWay'
  <2>1. i' <= Len(jobs')
    BY <1>1, <1>2
  <2> QED
    BY <1>1, <2>1, SameRequest DEF Inv, OnTheWay
<1>10. FromSources' /\ AllListed' /\ InOrder'
  BY <1>1, ListKept
<1>11. SoFar'
  <2>1. ASSUME ok, NEW b \in DOMAIN jobs
        PROVE  Done(jobs[b])'
    <3>1. Done(jobs[b]) /\ Done(jobs[i])
      BY <1>1, <1>2, <2>1 DEF Inv, SoFar
    <3>2. CASE jobs[b].dir
      BY <1>1, <1>7, <3>1, <3>2 DEF Done
    <3>3. CASE ~jobs[b].dir
      <4>1. PICK q \in {jobs[b].path, Append(jobs[b].path, jobs[b].name),
                        jobs[b].path \o <<jobs[b].name, jobs[b].name>>} :
              q \in DOMAIN fs /\ fs[q] = Copied
        BY <3>1, <3>3 DEF Done
      <4>2. q # d
        BY <1>1, <1>6, <3>1, <4>1 DEF Done, IsDir, Copied
      <4>3. q \in DOMAIN fs' /\ fs'[q] = Copied
        BY <1>5, <1>6, <4>1, <4>2
      <4> QED
        BY <1>1, <3>1, <3>3, <4>3 DEF Done
    <3> QED
      BY <3>2, <3>3
  <2> QED
    BY <1>1, <2>1 DEF SoFar
<1>12. Stamped'
  <2>1. \A b \in i + 1..Len(jobs) : b \in i' + 1..Len(jobs')
    BY <1>1, <1>2
  <2>2. \A b \in i' + 1..Len(jobs') : b = i \/ b \in i + 1..Len(jobs)
    BY <1>1, <1>2
  <2>3. i \in i' + 1..Len(jobs')
    BY <1>1, <1>2
  <2>4. ASSUME NEW p \in DOMAIN fs', fs'[p].mode # "default"
        PROVE  \E b \in i' + 1..Len(jobs') : jobs[b].path = p
    <3>1. CASE p = d
      BY <1>6, <2>3, <3>1
    <3>2. CASE p # d
      <4>1. p \in DOMAIN fs /\ fs[p].mode # "default"
        BY <1>5, <1>6, <2>4, <3>2
      <4> QED
        BY <2>1, <4>1 DEF Inv, Stamped
    <3> QED
      BY <3>1, <3>2
  <2>5. ASSUME ok, req.preserve, NEW b \in i' + 1..Len(jobs'), jobs[b].dir
        PROVE  fs'[jobs[b].path].mode \in {jobs[c].mode : c \in {c \in DOMAIN jobs :
                                                                 jobs[c].path = jobs[b].path}}
    <3>1. CASE jobs[b].path = d
      <4>1. fs'[jobs[b].path].mode = jobs[i].mode /\ jobs[i].path = jobs[b].path
        BY <1>5, <1>6, <3>1
      <4> QED
        BY <1>2, <4>1
    <3>2. CASE jobs[b].path # d
      <4>1. b \in i + 1..Len(jobs) /\ b \in DOMAIN jobs
        BY <1>2, <1>6, <2>2, <2>5, <3>2
      <4>2. fs[jobs[b].path].mode \in {jobs[c].mode : c \in {c \in DOMAIN jobs :
                                                             jobs[c].path = jobs[b].path}}
        BY <1>1, <2>5, <4>1 DEF Inv, Stamped
      <4>3. jobs[b].path \in DOMAIN fs
        BY <1>1, <2>5, <4>1 DEF Inv, SoFar, Done, IsDir
      <4>4. fs'[jobs[b].path] = fs[jobs[b].path]
        BY <1>5, <1>6, <3>2, <4>3
      <4> QED
        BY <4>2, <4>4
    <3> QED
      BY <3>1, <3>2
  <2> QED
    BY <1>1, <2>4, <2>5 DEF Stamped
<1>13. DirsStay'
  BY <1>1, <1>5, <1>7 DEF Inv, DirsStay
<1>14. NothingElseTouched'
  <2>1. \A p \in DOMAIN req.start : fs'[p] = req.start[p] \/ Concerns(p)
    BY <1>4, <1>5, <1>6 DEF Inv, DirsStay, NothingElseTouched
  <2> QED
    BY <1>1, <2>1, SameRequest DEF NothingElseTouched
<1>15. Undisturbed'
  BY <1>1, SameRequest DEF Inv, Undisturbed
<1> QED
  BY <1>8, <1>9, <1>10, <1>11, <1>12, <1>13, <1>14, <1>15 DEF Inv

\* Permissions that cannot be set are an error, and nothing is changed.
LEMMA SetModeFailsKeeps == Inv /\ SetModeFails => Inv'
<1> SUFFICES ASSUME Inv, SetModeFails PROVE Inv'
  OBVIOUS
<1>1. /\ Posting /\ phase = "post" /\ i > 0 /\ Stamps(jobs[i]) /\ i' = i - 1 /\ ok' = FALSE
      /\ faulty' = (faulty \/ CanStamp(jobs[i]))
      /\ UNCHANGED <<req, fs, phase, k, jobs, full>>
  BY DEF SetModeFails, Posting
<1>2. /\ TypeOK /\ DOMAIN jobs = 1..Len(jobs) /\ Len(jobs) \in Nat /\ i \in Nat
      /\ i \in 1..Len(jobs)
  BY <1>1, Types DEF Inv, OnTheWay
<1>3. TypeOK'
  <2>1. i' \in 0..Len(jobs') + 1
    BY <1>1, <1>2
  <2>2. faulty' \in BOOLEAN /\ ok' \in BOOLEAN
    BY <1>1, <1>2 DEF TypeOK, CanStamp
  <2> QED
    BY <1>1, <1>2, <2>1, <2>2 DEF TypeOK
<1>4. OnTheWay'
  <2>1. i' <= Len(jobs')
    BY <1>1, <1>2
  <2> QED
    BY <1>1, <2>1, SameRequest DEF Inv, OnTheWay
<1>5. FromSources' /\ AllListed' /\ InOrder'
  BY <1>1, ListKept
<1>6. SoFar'
  BY <1>1 DEF SoFar
<1>7. Stamped'
  <2>1. \A b \in i + 1..Len(jobs) : b \in i' + 1..Len(jobs')
    BY <1>1, <1>2
  <2> QED
    BY <1>1, <2>1 DEF Inv, Stamped
<1>8. DirsStay' /\ NothingElseTouched'
  BY <1>1, SameRequest DEF Inv, DirsStay, NothingElseTouched, IsDir
<1>9. Undisturbed'
  <2>1. Clean /\ ok => CanStamp(jobs[i])
    BY <1>1, CleanStamp
  <2> QED
    BY <1>1, <2>1, SameRequest DEF Inv, Undisturbed
<1> QED
  BY <1>3, <1>4, <1>5, <1>6, <1>7, <1>8, <1>9 DEF Inv

\* The run ends with what has been achieved.
LEMMA PostDoneKeeps == Inv /\ PostDone => Inv'
<1> SUFFICES ASSUME Inv, PostDone PROVE Inv'
  OBVIOUS
<1>1. /\ phase = "post" /\ i = 0 /\ phase' = "end"
      /\ UNCHANGED <<req, fs, k, jobs, i, full, ok, faulty>>
  BY DEF PostDone
<1>2. TypeOK'
  BY <1>1 DEF Inv, TypeOK, Final
<1>3. OnTheWay'
  BY <1>1, SameRequest DEF Inv, OnTheWay
<1>4. FromSources' /\ AllListed' /\ InOrder'
  BY <1>1, ListKept
<1>5. SoFar'
  BY <1>1 DEF Inv, SoFar, Done, IsDir
<1>6. Stamped'
  BY <1>1 DEF Inv, Stamped
<1>7. DirsStay' /\ NothingElseTouched'
  BY <1>1, SameRequest DEF Inv, DirsStay, NothingElseTouched, IsDir
<1>8. Undisturbed'
  BY <1>1, SameRequest DEF Inv, Undisturbed
<1> QED
  BY <1>2, <1>3, <1>4, <1>5, <1>6, <1>7, <1>8 DEF Inv

\* A step of nobody changes nothing.
LEMMA Stutters == Inv /\ UNCHANGED vars => Inv'
<1> SUFFICES ASSUME Inv, UNCHANGED vars PROVE Inv'
  OBVIOUS
<1>1. UNCHANGED <<req, fs, phase, k, jobs, i, full, ok, faulty>>
  BY DEF vars
<1>2. TypeOK'
  BY <1>1 DEF Inv, TypeOK
<1>3. OnTheWay'
  BY <1>1, SameRequest DEF Inv, OnTheWay
<1>4. FromSources' /\ AllListed' /\ InOrder'
  BY <1>1, ListKept
<1>5. SoFar' /\ Stamped'
  BY <1>1 DEF Inv, SoFar, Stamped, Done, IsDir
<1>6. DirsStay' /\ NothingElseTouched'
  BY <1>1, SameRequest DEF Inv, DirsStay, NothingElseTouched, IsDir
<1>7. Undisturbed'
  <2>1. \A p \in DOMAIN fs : Expected(p) => Expected(p)'
    BY <1>1, ExpectedKept DEF IsDir
  <2> QED
    BY <1>1, <2>1, SameRequest DEF Inv, Undisturbed
<1> QED
  BY <1>2, <1>3, <1>4, <1>5, <1>6, <1>7 DEF Inv

\* No step of the client leaves the invariant.
LEMMA Inductive == Inv /\ [Next]_vars => Inv'
<1> SUFFICES ASSUME Inv, [Next]_vars PROVE Inv'
  OBVIOUS
<1>1. CASE CheckDestination
  BY <1>1, CheckKeeps
<1>2. CASE ListSource
  BY <1>2, ListSourceKeeps
<1>3. CASE ListFails \/ NoStream
  BY <1>3, FatalKeeps
<1>4. CASE ListDone
  BY <1>4, ListDoneKeeps
<1>5. CASE MakeDir
  BY <1>5, MakeDirKeeps
<1>6. CASE CopyFile
  BY <1>6, CopyFileKeeps
<1>7. CASE JobFails
  BY <1>7, JobFailsKeeps
<1>8. CASE TransfersDone
  BY <1>8, TransfersDoneKeeps
<1>9. CASE PassJob
  BY <1>9, PassJobKeeps
<1>10. CASE SetMode
  BY <1>10, SetModeKeeps
<1>11. CASE SetModeFails
  BY <1>11, SetModeFailsKeeps
<1>12. CASE PostDone
  BY <1>12, PostDoneKeeps
<1>13. CASE UNCHANGED vars
  BY <1>13, Stutters
<1> QED
  BY <1>1, <1>2, <1>3, <1>4, <1>5, <1>6, <1>7, <1>8, <1>9, <1>10, <1>11, <1>12, <1>13
     DEF Next, Step

-----------------------------------------------------------------------------
(* What module Jobs promises.                                              *)

\* Every state the client and the destination can be in has the shape that
\* Inv describes.
THEOREM Invariance == Spec => []Inv
BY Initially, Inductive, PTL DEF Spec

\* Every variable keeps its type: main_loop.rs works on a list of job specs,
\* and the destination stays a tree.
THEOREM TypeCorrect == Spec => []TypeOK
BY Invariance, PTL DEF Inv

\* The permissions of a directory are set when nothing in it is waited for
\* any more (the reverse order in process_file_transfers).
THEOREM NobodyIsLockedOut == Spec => []NoLockout
<1>1. Inv => NoLockout
  <2> SUFFICES ASSUME Inv, Posting, Apart, NEW q \in Above(jobs[i].path), q \in DOMAIN fs
               PROVE  fs[q].mode # "shut"
    BY DEF NoLockout
  <2>1. i \in 1..Len(jobs) /\ i \in Nat
    BY Types DEF Inv, OnTheWay, Posting
  <2>2. fs[q].mode = "default"
    BY <2>1, NothingShut DEF Above
  <2> QED
    BY <2>2
<1> QED
  BY <1>1, Invariance, PTL

\* What is at the destination and is no place of a copy stays as it was.
THEOREM ElseUntouched == Spec => []NothingElseTouched
BY Invariance, PTL DEF Inv

\* A clean copy succeeds unless something outside the client fails.
THEOREM CleanCopiesSucceed == Spec => []CleanCopySucceeds
<1>1. Inv => CleanCopySucceeds
  BY DEF Inv, Undisturbed, CleanCopySucceeds
<1> QED
  BY <1>1, Invariance, PTL

\* A client that exits with success has copied every entry of every source to
\* its place, with the permissions of a source.
THEOREM SuccessIsAll == Spec => []SuccessMeansAll
<1>1. Inv => SuccessMeansAll
  <2> SUFFICES ASSUME Inv, phase = "end", ok, full, NEW a \in 1..Len(req.sources),
                      NEW rel \in IF req.recurse THEN DOMAIN req.sources[a].tree ELSE {<<>>}
               PROVE  LET s == req.sources[a]
                          p == Place(s, rel)
                          name == Last(<<s.name>> \o rel)
                          same == {b \in 1..Len(jobs) : jobs[b].path = p}
                      IN  \/ req.into = "bare" /\ req.recurse /\ rel = <<>>
                          \/ /\ s.tree[rel] # "file"
                             /\ IsDir(p)
                             /\ HasMode(p, {jobs[b].mode : b \in same})
                          \/ /\ s.tree[rel] = "file"
                             /\ \E q \in {p, Append(p, name), p \o <<name, name>>} :
                                  q \in DOMAIN fs /\ fs[q] = Copied
    BY DEF SuccessMeansAll
  <2>1. PICK s : s = req.sources[a]
    OBVIOUS
  <2>2. k = Len(req.sources) /\ DOMAIN jobs = 1..Len(jobs) /\ Len(jobs) \in Nat
    BY Types DEF Inv, OnTheWay
  <2>3. CASE rel \notin Found(s, {})
    BY <2>1, <2>3 DEF Found
  <2>4. CASE rel \in Found(s, {})
    <3>1. PICK b \in 1..Len(jobs) : jobs[b] = Planned(s, rel)
      BY <2>1, <2>2, <2>4 DEF Inv, AllListed
    <3>2. Done(jobs[b])
      BY <2>2 DEF Inv, SoFar
    <3>3. /\ jobs[b].path = Place(s, rel) /\ jobs[b].mode = s.tree[rel]
          /\ jobs[b].name = Last(<<s.name>> \o rel)
      BY <3>1 DEF Planned, JobFor
    <3>4. jobs[b].dir <=> req.recurse /\ s.tree[rel] # "file"
      BY <3>1, DirIsPlanned
    <3>5. CASE jobs[b].dir
      <4>1. IsDir(Place(s, rel)) /\ s.tree[rel] # "file"
        BY <3>2, <3>3, <3>4, <3>5 DEF Done
      <4>2. ASSUME req.preserve, Len(jobs) > 1
            PROVE  fs[jobs[b].path].mode \in {jobs[c].mode : c \in {c \in DOMAIN jobs :
                                                          jobs[c].path = jobs[b].path}}
        <5>1. i = 0
          BY <4>2 DEF Inv, OnTheWay
        <5>2. b \in i + 1..Len(jobs)
          BY <2>2, <5>1
        <5> QED
          BY <3>5, <4>2, <5>2 DEF Inv, Stamped
      <4>3. HasMode(Place(s, rel), {jobs[c].mode : c \in {c \in 1..Len(jobs) :
                                                          jobs[c].path = Place(s, rel)}})
        BY <2>2, <3>3, <4>2 DEF HasMode
      <4> QED
        BY <2>1, <4>1, <4>3
    <3>6. CASE ~jobs[b].dir
      BY <2>1, <3>2, <3>3, <3>6 DEF Done
    <3> QED
      BY <3>5, <3>6
  <2> QED
    BY <2>3, <2>4
<1> QED
  BY <1>1, Invariance, PTL
=============================================================================
