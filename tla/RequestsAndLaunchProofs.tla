----------------------- MODULE RequestsAndLaunchProofs -----------------------
(***************************************************************************)
(* What modules Requests and Launch promise: the requests of a session     *)
(* other than transfers, for every directory, size of entry and length     *)
(* limit; and the process that hosts the session, for every set of hosts   *)
(* and users and any number of paths.                                      *)
(*                                                                         *)
(* Requests: split_by_size puts every entry into one part and none in two, *)
(* every part fits a message, and only the last says that no more come     *)
(* (SplitDivides, by induction over the list: NumbersFrom0).  The client   *)
(* that puts the parts together again (ClientAt) therefore has what the    *)
(* server walked, and a request is a remote call: RequestsAreRemoteCalls.  *)
(*                                                                         *)
(* Launch: the paths are looked at three times, for the configuration, for *)
(* the list of jobs and for ssh.  OneRemote holds because each look        *)
(* refuses what would let the next one see something else: HostIsOne and   *)
(* UserIsOne say what a command line is like that has passed them.         *)
(***************************************************************************)
EXTENDS Launch, Requests, FiniteSetTheorems, SequenceTheorems, WellFoundedInduction,
        TLAPS

-----------------------------------------------------------------------------
(* Requests: recursion over a sequence.                                    *)

\* What holds of 0, and of every number after one it holds of, holds of all.
LEMMA NumbersFrom0 ==
  ASSUME NEW S, 0 \in S, \A n \in Nat : n \in S => n + 1 \in S
  PROVE  Nat \subseteq S
<1> DEFINE T == Nat \ S
           R == {ss \in Nat \X Nat : ss[1] < ss[2]}
<1>1. SUFFICES ASSUME T # {}
               PROVE  FALSE
  OBVIOUS
<1>2. PICK x \in T : \A y \in T : <<y, x>> \notin R
  <2>1. IsWellFoundedOn(R, Nat)
    BY NatLessThanWellFounded DEF OpToRel
  <2> HIDE DEF R
  <2> QED
    BY <1>1, <2>1, WFMin
<1>3. x \in Nat /\ x # 0 /\ x - 1 \in Nat
  BY <1>2
<1>4. x - 1 \in T
  BY <1>3
<1>5. <<x - 1, x>> \in R
  BY <1>3
<1> QED
  BY <1>2, <1>4, <1>5

\* f is what comes of taking n steps from a.
Folded(f, n, a, step, S) ==
  f \in [0..n -> S] /\ f[0] = a /\ \A i \in 1..n : f[i] = step[i][f[i - 1]]

\* Any number of steps can be taken ...
LEMMA FoldExists ==
  ASSUME NEW S, NEW n \in Nat, NEW a \in S, NEW step \in [1..n -> [S -> S]]
  PROVE  \E f : Folded(f, n, a, step, S)
<1> DEFINE T == {m \in Nat : m <= n => \E f : Folded(f, m, a, step, S)}
<1>1. 0 \in T
  <2>1. Folded([i \in 0..0 |-> a], 0, a, step, S)
    BY DEF Folded
  <2> QED
    BY <2>1
<1>2. ASSUME NEW m \in Nat, m \in T
      PROVE  m + 1 \in T
  <2>1. SUFFICES ASSUME m + 1 <= n
                 PROVE  \E f : Folded(f, m + 1, a, step, S)
    OBVIOUS
  <2>2. PICK f : Folded(f, m, a, step, S)
    BY <1>2, <2>1
  <2>3. m + 1 \in 1..n /\ f[m] \in S
    BY <2>1, <2>2 DEF Folded
  <2>4. PICK v \in S : v = step[m + 1][f[m]]
    BY <2>3
  <2> DEFINE g == [i \in 0..m + 1 |-> IF i = m + 1 THEN v ELSE f[i]]
  <2>5. g \in [0..m + 1 -> S]
    BY <2>2 DEF Folded
  <2>6. g[0] = a
    BY <2>2 DEF Folded
  <2>7. ASSUME NEW i \in 1..m + 1
        PROVE  g[i] = step[i][g[i - 1]]
    <3>1. CASE i = m + 1
      BY <2>4, <3>1
    <3>2. CASE i # m + 1
      <4>1. i \in 1..m /\ i - 1 \in 0..m
        BY <3>2
      <4> QED
        BY <2>2, <4>1 DEF Folded
    <3> QED
      BY <3>1, <3>2
  <2>8. Folded(g, m + 1, a, step, S)
    BY <2>5, <2>6, <2>7 DEF Folded
  <2> QED
    BY <2>8
<1>3. Nat \subseteq T
  <2> HIDE DEF T
  <2> QED
    BY <1>1, <1>2, NumbersFrom0
<1> QED
  BY <1>3

\* ... and where two agree on the steps they come to the same.
LEMMA FoldAgrees ==
  ASSUME NEW S, NEW m \in Nat, NEW n \in Nat, m <= n, NEW a, NEW p, NEW q,
         \A i \in 1..m : p[i] = q[i],
         NEW f, NEW g, Folded(f, m, a, p, S), Folded(g, n, a, q, S)
  PROVE  f[m] = g[m]
<1> DEFINE T == {k \in Nat : k <= m => f[k] = g[k]}
<1>1. 0 \in T
  BY DEF Folded
<1>2. ASSUME NEW k \in Nat, k \in T
      PROVE  k + 1 \in T
  <2>1. SUFFICES ASSUME k + 1 <= m
                 PROVE  f[k + 1] = g[k + 1]
    OBVIOUS
  <2>2. f[k] = g[k]
    BY <1>2, <2>1
  <2>3. k + 1 \in 1..m /\ k + 1 \in 1..n /\ (k + 1) - 1 = k
    BY <2>1
  <2> QED
    BY <2>2, <2>3 DEF Folded
<1>3. Nat \subseteq T
  <2> HIDE DEF T
  <2> QED
    BY <1>1, <1>2, NumbersFrom0
<1> QED
  BY <1>3

-----------------------------------------------------------------------------
(* Requests: sums.                                                         *)

Adding(s) == [i \in 1..Len(s) |-> [v \in Nat |-> v + s[i]]]

\* SumSeq takes a step for each entry.
LEMMA SumIsFold ==
  ASSUME NEW s \in Seq(Nat)
  PROVE  \E f : Folded(f, Len(s), 0, Adding(s), Nat) /\ SumSeq(s) = f[Len(s)]
<1> DEFINE Upto(f) == f = [i \in 0..Len(s) |-> IF i = 0 THEN 0 ELSE f[i - 1] + s[i]]
           at == CHOOSE f : Upto(f)
<1>0. Len(s) \in Nat
  OBVIOUS
<1>1. SumSeq(s) = at[Len(s)]
  BY DEF SumSeq
<1>2. PICK f : Folded(f, Len(s), 0, Adding(s), Nat)
  <2>1. Adding(s) \in [1..Len(s) -> [Nat -> Nat]]
    BY DEF Adding
  <2> QED
    BY <1>0, <2>1, FoldExists
<1>3. Upto(f)
  <2>1. ASSUME NEW i \in 0..Len(s)
        PROVE  f[i] = IF i = 0 THEN 0 ELSE f[i - 1] + s[i]
    <3>1. CASE i = 0
      BY <1>2, <3>1 DEF Folded
    <3>2. CASE i # 0
      <4>1. i \in 1..Len(s) /\ i - 1 \in 0..Len(s)
        BY <3>2
      <4>2. f[i] = Adding(s)[i][f[i - 1]] /\ f[i - 1] \in Nat
        BY <1>2, <4>1 DEF Folded
      <4> QED
        BY <3>2, <4>1, <4>2 DEF Adding
    <3> QED
      BY <3>1, <3>2
  <2>2. f = [i \in 0..Len(s) |-> f[i]]
    BY <1>2 DEF Folded
  <2> QED
    BY <2>1, <2>2
<1>4. Upto(at)
  <2> HIDE DEF Upto
  <2> QED
    BY <1>3
<1>5. Folded(at, Len(s), 0, Adding(s), Nat)
  <2> HIDE DEF at
  <2>1. /\ DOMAIN at = 0..Len(s) /\ at = [i \in 0..Len(s) |-> at[i]]
        /\ \A i \in 0..Len(s) : at[i] = IF i = 0 THEN 0 ELSE at[i - 1] + s[i]
    BY <1>4
  <2> DEFINE T == {n \in Nat : n <= Len(s) => at[n] \in Nat}
  <2>2. 0 \in T
    BY <2>1
  <2>3. ASSUME NEW n \in Nat, n \in T
        PROVE  n + 1 \in T
    <3>1. SUFFICES ASSUME n + 1 <= Len(s)
                   PROVE  at[n + 1] \in Nat
      OBVIOUS
    <3>2. at[n] \in Nat /\ s[n + 1] \in Nat
      BY <2>3, <3>1
    <3>3. at[n + 1] = at[n] + s[n + 1]
      <4>1. n + 1 \in 0..Len(s) /\ n + 1 # 0 /\ (n + 1) - 1 = n
        BY <1>0, <3>1
      <4> QED
        BY <2>1, <4>1
    <3> QED
      BY <3>2, <3>3
  <2>4. Nat \subseteq T
    <3> HIDE DEF T
    <3> QED
      BY <2>2, <2>3, NumbersFrom0
  <2>5. \A i \in 0..Len(s) : at[i] \in Nat
    BY <2>4
  <2>6. at \in [0..Len(s) -> Nat]
    BY <2>1, <2>5
  <2>7. ASSUME NEW i \in 1..Len(s)
        PROVE  at[i] = Adding(s)[i][at[i - 1]]
    <3>1. i \in 0..Len(s) /\ i # 0 /\ i - 1 \in 0..Len(s)
      BY <1>0
    <3>2. at[i] = at[i - 1] + s[i] /\ at[i - 1] \in Nat
      BY <2>1, <2>5, <3>1
    <3> QED
      BY <3>2 DEF Adding
  <2>8. at[0] = 0
    BY <1>0, <2>1
  <2> QED
    BY <2>6, <2>7, <2>8 DEF Folded
<1> QED
  BY <1>1, <1>5

\* What SumSeq returns: nothing for no entry, and for one more entry its size more.
LEMMA SumSeqFacts ==
  /\ SumSeq(<<>>) = 0
  /\ \A s \in Seq(Nat), n \in Nat : /\ SumSeq(s) \in Nat
                                    /\ SumSeq(Append(s, n)) = SumSeq(s) + n
<1>1. SumSeq(<<>>) = 0
  <2>1. PICK f : /\ Folded(f, Len(<<>>), 0, Adding(<<>>), Nat)
                 /\ SumSeq(<<>>) = f[Len(<<>>)]
    <3>1. <<>> \in Seq(Nat)
      OBVIOUS
    <3> QED
      BY <3>1, SumIsFold
  <2> QED
    BY <2>1 DEF Folded
<1>2. ASSUME NEW s \in Seq(Nat), NEW n \in Nat
      PROVE  /\ SumSeq(s) \in Nat
             /\ SumSeq(Append(s, n)) = SumSeq(s) + n
  <2> DEFINE t == Append(s, n)
  <2>1. /\ t \in Seq(Nat) /\ Len(t) = Len(s) + 1 /\ t[Len(t)] = n
        /\ \A i \in 1..Len(s) : s[i] = t[i]
        /\ Len(s) \in Nat /\ Len(t) \in Nat
    OBVIOUS
  <2>2. PICK f : Folded(f, Len(s), 0, Adding(s), Nat) /\ SumSeq(s) = f[Len(s)]
    BY SumIsFold
  <2> HIDE DEF t
  <2>3. PICK g : Folded(g, Len(t), 0, Adding(t), Nat) /\ SumSeq(t) = g[Len(t)]
    BY <2>1, SumIsFold
  <2>4. f[Len(s)] = g[Len(s)]
    <3>1. Len(s) <= Len(t)
      BY <2>1
    <3>2. ASSUME NEW i \in 1..Len(s)
          PROVE  Adding(s)[i] = Adding(t)[i]
      <4>1. i \in 1..Len(t) /\ s[i] = t[i]
        BY <2>1
      <4>2. Adding(s)[i] = [v \in Nat |-> v + s[i]]
        BY DEF Adding
      <4>3. Adding(t)[i] = [v \in Nat |-> v + t[i]]
        BY <4>1 DEF Adding
      <4> QED
        BY <4>1, <4>2, <4>3
    <3> QED
      BY <2>1, <2>2, <2>3, <3>1, <3>2, FoldAgrees
  <2>5. f[Len(s)] \in Nat
    <3>1. \A k \in 0..Len(s) : f[k] \in Nat
      BY <2>2 DEF Folded
    <3>2. Len(s) \in 0..Len(s)
      BY <2>1
    <3> QED
      BY <3>1, <3>2
  <2>6. g[Len(t)] = g[Len(s)] + n
    <3>1. Len(t) \in 1..Len(t) /\ Len(t) - 1 = Len(s)
      BY <2>1
    <3>2. g[Len(t)] = Adding(t)[Len(t)][g[Len(s)]]
      BY <2>3, <3>1 DEF Folded
    <3> QED
      BY <2>1, <2>4, <2>5, <3>1, <3>2 DEF Adding
  <2> QED
    BY <2>2, <2>3, <2>4, <2>5, <2>6 DEF t
<1> QED
  BY <1>1, <1>2

\* A sequence is that of all but its last, and the last.
LEMMA OneMore ==
  ASSUME NEW S, NEW r \in Seq(S), NEW n \in Nat, n + 1 <= Len(r)
  PROVE  /\ SubSeq(r, 1, n) \in Seq(S) /\ Len(SubSeq(r, 1, n)) = n
         /\ r[n + 1] \in S
         /\ SubSeq(r, 1, n + 1) = Append(SubSeq(r, 1, n), r[n + 1])
         /\ n + 1 = Len(r) => r = Append(SubSeq(r, 1, n), r[n + 1])
<1> DEFINE q == SubSeq(r, 1, n)
           t == SubSeq(r, 1, n + 1)
<1>1. /\ q \in Seq(S) /\ Len(q) = n
      /\ \A i \in 1..n : q[i] = r[i]
  BY SubSeqProperties
<1>2. /\ t \in Seq(S) /\ Len(t) = n + 1
      /\ \A i \in 1..n + 1 : t[i] = r[i]
  BY SubSeqProperties
<1>3. r[n + 1] \in S
  OBVIOUS
<1> HIDE DEF q, t
<1> DEFINE u == Append(q, r[n + 1])
<1>4. /\ u \in Seq(S) /\ Len(u) = n + 1
      /\ \A i \in 1..n : u[i] = q[i]
      /\ u[n + 1] = r[n + 1]
  BY <1>1, <1>3
<1> HIDE DEF u
<1>5. \A i \in 1..n + 1 : u[i] = r[i]
  BY <1>1, <1>4
<1>6. t = u
  BY <1>2, <1>4, <1>5, SeqEqual
<1>7. n + 1 = Len(r) => r = u
  BY <1>4, <1>5, SeqEqual
<1> QED
  BY <1>1, <1>3, <1>6, <1>7 DEF q, t, u

\* Sizes are numbers.
LEMMA SizesAreNumbers ==
  ASSUME NEW s \in Seq(EntrySizes)
  PROVE  s \in Seq(Nat)
<1>1. EntrySizes \subseteq Nat
  BY SizesAssumption
<1> QED
  BY <1>1, SeqMonotonic

\* No entry encodes to nothing, so that there are no more of them than they sum to.
LEMMA NoMoreThanTheSum ==
  ASSUME NEW s \in Seq(EntrySizes)
  PROVE  SumSeq(s) \in Nat /\ Len(s) <= SumSeq(s)
<1> DEFINE T == {n \in Nat : \A r \in Seq(EntrySizes) :
                               Len(r) = n => SumSeq(r) \in Nat /\ n <= SumSeq(r)}
<1>0. EntrySizes \subseteq Nat \ {0}
  BY SizesAssumption
<1>1. 0 \in T
  <2>1. ASSUME NEW r \in Seq(EntrySizes), Len(r) = 0
        PROVE  SumSeq(r) \in Nat /\ 0 <= SumSeq(r)
    <3>1. r = <<>>
      BY <2>1
    <3> QED
      BY <3>1, SumSeqFacts
  <2> QED
    BY <2>1
<1>2. ASSUME NEW n \in Nat, n \in T
      PROVE  n + 1 \in T
  <2>1. ASSUME NEW r \in Seq(EntrySizes), Len(r) = n + 1
        PROVE  SumSeq(r) \in Nat /\ n + 1 <= SumSeq(r)
    <3> DEFINE q == SubSeq(r, 1, n)
    <3>1. /\ q \in Seq(EntrySizes) /\ Len(q) = n /\ r = Append(q, r[n + 1])
          /\ r[n + 1] \in EntrySizes
      BY <2>1, OneMore
    <3> HIDE DEF q
    <3>2. SumSeq(q) \in Nat /\ n <= SumSeq(q)
      BY <1>2, <3>1
    <3>3. r[n + 1] \in Nat \ {0}
      BY <1>0, <3>1
    <3>4. q \in Seq(Nat)
      BY <3>1, SizesAreNumbers
    <3>5. SumSeq(r) = SumSeq(q) + r[n + 1]
      BY <3>1, <3>3, <3>4, SumSeqFacts
    <3> QED
      BY <3>2, <3>3, <3>5
  <2> QED
    BY <2>1
<1>3. Nat \subseteq T
  <2> HIDE DEF T
  <2> QED
    BY <1>1, <1>2, NumbersFrom0
<1> QED
  BY <1>3

\* The length of a list is encoded in so many units.
LEMMA LengthSizeTyped == \A n \in Nat : LengthSize(n) \in Nat
<1>1. SUFFICES ASSUME NEW n \in Nat
               PROVE  LengthSize(n) \in Nat
  OBVIOUS
<1> DEFINE D == {d \in 1..n : LengthBase ^ d <= n}
<1>2. LengthSize(n) = 1 + Cardinality(D)
  BY DEF LengthSize
<1>3. IsFiniteSet(1..n)
  BY FS_Interval
<1>4. D \subseteq 1..n
  OBVIOUS
<1> HIDE DEF D
<1>5. Cardinality(D) \in Nat
  BY <1>3, <1>4, FS_Subset, FS_CardinalityType
<1> QED
  BY <1>2, <1>5

\* Whatever split_by_size thinks has room is no longer than a message may be.
LEMMA FitsAMessage ==
  ASSUME NEW s \in Seq(EntrySizes), 2 + Headroom + SumSeq(s) <= WIRE_ENCODING_LIMIT
  PROVE  EncodedSize(s) <= WIRE_ENCODING_LIMIT
<1>1. /\ SumSeq(s) \in Nat /\ Len(s) <= SumSeq(s) /\ Len(s) \in Nat
      /\ Headroom \in Nat /\ WIRE_ENCODING_LIMIT \in Nat
  BY NoMoreThanTheSum, SizesAssumption
<1>2. Len(s) \in 0..WIRE_ENCODING_LIMIT
  BY <1>1
<1>3. LengthSize(Len(s)) <= 1 + Headroom /\ LengthSize(Len(s)) \in Nat
  BY <1>1, <1>2, HeadroomSuffices, LengthSizeTyped
<1>4. EncodedSize(s) = LengthSize(Len(s)) + SumSeq(s) + 1
  BY DEF EncodedSize
<1> QED
  BY <1>1, <1>3, <1>4

-----------------------------------------------------------------------------
(* Requests: joining.                                                      *)

Joining(p) == [i \in 1..Len(p) |-> [v \in Seq(EntrySizes) |-> v \o p[i].entries]]

\* A packet's entries are entries.
LEMMA EntriesTyped ==
  ASSUME NEW p \in Seq(Packet), NEW i \in 1..Len(p)
  PROVE  p[i].entries \in Seq(EntrySizes)
<1>1. p[i] \in Packet
  OBVIOUS
<1> QED
  BY <1>1 DEF Packet

\* join takes a step for each packet.
LEMMA JoinIsFold ==
  ASSUME NEW p \in Seq(Packet)
  PROVE  \E f : /\ Folded(f, Len(p), <<>>, Joining(p), Seq(EntrySizes))
                /\ join(p) = f[Len(p)]
<1> DEFINE Upto(f) == f = [i \in 0..Len(p) |->
                             IF i = 0 THEN <<>> ELSE f[i - 1] \o p[i].entries]
           at == CHOOSE f : Upto(f)
<1>0. Len(p) \in Nat
  OBVIOUS
<1>1. join(p) = at[Len(p)]
  BY DEF join
<1>2. PICK f : Folded(f, Len(p), <<>>, Joining(p), Seq(EntrySizes))
  <2>1. ASSUME NEW i \in 1..Len(p)
        PROVE  [v \in Seq(EntrySizes) |-> v \o p[i].entries]
                 \in [Seq(EntrySizes) -> Seq(EntrySizes)]
    <3>1. p[i].entries \in Seq(EntrySizes)
      BY EntriesTyped
    <3> QED
      BY <3>1
  <2>2. Joining(p) \in [1..Len(p) -> [Seq(EntrySizes) -> Seq(EntrySizes)]]
    BY <2>1, Zenon DEF Joining
  <2>3. <<>> \in Seq(EntrySizes)
    OBVIOUS
  <2> QED
    BY <1>0, <2>2, <2>3, FoldExists
<1>3. Upto(f)
  <2>1. ASSUME NEW i \in 0..Len(p)
        PROVE  f[i] = IF i = 0 THEN <<>> ELSE f[i - 1] \o p[i].entries
    <3>1. CASE i = 0
      BY <1>2, <3>1 DEF Folded
    <3>2. CASE i # 0
      <4>1. i \in 1..Len(p) /\ i - 1 \in 0..Len(p)
        BY <3>2
      <4>2. f[i] = Joining(p)[i][f[i - 1]] /\ f[i - 1] \in Seq(EntrySizes)
        BY <1>2, <4>1 DEF Folded
      <4> QED
        BY <3>2, <4>1, <4>2 DEF Joining
    <3> QED
      BY <3>1, <3>2
  <2>2. f = [i \in 0..Len(p) |-> f[i]]
    BY <1>2 DEF Folded
  <2> QED
    BY <2>1, <2>2
<1>4. Upto(at)
  <2> HIDE DEF Upto
  <2> QED
    BY <1>3
<1>5. Folded(at, Len(p), <<>>, Joining(p), Seq(EntrySizes))
  <2> HIDE DEF at
  <2>1. /\ DOMAIN at = 0..Len(p) /\ at = [i \in 0..Len(p) |-> at[i]]
        /\ \A i \in 0..Len(p) : at[i] = IF i = 0 THEN <<>> ELSE at[i - 1] \o p[i].entries
    BY <1>4
  <2> DEFINE T == {n \in Nat : n <= Len(p) => at[n] \in Seq(EntrySizes)}
  <2>2. 0 \in T
    BY <2>1
  <2>3. ASSUME NEW n \in Nat, n \in T
        PROVE  n + 1 \in T
    <3>1. SUFFICES ASSUME n + 1 <= Len(p)
                   PROVE  at[n + 1] \in Seq(EntrySizes)
      OBVIOUS
    <3>2. at[n] \in Seq(EntrySizes) /\ p[n + 1].entries \in Seq(EntrySizes)
      BY <2>3, <3>1, EntriesTyped
    <3>3. at[n + 1] = at[n] \o p[n + 1].entries
      <4>1. n + 1 \in 0..Len(p) /\ n + 1 # 0 /\ (n + 1) - 1 = n
        BY <1>0, <3>1
      <4> QED
        BY <2>1, <4>1
    <3> QED
      BY <3>2, <3>3
  <2>4. Nat \subseteq T
    <3> HIDE DEF T
    <3> QED
      BY <2>2, <2>3, NumbersFrom0
  <2>5. \A i \in 0..Len(p) : at[i] \in Seq(EntrySizes)
    BY <2>4
  <2>6. at \in [0..Len(p) -> Seq(EntrySizes)]
    BY <2>1, <2>5
  <2>7. ASSUME NEW i \in 1..Len(p)
        PROVE  at[i] = Joining(p)[i][at[i - 1]]
    <3>1. i \in 0..Len(p) /\ i # 0 /\ i - 1 \in 0..Len(p)
      BY <1>0
    <3>2. at[i] = at[i - 1] \o p[i].entries /\ at[i - 1] \in Seq(EntrySizes)
      BY <2>1, <2>5, <3>1
    <3> QED
      BY <3>2 DEF Joining
  <2>8. at[0] = <<>>
    BY <1>0, <2>1
  <2> QED
    BY <2>6, <2>7, <2>8 DEF Folded
<1> QED
  BY <1>1, <1>5

\* What join returns: of one packet more, its entries more, and nothing but entries
\* matters.
LEMMA JoinFacts ==
  /\ join(<<>>) = <<>>
  /\ \A p \in Seq(Packet), m \in Packet :
       /\ join(p) \in Seq(EntrySizes)
       /\ join(Append(p, m)) = join(p) \o m.entries
  /\ \A p \in Seq(Packet), q \in Seq(Packet) :
       Len(p) = Len(q) /\ (\A i \in 1..Len(p) : p[i].entries = q[i].entries)
         => join(p) = join(q)
<1>1. join(<<>>) = <<>>
  <2>1. PICK f : /\ Folded(f, Len(<<>>), <<>>, Joining(<<>>), Seq(EntrySizes))
                 /\ join(<<>>) = f[Len(<<>>)]
    <3>1. <<>> \in Seq(Packet)
      OBVIOUS
    <3> QED
      BY <3>1, JoinIsFold
  <2> QED
    BY <2>1 DEF Folded
<1>2. ASSUME NEW p \in Seq(Packet), NEW t \in Seq(Packet), Len(p) <= Len(t),
             \A i \in 1..Len(p) : p[i].entries = t[i].entries
      PROVE  \E g : /\ Folded(g, Len(t), <<>>, Joining(t), Seq(EntrySizes))
                    /\ join(t) = g[Len(t)] /\ join(p) = g[Len(p)]
                    /\ join(p) \in Seq(EntrySizes)
  <2>0. Len(p) \in Nat /\ Len(t) \in Nat
    OBVIOUS
  <2>1. PICK f : /\ Folded(f, Len(p), <<>>, Joining(p), Seq(EntrySizes))
                 /\ join(p) = f[Len(p)]
    BY JoinIsFold
  <2>2. PICK g : /\ Folded(g, Len(t), <<>>, Joining(t), Seq(EntrySizes))
                 /\ join(t) = g[Len(t)]
    BY JoinIsFold
  <2>3. ASSUME NEW i \in 1..Len(p)
        PROVE  Joining(p)[i] = Joining(t)[i]
    <3>1. i \in 1..Len(t) /\ p[i].entries = t[i].entries
      BY <1>2, <2>0
    <3>2. Joining(p)[i] = [v \in Seq(EntrySizes) |-> v \o p[i].entries]
      BY DEF Joining
    <3>3. Joining(t)[i] = [v \in Seq(EntrySizes) |-> v \o t[i].entries]
      BY <3>1 DEF Joining
    <3> QED
      BY <3>1, <3>2, <3>3
  <2>4. f[Len(p)] = g[Len(p)]
    BY <1>2, <2>0, <2>1, <2>2, <2>3, FoldAgrees
  <2>5. f[Len(p)] \in Seq(EntrySizes)
    BY <2>0, <2>1 DEF Folded
  <2> QED
    BY <2>1, <2>2, <2>4, <2>5
<1>3. ASSUME NEW p \in Seq(Packet), NEW m \in Packet
      PROVE  /\ join(p) \in Seq(EntrySizes)
             /\ join(Append(p, m)) = join(p) \o m.entries
  <2> DEFINE t == Append(p, m)
  <2>1. /\ t \in Seq(Packet) /\ Len(t) = Len(p) + 1 /\ t[Len(t)] = m
        /\ \A i \in 1..Len(p) : p[i] = t[i]
        /\ Len(p) \in Nat /\ Len(t) \in Nat
    OBVIOUS
  <2> HIDE DEF t
  <2>2. PICK g : /\ Folded(g, Len(t), <<>>, Joining(t), Seq(EntrySizes))
                 /\ join(t) = g[Len(t)] /\ join(p) = g[Len(p)]
                 /\ join(p) \in Seq(EntrySizes)
    <3>1. Len(p) <= Len(t) /\ \A i \in 1..Len(p) : p[i].entries = t[i].entries
      BY <2>1
    <3> QED
      BY <1>2, <2>1, <3>1
  <2>3. Len(t) \in 1..Len(t) /\ Len(t) - 1 = Len(p)
    BY <2>1
  <2>4. g[Len(t)] = Joining(t)[Len(t)][g[Len(p)]]
    BY <2>2, <2>3 DEF Folded
  <2>5. Joining(t)[Len(t)] = [v \in Seq(EntrySizes) |-> v \o t[Len(t)].entries]
    BY <2>3 DEF Joining
  <2>6. g[Len(t)] = g[Len(p)] \o m.entries
    BY <2>1, <2>2, <2>4, <2>5
  <2> QED
    BY <2>2, <2>6 DEF t
<1>4. ASSUME NEW p \in Seq(Packet), NEW q \in Seq(Packet), Len(p) = Len(q),
             \A i \in 1..Len(p) : p[i].entries = q[i].entries
      PROVE  join(p) = join(q)
  <2>1. Len(p) <= Len(q)
    BY <1>4
  <2>2. PICK g : join(q) = g[Len(q)] /\ join(p) = g[Len(p)]
    BY <1>2, <1>4, <2>1
  <2> QED
    BY <1>4, <2>2
<1> QED
  BY <1>1, <1>3, <1>4

-----------------------------------------------------------------------------
(* Requests: splitting.                                                    *)

\* A step of split_by_size.
PutEntry(v, e) ==
  IF 2 + Headroom + SumSeq(Last(v)) + e > WIRE_ENCODING_LIMIT THEN Append(v, <<e>>)
  ELSE [v EXCEPT ![Len(v)] = Append(@, e)]

Unfinished(v) == [k \in 1..Len(v) |-> Part(v[k], FALSE)]

Fits(s) == s # <<>> /\ 2 + Headroom + SumSeq(s) <= WIRE_ENCODING_LIMIT

\* The parts at hand are those of the list so far.
PartsOf(v, list) ==
  /\ v \in Seq(Seq(EntrySizes)) /\ v # <<>>
  /\ list = <<>> => v = << <<>> >>
  /\ list # <<>> => \A k \in 1..Len(v) : Fits(v[k])
  /\ join(Unfinished(v)) = list

\* Unfinished parts are packets.
LEMMA UnfinishedTyped ==
  ASSUME NEW v \in Seq(Seq(EntrySizes))
  PROVE  /\ Unfinished(v) \in Seq(Packet) /\ Len(Unfinished(v)) = Len(v)
         /\ \A k \in 1..Len(v) : Unfinished(v)[k].entries = v[k]
<1>1. Len(v) \in Nat /\ \A k \in 1..Len(v) : v[k] \in Seq(EntrySizes)
  OBVIOUS
<1>2. \A k \in 1..Len(v) : Part(v[k], FALSE) \in Packet
  BY <1>1 DEF Part, Packet
<1>3. Unfinished(v) \in [1..Len(v) -> Packet]
  BY <1>2 DEF Unfinished
<1>4. Unfinished(v) \in Seq(Packet) /\ Len(Unfinished(v)) = Len(v)
  BY <1>1, <1>3
<1>5. ASSUME NEW k \in 1..Len(v)
      PROVE  Unfinished(v)[k].entries = v[k]
  <2>1. Unfinished(v)[k] = Part(v[k], FALSE)
    BY DEF Unfinished
  <2> QED
    BY <2>1 DEF Part
<1> QED
  BY <1>4, <1>5

\* Appending to the last part appends to what all of them come to.
LEMMA LastPartGrows ==
  ASSUME NEW v \in Seq(Seq(EntrySizes)), v # <<>>, NEW e \in EntrySizes
  PROVE  join(Unfinished([v EXCEPT ![Len(v)] = Append(@, e)]))
           = Append(join(Unfinished(v)), e)
<1> DEFINE w == [v EXCEPT ![Len(v)] = Append(@, e)]
           n == Len(v) - 1
           front == SubSeq(v, 1, n)
           p == Unfinished(front)
           a == Part(v[Len(v)], FALSE)
           b == Part(Append(v[Len(v)], e), FALSE)
<1>1. n \in Nat /\ n + 1 = Len(v) /\ v[Len(v)] \in Seq(EntrySizes)
  OBVIOUS
<1>2. /\ front \in Seq(Seq(EntrySizes)) /\ Len(front) = n
      /\ \A k \in 1..n : front[k] = v[k]
  BY <1>1, SubSeqProperties
<1>3. /\ w \in Seq(Seq(EntrySizes)) /\ Len(w) = n + 1
      /\ \A k \in 1..n : w[k] = v[k]
      /\ w[n + 1] = Append(v[Len(v)], e)
  <2> DEFINE x == Append(v[Len(v)], e)
  <2>1. x \in Seq(EntrySizes)
    BY <1>1
  <2>2. w = [v EXCEPT ![n + 1] = x]
    BY <1>1
  <2> HIDE DEF x, w
  <2>3. w \in Seq(Seq(EntrySizes)) /\ Len(w) = n + 1
    BY <1>1, <2>1, <2>2
  <2>4. w[n + 1] = x /\ \A k \in 1..n : w[k] = v[k]
    <3>1. \A i \in 1..Len(v), y \in Seq(EntrySizes) :
            \A k \in 1..Len(v) : [v EXCEPT ![i] = y][k] = IF k = i THEN y ELSE v[k]
      BY ExceptSeq
    <3>2. n + 1 \in 1..Len(v) /\ \A k \in 1..n : k \in 1..Len(v) /\ k # n + 1
      <4>1. \A m \in Nat : /\ m + 1 \in 1 .. m + 1
                          /\ \A k \in 1..m : k \in 1 .. m + 1 /\ k # m + 1
        OBVIOUS
      <4>2. 1..Len(v) = 1 .. n + 1 /\ n \in Nat
        BY <1>1
      <4> QED
        BY <4>1, <4>2
    <3> QED
      BY <2>1, <2>2, <3>1, <3>2
  <2> QED
    BY <2>3, <2>4 DEF x
<1> HIDE DEF front, w, n
<1>4. /\ p \in Seq(Packet) /\ Len(p) = n
      /\ \A k \in 1..n : p[k].entries = v[k]
  BY <1>2, UnfinishedTyped
<1>5. a \in Packet /\ b \in Packet
  BY <1>1 DEF Part, Packet
<1>6. a.entries = v[Len(v)] /\ b.entries = Append(v[Len(v)], e)
  BY DEF Part
<1> HIDE DEF p, a, b
<1>7. ASSUME NEW m \in Packet, NEW u \in Seq(Seq(EntrySizes)), Len(u) = n + 1,
             \A k \in 1..n : u[k] = v[k], u[n + 1] = m.entries
      PROVE  join(Unfinished(u)) = join(p) \o m.entries
  <2> DEFINE q == Append(p, m)
  <2>1. /\ q \in Seq(Packet) /\ Len(q) = n + 1 /\ q[n + 1] = m
        /\ \A k \in 1..n : q[k] = p[k]
    BY <1>4, <1>1
  <2> HIDE DEF q
  <2>2. /\ Unfinished(u) \in Seq(Packet) /\ Len(Unfinished(u)) = n + 1
        /\ \A k \in 1..n + 1 : Unfinished(u)[k].entries = u[k]
    BY <1>7, UnfinishedTyped
  <2>3. ASSUME NEW k \in 1..n + 1
        PROVE  Unfinished(u)[k].entries = q[k].entries
    <3>1. CASE k = n + 1
      BY <1>7, <2>1, <2>2, <3>1
    <3>2. CASE k # n + 1
      <4>1. k \in 1..n
        BY <1>1, <3>2
      <4> QED
        BY <1>4, <1>7, <2>1, <2>2, <4>1
    <3> QED
      BY <3>1, <3>2
  <2>4. join(Unfinished(u)) = join(q)
    BY <2>1, <2>2, <2>3, JoinFacts
  <2>5. join(q) = join(p) \o m.entries
    BY <1>4, JoinFacts DEF q
  <2> QED
    BY <2>4, <2>5
<1>8. join(Unfinished(v)) = join(p) \o v[Len(v)]
  BY <1>1, <1>5, <1>6, <1>7
<1>9. join(Unfinished(w)) = join(p) \o Append(v[Len(v)], e)
  BY <1>3, <1>5, <1>6, <1>7
<1>10. join(p) \in Seq(EntrySizes)
  BY <1>4, <1>5, JoinFacts
<1>11. join(p) \o Append(v[Len(v)], e) = Append(join(p) \o v[Len(v)], e)
  BY <1>1, <1>10
<1> QED
  BY <1>8, <1>9, <1>11 DEF w

\* A new part appends to what all of them come to.
LEMMA OnePartMore ==
  ASSUME NEW v \in Seq(Seq(EntrySizes)), NEW e \in EntrySizes
  PROVE  join(Unfinished(Append(v, <<e>>))) = Append(join(Unfinished(v)), e)
<1> DEFINE w == Append(v, <<e>>)
           p == Unfinished(v)
           m == Part(<<e>>, FALSE)
           q == Append(p, m)
           n == Len(v)
<1>1. /\ w \in Seq(Seq(EntrySizes)) /\ Len(w) = n + 1 /\ n \in Nat
      /\ \A k \in 1..n : w[k] = v[k]
      /\ w[n + 1] = <<e>>
  OBVIOUS
<1>2. /\ p \in Seq(Packet) /\ Len(p) = n
      /\ \A k \in 1..n : p[k].entries = v[k]
  BY UnfinishedTyped
<1>3. m \in Packet /\ m.entries = <<e>>
  BY DEF Part, Packet
<1> HIDE DEF w, p, m, n
<1>4. /\ q \in Seq(Packet) /\ Len(q) = n + 1 /\ q[n + 1] = m
      /\ \A k \in 1..n : q[k] = p[k]
  BY <1>1, <1>2, <1>3
<1> HIDE DEF q
<1>5. /\ Unfinished(w) \in Seq(Packet) /\ Len(Unfinished(w)) = n + 1
      /\ \A k \in 1..n + 1 : Unfinished(w)[k].entries = w[k]
  BY <1>1, UnfinishedTyped
<1>6. ASSUME NEW k \in 1..n + 1
      PROVE  Unfinished(w)[k].entries = q[k].entries
  <2>1. CASE k = n + 1
    BY <1>1, <1>3, <1>4, <1>5, <2>1
  <2>2. CASE k # n + 1
    <3>1. k \in 1..n
      BY <1>1, <2>2
    <3> QED
      BY <1>1, <1>2, <1>4, <1>5, <3>1
  <2> QED
    BY <2>1, <2>2
<1>7. join(Unfinished(w)) = join(q)
  BY <1>4, <1>5, <1>6, JoinFacts
<1>8. join(q) = join(p) \o <<e>> /\ join(p) \in Seq(EntrySizes)
  BY <1>2, <1>3, JoinFacts DEF q
<1>9. join(p) \o <<e>> = Append(join(p), e)
  BY <1>8
<1> QED
  BY <1>7, <1>8, <1>9 DEF w, p

\* A step keeps the parts in order.
LEMMA PutEntryKeeps ==
  ASSUME NEW v, NEW list \in Seq(EntrySizes), NEW e \in EntrySizes, PartsOf(v, list)
  PROVE  PartsOf(PutEntry(v, e), Append(list, e))
<1> DEFINE n == Len(v)
           w == PutEntry(v, e)
<1>1. v \in Seq(Seq(EntrySizes)) /\ v # <<>> /\ join(Unfinished(v)) = list
  BY DEF PartsOf
<1>2. n \in Nat \ {0} /\ v[n] \in Seq(EntrySizes) /\ Last(v) = v[n]
  BY <1>1 DEF Last
<1>3. /\ e \in Nat \ {0} /\ Headroom \in Nat /\ WIRE_ENCODING_LIMIT \in Nat
      /\ 2 + Headroom + e <= WIRE_ENCODING_LIMIT
  BY SizesAssumption, EntryFits
<1>4. /\ v[n] \in Seq(Nat) /\ SumSeq(v[n]) \in Nat
      /\ SumSeq(Append(v[n], e)) = SumSeq(v[n]) + e
  BY <1>2, <1>3, SizesAreNumbers, SumSeqFacts
<1>5. SumSeq(<<e>>) = e
  <2>1. <<>> \in Seq(Nat) /\ Append(<<>>, e) = <<e>>
    OBVIOUS
  <2>2. SumSeq(Append(<<>>, e)) = SumSeq(<<>>) + e /\ SumSeq(<<>>) = 0
    BY <1>3, <2>1, SumSeqFacts
  <2> QED
    BY <1>3, <2>1, <2>2
<1>6. Append(list, e) # <<>>
  <2>1. Len(Append(list, e)) = Len(list) + 1 /\ Len(list) \in Nat
    OBVIOUS
  <2> QED
    BY <2>1
<1>7. CASE 2 + Headroom + SumSeq(v[n]) + e > WIRE_ENCODING_LIMIT
  <2>1. w = Append(v, <<e>>)
    BY <1>2, <1>7 DEF PutEntry
  <2>2. list # <<>>
    <3>1. SUFFICES ASSUME list = <<>> PROVE FALSE
      OBVIOUS
    <3>2. v = << <<>> >>
      BY <3>1 DEF PartsOf
    <3>3. v[n] = <<>>
      BY <3>2
    <3>4. SumSeq(v[n]) = 0
      BY <3>3, SumSeqFacts
    <3> QED
      BY <1>3, <1>4, <1>7, <3>4
  <2>3. /\ w \in Seq(Seq(EntrySizes)) /\ Len(w) = n + 1 /\ w[n + 1] = <<e>>
        /\ \A k \in 1..n : w[k] = v[k]
    BY <1>1, <2>1
  <2>4. Fits(<<e>>)
    BY <1>3, <1>5 DEF Fits
  <2>5. ASSUME NEW k \in 1..Len(w)
        PROVE  Fits(w[k])
    <3>1. CASE k = n + 1
      BY <2>3, <2>4, <3>1
    <3>2. CASE k # n + 1
      <4>1. k \in 1..n
        BY <1>2, <2>3, <3>2
      <4> QED
        BY <2>2, <2>3, <4>1 DEF PartsOf
    <3> QED
      BY <3>1, <3>2
  <2>6. join(Unfinished(w)) = Append(list, e)
    BY <1>1, <2>1, OnePartMore
  <2>7. w # <<>>
    BY <1>2, <2>3
  <2> HIDE DEF w
  <2> QED
    BY <1>6, <2>3, <2>5, <2>6, <2>7 DEF PartsOf, w
<1>8. CASE ~(2 + Headroom + SumSeq(v[n]) + e > WIRE_ENCODING_LIMIT)
  <2>1. w = [v EXCEPT ![Len(v)] = Append(@, e)]
    BY <1>2, <1>8 DEF PutEntry
  <2>2. /\ w \in Seq(Seq(EntrySizes)) /\ Len(w) = n /\ w[n] = Append(v[n], e)
        /\ \A k \in 1..n : k # n => w[k] = v[k]
    BY <1>1, <1>2, <2>1
  <2>3. Fits(Append(v[n], e))
    <3>1. Append(v[n], e) # <<>>
      BY <1>2
    <3>2. 2 + Headroom + SumSeq(Append(v[n], e)) <= WIRE_ENCODING_LIMIT
      BY <1>3, <1>4, <1>8
    <3> QED
      BY <3>1, <3>2 DEF Fits
  <2>4. ASSUME NEW k \in 1..Len(w)
        PROVE  Fits(w[k])
    <3>1. CASE k = n
      BY <2>2, <2>3, <3>1
    <3>2. CASE k # n
      <4>1. list # <<>>
        <5>1. SUFFICES ASSUME list = <<>> PROVE FALSE
          OBVIOUS
        <5>2. n = 1
          BY <5>1 DEF PartsOf
        <5> QED
          BY <2>2, <3>2, <5>2
      <4> QED
        BY <2>2, <3>2, <4>1 DEF PartsOf
    <3> QED
      BY <3>1, <3>2
  <2>5. join(Unfinished(w)) = Append(list, e)
    BY <1>1, <2>1, LastPartGrows
  <2>6. w # <<>>
    BY <1>2, <2>2
  <2> HIDE DEF w
  <2> QED
    BY <1>6, <2>2, <2>4, <2>5, <2>6 DEF PartsOf, w
<1> QED
  BY <1>7, <1>8

Somes == {v \in Seq(Seq(EntrySizes)) : v # <<>>}

\* A sequence of one item.
LEMMA OneItem ==
  ASSUME NEW S, NEW m \in S
  PROVE  /\ Append(<<>>, m) = <<m>> /\ <<m>> \in Seq(S)
         /\ Len(<<m>>) = 1 /\ <<m>>[1] = m /\ <<m>> # <<>>
<1>1. <<m>> \in Seq(S) /\ Len(<<m>>) = 1 /\ <<m>>[1] = m
  OBVIOUS
<1>2. Append(<<>>, m) = <<m>>
  OBVIOUS
<1>3. <<m>> # <<>>
  BY <1>1
<1> QED
  BY <1>1, <1>2, <1>3

\* A step never leaves nothing.
LEMMA PutEntryTyped ==
  ASSUME NEW v \in Somes, NEW e \in EntrySizes
  PROVE  PutEntry(v, e) \in Somes
<1> DEFINE w == PutEntry(v, e)
           n == Len(v)
<1>1. v \in Seq(Seq(EntrySizes)) /\ v # <<>> /\ n \in 1..Len(v) /\ v[n] \in Seq(EntrySizes)
  BY DEF Somes
<1>2. Append(v[n], e) \in Seq(EntrySizes) /\ <<e>> \in Seq(EntrySizes)
  BY <1>1
<1>3. CASE w = Append(v, <<e>>)
  <2>1. w \in Seq(Seq(EntrySizes)) /\ Len(w) = Len(v) + 1 /\ Len(v) \in Nat
    BY <1>1, <1>2, <1>3
  <2>2. w # <<>>
    BY <2>1
  <2> QED
    BY <2>1, <2>2 DEF Somes
<1>4. CASE w = [v EXCEPT ![n] = Append(@, e)]
  <2>1. w = [v EXCEPT ![n] = Append(v[n], e)]
    BY <1>4
  <2>2. w \in Seq(Seq(EntrySizes)) /\ Len(w) = Len(v)
    BY <1>1, <1>2, <2>1, ExceptSeq
  <2>3. w # <<>>
    BY <1>1, <2>2
  <2> QED
    BY <2>2, <2>3 DEF Somes
<1> QED
  BY <1>3, <1>4 DEF PutEntry

\* The parts that split_by_size puts a list into.
LEMMA PartsExist ==
  ASSUME NEW list \in Seq(EntrySizes)
  PROVE  \E at : /\ \A n \in 0..Len(list) : PartsOf(at[n], SubSeq(list, 1, n))
                 /\ split_by_size(list) =
                      IF EncodedSize(list) <= WIRE_ENCODING_LIMIT
                      THEN <<Part(list, FALSE)>>
                      ELSE [i \in 1..Len(at[Len(list)]) |->
                              Part(at[Len(list)][i], i < Len(at[Len(list)]))]
<1> DEFINE Upto(f) == f = [i \in 0..Len(list) |->
                             IF i = 0 THEN << <<>> >> ELSE PutEntry(f[i - 1], list[i])]
           at == CHOOSE f : Upto(f)
           step == [i \in 1..Len(list) |-> [v \in Somes |-> PutEntry(v, list[i])]]
<1>0. Len(list) \in Nat
  OBVIOUS
<1>1. split_by_size(list) =
        IF EncodedSize(list) <= WIRE_ENCODING_LIMIT THEN <<Part(list, FALSE)>>
        ELSE [i \in 1..Len(at[Len(list)]) |->
                Part(at[Len(list)][i], i < Len(at[Len(list)]))]
  BY DEF split_by_size, PutEntry
<1>2. << <<>> >> \in Somes
  <2>1. << <<>> >> \in Seq(Seq(EntrySizes)) /\ << <<>> >> # <<>>
    OBVIOUS
  <2> QED
    BY <2>1 DEF Somes
<1>3. step \in [1..Len(list) -> [Somes -> Somes]]
  <2>1. ASSUME NEW i \in 1..Len(list)
        PROVE  [v \in Somes |-> PutEntry(v, list[i])] \in [Somes -> Somes]
    <3>1. list[i] \in EntrySizes
      OBVIOUS
    <3>2. \A v \in Somes : PutEntry(v, list[i]) \in Somes
      BY <3>1, PutEntryTyped
    <3> QED
      BY <3>2
  <2> QED
    BY <2>1, Zenon
<1> HIDE DEF step
<1>4. PICK f : Folded(f, Len(list), << <<>> >>, step, Somes)
  BY <1>0, <1>2, <1>3, FoldExists
<1>5. Upto(f)
  <2>1. ASSUME NEW i \in 0..Len(list)
        PROVE  f[i] = IF i = 0 THEN << <<>> >> ELSE PutEntry(f[i - 1], list[i])
    <3>1. CASE i = 0
      BY <1>4, <3>1 DEF Folded
    <3>2. CASE i # 0
      <4>1. i \in 1..Len(list) /\ i - 1 \in 0..Len(list)
        BY <3>2
      <4>2. f[i] = step[i][f[i - 1]] /\ f[i - 1] \in Somes
        BY <1>4, <4>1 DEF Folded
      <4>3. step[i] = [v \in Somes |-> PutEntry(v, list[i])]
        BY <4>1 DEF step
      <4>4. f[i] = PutEntry(f[i - 1], list[i])
        BY <4>2, <4>3
      <4> QED
        BY <3>2, <4>4
    <3> QED
      BY <3>1, <3>2
  <2>2. f = [i \in 0..Len(list) |-> f[i]]
    BY <1>4 DEF Folded
  <2> QED
    BY <2>1, <2>2
<1>6. Upto(at)
  <2> HIDE DEF Upto
  <2> QED
    BY <1>5
<1>7. ASSUME NEW n \in 0..Len(list)
      PROVE  PartsOf(at[n], SubSeq(list, 1, n))
  <2> HIDE DEF at
  <2>1. \A i \in 0..Len(list) :
          at[i] = IF i = 0 THEN << <<>> >> ELSE PutEntry(at[i - 1], list[i])
    BY <1>6
  <2> DEFINE T == {m \in Nat : m <= Len(list) => PartsOf(at[m], SubSeq(list, 1, m))}
  <2>2. 0 \in T
    <3>1. at[0] = << <<>> >>
      BY <1>0, <2>1
    <3>2. SubSeq(list, 1, 0) = <<>>
      BY SubSeqProperties
    <3>3. << <<>> >> \in Seq(Seq(EntrySizes)) /\ << <<>> >> # <<>>
      BY <1>2 DEF Somes
    <3>4. join(Unfinished(<< <<>> >>)) = <<>>
      <4> DEFINE p == Append(<<>>, Part(<<>>, FALSE))
                 u == Unfinished(<< <<>> >>)
      <4>1. Part(<<>>, FALSE) \in Packet /\ Part(<<>>, FALSE).entries = <<>>
        BY DEF Part, Packet
      <4>2. <<>> \in Seq(Packet)
        OBVIOUS
      <4>3. join(p) = join(<<>>) \o <<>> /\ join(<<>>) = <<>>
        BY <4>1, <4>2, JoinFacts
      <4>4. p \in Seq(Packet) /\ Len(p) = 1 /\ p[1] = Part(<<>>, FALSE)
        BY <4>1, OneItem
      <4>5. /\ u \in Seq(Packet) /\ Len(u) = 1 /\ u[1].entries = <<>>
        <5>1. Len(<< <<>> >>) = 1 /\ << <<>> >>[1] = <<>> /\ 1 \in 1..1
          OBVIOUS
        <5> QED
          BY <3>3, <5>1, UnfinishedTyped
      <4> HIDE DEF p, u
      <4>6. join(u) = join(p)
        <5>1. \A i \in 1..1 : i = 1
          OBVIOUS
        <5>2. \A i \in 1..1 : u[i].entries = p[i].entries
          BY <4>1, <4>4, <4>5, <5>1
        <5> QED
          BY <4>4, <4>5, <5>2, JoinFacts
      <4> QED
        BY <4>3, <4>6 DEF u
    <3>5. PartsOf(<< <<>> >>, <<>>)
      BY <3>3, <3>4 DEF PartsOf
    <3> QED
      BY <3>1, <3>2, <3>5
  <2>3. ASSUME NEW m \in Nat, m \in T
        PROVE  m + 1 \in T
    <3>1. SUFFICES ASSUME m + 1 <= Len(list)
                   PROVE  PartsOf(at[m + 1], SubSeq(list, 1, m + 1))
      OBVIOUS
    <3>2. PartsOf(at[m], SubSeq(list, 1, m))
      BY <2>3, <3>1, <1>0
    <3>3. at[m + 1] = PutEntry(at[m], list[m + 1])
      <4>1. m + 1 \in 0..Len(list) /\ m + 1 # 0 /\ (m + 1) - 1 = m
        BY <3>1, <1>0
      <4> QED
        BY <2>1, <4>1
    <3>4. /\ SubSeq(list, 1, m) \in Seq(EntrySizes) /\ list[m + 1] \in EntrySizes
          /\ SubSeq(list, 1, m + 1) = Append(SubSeq(list, 1, m), list[m + 1])
      BY <3>1, OneMore
    <3> QED
      BY <3>2, <3>3, <3>4, PutEntryKeeps
  <2>4. Nat \subseteq T
    <3> HIDE DEF T
    <3> QED
      BY <2>2, <2>3, NumbersFrom0
  <2> QED
    BY <1>0, <2>4
<1> QED
  BY <1>1, <1>7

\* What a listing is sent as: no part is too long or empty, only the last says that
\* none follows, and together they are what was found.
Divides(parts, list) ==
  /\ parts \in Seq(Packet) /\ parts # <<>>
  /\ \A i \in 1..Len(parts) : /\ ~TooLong(parts[i])
                              /\ parts[i].entries # <<>>
                              /\ parts[i].more_to_come = (i < Len(parts))
  /\ join(parts) = list

\* A single message divides what it holds.
LEMMA OneMessageDivides ==
  ASSUME NEW list \in Seq(EntrySizes), list # <<>>,
         EncodedSize(list) <= WIRE_ENCODING_LIMIT
  PROVE  Divides(<<Part(list, FALSE)>>, list)
<1> DEFINE m == Part(list, FALSE)
           p == Append(<<>>, m)
<1>1. m \in Packet /\ m.entries = list /\ m.more_to_come = FALSE
  BY DEF Part, Packet
<1>2. <<>> \in Seq(Packet)
  OBVIOUS
<1> HIDE DEF m
<1>3. p \in Seq(Packet) /\ Len(p) = 1 /\ p[1] = m /\ p # <<>> /\ p = <<m>>
  BY <1>1, OneItem
<1>4. join(p) = join(<<>>) \o list /\ join(<<>>) = <<>>
  BY <1>1, <1>2, JoinFacts
<1>5. join(p) = list
  BY <1>4
<1>6. ~TooLong(m)
  <2>1. EncodedSize(list) \in Int /\ WIRE_ENCODING_LIMIT \in Nat
    <3>1. SumSeq(list) \in Nat /\ Len(list) \in Nat /\ LengthSize(Len(list)) \in Nat
      BY NoMoreThanTheSum, LengthSizeTyped
    <3> QED
      BY <3>1, SizesAssumption DEF EncodedSize
  <2> QED
    BY <1>1, <2>1 DEF TooLong
<1> HIDE DEF p
<1>7. ASSUME NEW i \in 1..Len(p)
      PROVE  /\ ~TooLong(p[i]) /\ p[i].entries # <<>>
             /\ p[i].more_to_come = (i < Len(p))
  <2>1. i = 1 /\ (i < Len(p)) = FALSE
    BY <1>3
  <2> QED
    BY <1>1, <1>3, <1>6, <2>1
<1>8. Divides(p, list)
  BY <1>3, <1>5, <1>7 DEF Divides
<1> QED
  BY <1>3, <1>8 DEF m

\* split_by_size (protocol/session/response.rs) divides every list that is not empty.
THEOREM SplitDivides ==
  ASSUME NEW list \in Seq(EntrySizes), list # <<>>
  PROVE  Divides(split_by_size(list), list)
<1>1. PICK at : /\ \A n \in 0..Len(list) : PartsOf(at[n], SubSeq(list, 1, n))
                /\ split_by_size(list) =
                      IF EncodedSize(list) <= WIRE_ENCODING_LIMIT
                      THEN <<Part(list, FALSE)>>
                      ELSE [i \in 1..Len(at[Len(list)]) |->
                              Part(at[Len(list)][i], i < Len(at[Len(list)]))]
  BY PartsExist
<1>2. CASE EncodedSize(list) <= WIRE_ENCODING_LIMIT
  BY <1>1, <1>2, OneMessageDivides
<1>3. CASE ~(EncodedSize(list) <= WIRE_ENCODING_LIMIT)
  <2> DEFINE v == at[Len(list)]
             n == Len(v)
             p == [i \in 1..n |-> Part(v[i], i < n)]
  <2>1. split_by_size(list) = p
    BY <1>1, <1>3
  <2>2. PartsOf(v, list)
    <3>1. Len(list) \in 0..Len(list)
      OBVIOUS
    <3>2. SubSeq(list, 1, Len(list)) = list
      BY SubSeqFull
    <3> QED
      BY <1>1, <3>1, <3>2
  <2> HIDE DEF v
  <2>3. /\ v \in Seq(Seq(EntrySizes)) /\ v # <<>> /\ n \in Nat
        /\ \A i \in 1..n : Fits(v[i]) /\ v[i] \in Seq(EntrySizes)
        /\ join(Unfinished(v)) = list
    BY <2>2 DEF PartsOf
  <2> HIDE DEF n
  <2>4. ASSUME NEW i \in 1..n
        PROVE  p[i] \in Packet /\ p[i].entries = v[i] /\ p[i].more_to_come = (i < n)
    <3>1. p[i] = Part(v[i], i < n)
      OBVIOUS
    <3>2. v[i] \in Seq(EntrySizes) /\ (i < n) \in BOOLEAN
      BY <2>3
    <3> QED
      BY <3>1, <3>2 DEF Part, Packet
  <2>5. p \in Seq(Packet) /\ Len(p) = n
    <3>1. p = [i \in 1..n |-> p[i]]
      OBVIOUS
    <3> HIDE DEF p
    <3>2. p \in [1..n -> Packet]
      BY <2>4, <3>1
    <3> QED
      BY <2>3, <3>2
  <2> HIDE DEF p
  <2>6. p # <<>>
    <3>1. n # 0
      BY <2>3 DEF n
    <3> QED
      BY <2>5, <3>1
  <2>7. ASSUME NEW i \in 1..n
        PROVE  ~TooLong(p[i]) /\ p[i].entries # <<>>
    <3>1. v[i] # <<>> /\ 2 + Headroom + SumSeq(v[i]) <= WIRE_ENCODING_LIMIT
      BY <2>3 DEF Fits
    <3>2. EncodedSize(v[i]) <= WIRE_ENCODING_LIMIT
      BY <2>3, <3>1, FitsAMessage
    <3>3. EncodedSize(v[i]) \in Int /\ WIRE_ENCODING_LIMIT \in Nat
      <4>1. v[i] \in Seq(EntrySizes)
        BY <2>3
      <4>2. SumSeq(v[i]) \in Nat
        BY <4>1, NoMoreThanTheSum
      <4>3. Len(v[i]) \in Nat
        BY <4>1
      <4>4. LengthSize(Len(v[i])) \in Nat
        BY <4>3, LengthSizeTyped
      <4> QED
        BY <4>2, <4>3, <4>4, SizesAssumption DEF EncodedSize
    <3> QED
      BY <2>4, <3>1, <3>2, <3>3 DEF TooLong
  <2>8. join(p) = list
    <3>1. /\ Unfinished(v) \in Seq(Packet) /\ Len(Unfinished(v)) = n
          /\ \A i \in 1..n : Unfinished(v)[i].entries = v[i]
      BY <2>3, UnfinishedTyped DEF n
    <3>2. \A i \in 1..n : p[i].entries = Unfinished(v)[i].entries
      BY <2>4, <3>1
    <3> QED
      BY <2>3, <2>5, <3>1, <3>2, JoinFacts
  <2>9. Divides(p, list)
    BY <2>4, <2>5, <2>6, <2>7, <2>8 DEF Divides
  <2> QED
    BY <2>1, <2>9
<1> QED
  BY <1>2, <1>3

-----------------------------------------------------------------------------
(* Requests: the invariant.                                                *)

Listing == job.op = "list"
Message(k, v) == [kind |-> k, val |-> v]

\* Where the server is, what it has done, and that it has had the command.
ServerAt ==
  /\ spc \in {"cmd", "stat", "walk", "create", "stamp"} => did = "none"
  /\ spc \in {"answer", "parts", "ok"} => did = "done"
  /\ spc = "err" => did = "refused"
  /\ spc \in {"walk", "parts"} => Listing
  /\ spc \in {"create", "stamp"} => ~Listing
  /\ spc \notin {"cmd", "failed"} => up.log # <<>>
  /\ did = "done" /\ Listing => Divides(packets, walked)
  /\ ~Listing => walked = <<>>

\* What it has said of that.
ServerSaid ==
  /\ did = "none" => down.log = <<>>
  /\ did = "refused" => Len(down.log) <= 1
  /\ did = "refused" /\ down.log # <<>> => down.log[1] = Message("err", 0)
  /\ did = "done" => \A i \in 1..Len(down.log) :
                       down.log[i] = IF i = 1 THEN Message("ok", 0)
                                     ELSE Message("data", i - 1)
  /\ did = "done" => Len(down.log) <= IF Listing THEN Len(packets) + 1 ELSE 1
  /\ spc \in {"answer", "err"} => down.log = <<>>
  /\ spc = "parts" => Len(down.log) \in 1..Len(packets)
  /\ spc = "ok" => Len(down.log) = IF Listing THEN Len(packets) + 1 ELSE 1
  /\ spc = "failed" /\ did = "done" /\ Listing => Len(down.log) <= Len(packets)
  /\ down.fin <=> spc \in SEnd

\* What the client has heard of it.
ClientAt ==
  /\ down.read <= Len(down.log)
  /\ cpc \in {"check", "cmd"} => up.log = <<>>
  /\ cpc \in {"check", "cmd", "resp"} => down.read = 0
  /\ cpc \in {"check", "cmd", "resp", "refused"} \/ ~Listing => got = <<>>
  /\ cpc = "parts" => /\ Listing /\ did = "done" /\ down.read = Len(got) + 1
                      /\ Len(got) < Len(packets)
                      /\ \A i \in 1..Len(got) : got[i] = packets[i]
  /\ cpc = "ok" => did = "done" /\ (Listing => got = packets /\ spc = "ok")
  /\ cpc = "refused" => did = "refused"
  /\ down.stop <=> cpc \in CEnd

\* Where either side ends without an answer, and why.
Broken ==
  /\ cpc = "failed" => conn = "lost" \/ up.log = <<>> \/ spc \in SEnd
  /\ did = "done" /\ Listing /\ (cpc = "failed" \/ spc = "failed") => conn = "lost"

RequestInv == RequestTypeOK /\ ServerAt /\ ServerSaid /\ ClientAt /\ Broken

\* Dropping an end of a stream.
LEMMA DroppingFacts ==
  ASSUME NEW s \in Stream
  PROVE  /\ Finish(s) \in Stream /\ Finish(s).log = s.log /\ Finish(s).read = s.read
         /\ Finish(s).fin = TRUE /\ Finish(s).stop = s.stop
         /\ Stop(s) \in Stream /\ Stop(s).log = s.log /\ Stop(s).read = s.read
         /\ Stop(s).fin = s.fin /\ Stop(s).stop = TRUE
BY DEF Stream, Finish, Stop

\* Reading an item.
LEMMA ConsumeFacts ==
  ASSUME NEW s \in Stream
  PROVE  /\ Consume(s) \in Stream /\ Consume(s).log = s.log
         /\ Consume(s).read = s.read + 1
         /\ Consume(s).fin = s.fin /\ Consume(s).stop = s.stop
BY DEF Stream, Consume

\* Writing one.
LEMMA WriteFacts ==
  ASSUME NEW s \in Stream, NEW k \in Kind, NEW v \in Nat
  PROVE  /\ Write(s, k, v) \in Stream
         /\ Write(s, k, v).log = Append(s.log, Message(k, v))
         /\ Write(s, k, v).read = s.read /\ Write(s, k, v).fin = s.fin
         /\ Write(s, k, v).stop = s.stop
<1> DEFINE log == Append(s.log, Message(k, v))
<1>1. Message(k, v) \in Item
  BY DEF Item, Message
<1>2. s.log \in Seq(Item)
  BY DEF Stream
<1>3. log \in Seq(Item)
  BY <1>1, <1>2
<1>4. Write(s, k, v) = [s EXCEPT !.log = log]
  BY DEF Write, Message
<1> HIDE DEF log
<1>5. /\ Write(s, k, v) \in Stream /\ Write(s, k, v).log = log
      /\ Write(s, k, v).read = s.read /\ Write(s, k, v).fin = s.fin
      /\ Write(s, k, v).stop = s.stop
  BY <1>3, <1>4 DEF Stream
<1> QED
  BY <1>5 DEF log

\* A new stream is one.
LEMMA NewStreamTyped == NewStream \in Stream
<1>1. <<>> \in Seq(Item)
  OBVIOUS
<1> QED
  BY <1>1 DEF NewStream, Stream

\* RequestInv holds in the beginning.
LEMMA RequestInitInv == RequestInit => RequestInv
<1> SUFFICES ASSUME RequestInit PROVE RequestInv
  OBVIOUS
<1>1. down = NewStream /\ up = NewStream /\ down.log = <<>> /\ down.read = 0
      /\ down.fin = FALSE /\ down.stop = FALSE /\ up.log = <<>>
  BY DEF RequestInit, NewStream
<1>2. RequestTypeOK
  <2>1. got \in Seq(Packet) /\ walked \in Seq(EntrySizes) /\ packets \in Seq(Packet)
    BY DEF RequestInit
  <2> QED
    BY <1>1, <2>1, NewStreamTyped DEF RequestInit, RequestTypeOK
<1>3. ServerAt
  BY DEF RequestInit, ServerAt
<1>4. ServerSaid
  BY <1>1 DEF RequestInit, ServerSaid, SEnd
<1>5. ClientAt
  BY <1>1 DEF RequestInit, ClientAt, CEnd
<1>6. Broken
  BY DEF RequestInit, Broken
<1> QED
  BY <1>2, <1>3, <1>4, <1>5, <1>6 DEF RequestInv

\* The client gives up.
LEMMA ClientGivesUp ==
  ASSUME RequestInv, cpc \notin CEnd, CReturn("failed"),
         UNCHANGED <<job, conn, got, node, svars, meddled>>,
         conn = "lost" \/ up.log = <<>> \/ spc \in SEnd,
         did = "done" /\ Listing => conn = "lost"
  PROVE  RequestInv'
<1>1. up \in Stream /\ down \in Stream
  BY DEF RequestInv, RequestTypeOK
<1>2. /\ up' = Finish(up) /\ down' = Stop(down) /\ cpc' = "failed"
      /\ spc' = spc /\ walked' = walked /\ packets' = packets /\ did' = did
      /\ job' = job /\ conn' = conn /\ got' = got /\ node' = node /\ meddled' = meddled
  BY DEF CReturn, svars
<1>3. /\ up' \in Stream /\ up'.log = up.log
      /\ down' \in Stream /\ down'.log = down.log /\ down'.read = down.read
      /\ down'.fin = down.fin /\ down'.stop = TRUE
  BY <1>1, <1>2, DroppingFacts
<1>4. RequestTypeOK'
  BY <1>2, <1>3 DEF RequestInv, RequestTypeOK, CEnd
<1>5. ServerAt'
  BY <1>2, <1>3 DEF RequestInv, ServerAt, Listing, Divides, TooLong
<1>6. ServerSaid'
  BY <1>2, <1>3 DEF RequestInv, ServerSaid, Listing
<1>7. ClientAt'
  BY <1>2, <1>3 DEF RequestInv, ClientAt, Listing, CEnd
<1>8. Broken'
  BY <1>2, <1>3 DEF RequestInv, Broken, Listing
<1> QED
  BY <1>4, <1>5, <1>6, <1>7, <1>8 DEF RequestInv

\* The server gives up.
LEMMA ServerGivesUp ==
  ASSUME RequestInv, spc \notin SEnd, SReturn("failed"),
         UNCHANGED <<job, conn, cvars, node, walked, packets, did, meddled>>,
         did = "done" /\ Listing => conn = "lost"
  PROVE  RequestInv'
<1>1. up \in Stream /\ down \in Stream
  BY DEF RequestInv, RequestTypeOK
<1>2. /\ up' = Stop(up) /\ down' = Finish(down) /\ spc' = "failed"
      /\ cpc' = cpc /\ got' = got /\ walked' = walked /\ packets' = packets /\ did' = did
      /\ job' = job /\ conn' = conn /\ node' = node /\ meddled' = meddled
  BY DEF SReturn, cvars
<1>3. /\ up' \in Stream /\ up'.log = up.log
      /\ down' \in Stream /\ down'.log = down.log /\ down'.read = down.read
      /\ down'.fin = TRUE /\ down'.stop = down.stop
  BY <1>1, <1>2, DroppingFacts
<1>4. RequestTypeOK'
  BY <1>2, <1>3 DEF RequestInv, RequestTypeOK, SEnd
<1>5. ServerAt'
  BY <1>2, <1>3 DEF RequestInv, ServerAt, Listing, Divides, TooLong
<1>6. ServerSaid'
  <2>1. did = "done" => spc \in {"answer", "parts"}
    <3>1. spc \in {"cmd", "stat", "walk", "create", "stamp", "answer", "parts", "err"}
      BY DEF RequestInv, RequestTypeOK
    <3> QED
      BY <3>1 DEF RequestInv, ServerAt
  <2>2. did = "done" /\ Listing => Len(down.log) <= Len(packets)
    <3>1. SUFFICES ASSUME did = "done", Listing
                   PROVE  Len(down.log) <= Len(packets)
      OBVIOUS
    <3>2. CASE spc = "answer"
      <4>1. Len(down.log) = 0
        BY <3>2 DEF RequestInv, ServerSaid
      <4>2. Len(packets) \in Nat
        BY DEF RequestInv, RequestTypeOK
      <4> QED
        BY <4>1, <4>2
    <3>3. CASE spc = "parts"
      BY <3>3 DEF RequestInv, ServerSaid
    <3> QED
      BY <2>1, <3>1, <3>2, <3>3
  <2> QED
    BY <1>2, <1>3, <2>2 DEF RequestInv, ServerSaid, Listing, SEnd
<1>7. ClientAt'
  BY <1>2, <1>3 DEF RequestInv, ClientAt, Listing, SEnd
<1>8. Broken'
  BY <1>2, <1>3 DEF RequestInv, Broken, Listing, SEnd
<1> QED
  BY <1>4, <1>5, <1>6, <1>7, <1>8 DEF RequestInv

\* The server makes up its mind.
LEMMA ServerDecides ==
  ASSUME RequestInv, spc \in {"stat", "walk", "create", "stamp"},
         UNCHANGED <<job, conn, up, down, cvars, meddled>>, node' \in Nodes,
         \/ spc' = "answer" /\ did' = "done"
         \/ spc' = "err" /\ did' = "refused",
         walked' \in Seq(EntrySizes), packets' \in Seq(Packet),
         did' = "done" /\ Listing => Divides(packets', walked'),
         ~Listing => walked' = <<>>
  PROVE  RequestInv'
<1>1. /\ up' = up /\ down' = down /\ cpc' = cpc /\ got' = got
      /\ job' = job /\ conn' = conn /\ meddled' = meddled
  BY DEF cvars
<1>2. /\ did = "none" /\ up.log # <<>> /\ down.log = <<>>
      /\ cpc \notin {"parts", "ok", "refused"} /\ spc \notin SEnd
  BY DEF RequestInv, ServerAt, ServerSaid, ClientAt, SEnd
<1>3. RequestTypeOK'
  BY <1>1 DEF RequestInv, RequestTypeOK
<1>4. ServerAt'
  <2>1. Divides(packets, walked)' <=> Divides(packets', walked')
    BY DEF Divides, TooLong
  <2> QED
    BY <1>1, <1>2, <2>1 DEF RequestInv, ServerAt, Listing
<1>5. ServerSaid'
  <2>1. Len(<<>>) = 0 /\ packets' \in Seq(Packet) /\ Len(packets') \in Nat
    OBVIOUS
  <2>2. spc' \notin SEnd /\ spc' \notin {"parts", "ok"}
    BY DEF SEnd
  <2>3. \A i \in 1..Len(down.log) : FALSE
    BY <1>2, <2>1
  <2> QED
    BY <1>1, <1>2, <2>1, <2>2, <2>3 DEF RequestInv, ServerSaid, Listing
<1>6. ClientAt'
  BY <1>1, <1>2 DEF RequestInv, ClientAt, Listing
<1>7. Broken'
  BY <1>1, <1>2 DEF RequestInv, Broken, Listing, SEnd
<1> QED
  BY <1>3, <1>4, <1>5, <1>6, <1>7 DEF RequestInv

\* The server goes on without one.
LEMMA ServerGoesOn ==
  ASSUME RequestInv, spc \in {"stat", "walk"},
         UNCHANGED <<job, conn, up, down, cvars, node, packets, did, meddled>>,
         \/ spc' = "walk" /\ Listing /\ walked' \in Seq(EntrySizes)
         \/ spc' \in {"create", "stamp"} /\ ~Listing /\ walked' = walked
  PROVE  RequestInv'
<1>1. /\ up' = up /\ down' = down /\ cpc' = cpc /\ got' = got /\ did' = did
      /\ job' = job /\ conn' = conn /\ meddled' = meddled /\ node' = node
      /\ packets' = packets
  BY DEF cvars
<1>2. /\ did = "none" /\ up.log # <<>> /\ down.log = <<>>
      /\ cpc \notin {"parts", "ok", "refused"} /\ spc \notin SEnd
  BY DEF RequestInv, ServerAt, ServerSaid, ClientAt, SEnd
<1>3. RequestTypeOK'
  BY <1>1 DEF RequestInv, RequestTypeOK
<1>4. ServerAt'
  BY <1>1, <1>2 DEF RequestInv, ServerAt, Listing
<1>5. ServerSaid'
  <2>1. spc' \notin SEnd /\ spc' \notin {"parts", "ok"}
    BY DEF SEnd
  <2> QED
    BY <1>1, <1>2, <2>1 DEF RequestInv, ServerSaid, Listing
<1>6. ClientAt'
  BY <1>1, <1>2 DEF RequestInv, ClientAt, Listing
<1>7. Broken'
  BY <1>1, <1>2 DEF RequestInv, Broken, Listing, SEnd
<1> QED
  BY <1>3, <1>4, <1>5, <1>6, <1>7 DEF RequestInv

\* Looking at the path.
LEMMA StatKeeps == RequestInv /\ (SStatList \/ SStatMkdir \/ SStatSetMeta) => RequestInv'
<1> SUFFICES ASSUME RequestInv, SStatList \/ SStatMkdir \/ SStatSetMeta
             PROVE  RequestInv'
  OBVIOUS
<1>0. /\ node \in Nodes /\ walked \in Seq(EntrySizes) /\ packets \in Seq(Packet)
      /\ spc = "stat" /\ did = "none"
      /\ ~Listing => walked = <<>>
  BY DEF RequestInv, RequestTypeOK, ServerAt, SStatList, SStatMkdir, SStatSetMeta
<1>1. UNCHANGED <<job, conn, cvars, node, meddled>>
  BY DEF SStatList, SStatMkdir, SStatSetMeta, StatPaths
<1>2. CASE SRefuse /\ UNCHANGED <<up, down, walked, packets>>
  BY <1>0, <1>1, <1>2, ServerDecides DEF SRefuse
<1>3. CASE SStatList /\ ~(SRefuse /\ UNCHANGED <<up, down, walked, packets>>)
  <2>0. Listing
    BY <1>3 DEF SStatList, Listing
  <2>1. CASE node = "file" /\ spc' = "answer" /\ did' = "done"
    <3>1. PICK e \in EntrySizes : walked' = <<e>> /\ packets' = <<Part(<<e>>, FALSE)>>
      BY <1>3, <2>1 DEF SStatList
    <3>2. <<e>> \in Seq(EntrySizes) /\ <<e>> # <<>>
      BY OneItem
    <3>3. EncodedSize(<<e>>) <= WIRE_ENCODING_LIMIT
      <4>1. SumSeq(<<e>>) = e
        <5>1. e \in Nat /\ <<>> \in Seq(Nat) /\ Append(<<>>, e) = <<e>>
          BY SizesAssumption
        <5>2. SumSeq(Append(<<>>, e)) = SumSeq(<<>>) + e /\ SumSeq(<<>>) = 0
          BY <5>1, SumSeqFacts
        <5> QED
          BY <5>1, <5>2
      <4>2. 2 + Headroom + e <= WIRE_ENCODING_LIMIT
        BY EntryFits
      <4> QED
        BY <3>2, <4>1, <4>2, FitsAMessage
    <3>4. Divides(packets', walked')
      BY <3>1, <3>2, <3>3, OneMessageDivides
    <3>5. packets' \in Seq(Packet) /\ walked' \in Seq(EntrySizes)
      BY <3>1, <3>2, <3>4 DEF Divides
    <3>6. UNCHANGED <<up, down>>
      BY <1>3, <2>1 DEF SStatList, SRefuse
    <3> QED
      BY <1>0, <1>1, <2>0, <2>1, <3>4, <3>5, <3>6, ServerDecides
  <2>2. CASE spc' = "walk" /\ UNCHANGED <<up, down, walked, packets, did>>
    BY <1>0, <1>1, <2>0, <2>2, ServerGoesOn
  <2> QED
    BY <1>3, <2>1, <2>2 DEF SStatList
<1>4. CASE SStatMkdir /\ ~(SRefuse /\ UNCHANGED <<up, down, walked, packets>>)
  <2>0. ~Listing /\ UNCHANGED <<walked, packets>>
    BY <1>4 DEF SStatMkdir, Listing
  <2>1. CASE spc' = "create" /\ UNCHANGED <<up, down, did>>
    BY <1>0, <1>1, <2>0, <2>1, ServerGoesOn
  <2>2. CASE spc' = "answer" /\ did' = "done" /\ UNCHANGED <<up, down>>
    BY <1>0, <1>1, <2>0, <2>2, ServerDecides
  <2>3. CASE SBail
    <3>1. spc \notin SEnd
      BY <1>0 DEF SEnd
    <3> QED
      BY <1>0, <1>1, <2>0, <2>3, <3>1, ServerGivesUp DEF SBail
  <2> QED
    BY <1>4, <2>1, <2>2, <2>3 DEF SStatMkdir
<1>5. CASE SStatSetMeta /\ ~(SRefuse /\ UNCHANGED <<up, down, walked, packets>>)
  <2>1. spc' = "stamp" /\ ~Listing /\ UNCHANGED <<did, up, down, walked, packets>>
    BY <1>5 DEF SStatSetMeta, Listing
  <2> QED
    BY <1>0, <1>1, <2>1, ServerGoesOn
<1> QED
  BY <1>2, <1>3, <1>4, <1>5

\* Walking.
LEMMA WalkKeeps == RequestInv /\ (SWalk \/ SWalkFails \/ SWalkEnds) => RequestInv'
<1> SUFFICES ASSUME RequestInv, SWalk \/ SWalkFails \/ SWalkEnds
             PROVE  RequestInv'
  OBVIOUS
<1>0. /\ node \in Nodes /\ walked \in Seq(EntrySizes) /\ packets \in Seq(Packet)
      /\ spc = "walk" /\ did = "none" /\ Listing
  BY DEF RequestInv, RequestTypeOK, ServerAt, SWalk, SWalkFails, SWalkEnds
<1>1. UNCHANGED <<job, conn, up, down, cvars, node, meddled>>
  BY DEF SWalk, SWalkFails, SWalkEnds, ActPaths
<1>2. CASE SWalk
  <2>1. PICK e \in EntrySizes : walked' = Append(walked, e)
    BY <1>2 DEF SWalk
  <2>2. walked' \in Seq(EntrySizes)
    BY <1>0, <2>1
  <2> QED
    BY <1>0, <1>1, <1>2, <2>2, ServerGoesOn DEF SWalk
<1>3. CASE SWalkFails
  BY <1>0, <1>1, <1>3, ServerDecides DEF SWalkFails, SRefuse
<1>4. CASE SWalkEnds
  <2>1. packets' = split_by_size(walked) /\ walked # <<>> /\ walked' = walked
    BY <1>4 DEF SWalkEnds
  <2>2. Divides(packets', walked')
    BY <1>0, <2>1, SplitDivides
  <2>3. packets' \in Seq(Packet)
    BY <2>2 DEF Divides
  <2> QED
    BY <1>0, <1>1, <1>4, <2>1, <2>2, <2>3, ServerDecides DEF SWalkEnds
<1> QED
  BY <1>2, <1>3, <1>4

\* Making a directory, or setting its permissions.
LEMMA ActKeeps == RequestInv /\ (SCreate \/ SStamp) => RequestInv'
<1> SUFFICES ASSUME RequestInv, SCreate \/ SStamp
             PROVE  RequestInv'
  OBVIOUS
<1>0. /\ node \in Nodes /\ walked \in Seq(EntrySizes) /\ packets \in Seq(Packet)
      /\ spc \in {"create", "stamp"} /\ did = "none" /\ ~Listing /\ walked = <<>>
  BY DEF RequestInv, RequestTypeOK, ServerAt, SCreate, SStamp
<1>1. UNCHANGED <<job, conn, up, down, cvars, meddled, walked, packets>>
  BY DEF SCreate, SStamp, ActPaths
<1>2. /\ \/ spc' = "answer" /\ did' = "done"
         \/ spc' = "err" /\ did' = "refused"
      /\ node' \in Nodes
  BY <1>0 DEF SCreate, SStamp, SRefuse, Nodes, IsDir
<1> QED
  BY <1>0, <1>1, <1>2, ServerDecides

\* A stream's log and what is next in it.
LEMMA StreamTyped ==
  ASSUME NEW s \in Stream
  PROVE  /\ s.log \in Seq(Item) /\ s.read \in Nat /\ Len(s.log) \in Nat
         /\ Available(s) => s.log # <<>>
<1>1. s.log \in Seq(Item) /\ s.read \in Nat
  BY DEF Stream
<1>2. Len(s.log) \in Nat
  BY <1>1
<1>3. Available(s) => Len(s.log) # 0
  BY <1>1, <1>2 DEF Available
<1> QED
  BY <1>1, <1>2, <1>3

\* The command comes, or never will.
LEMMA CommandKeeps == RequestInv /\ (SCommand \/ SNoCommand) => RequestInv'
<1> SUFFICES ASSUME RequestInv, SCommand \/ SNoCommand PROVE RequestInv'
  OBVIOUS
<1>0. spc = "cmd" /\ did = "none" /\ spc \notin SEnd /\ up \in Stream /\ down.log = <<>>
  BY DEF RequestInv, RequestTypeOK, ServerAt, ServerSaid, SCommand, SNoCommand, SEnd
<1>1. CASE SCommand
  <2>1. /\ up' = Consume(up) /\ down' = down /\ cpc' = cpc /\ got' = got /\ spc' = "stat"
        /\ job' = job /\ conn' = conn /\ meddled' = meddled /\ node' = node
        /\ walked' = walked /\ packets' = packets /\ did' = did
    BY <1>1 DEF SCommand, cvars
  <2>2. up' \in Stream /\ up'.log = up.log /\ up.log # <<>>
    BY <1>0, <1>1, <2>1, ConsumeFacts, StreamTyped DEF SCommand
  <2>3. RequestTypeOK'
    BY <2>1, <2>2 DEF RequestInv, RequestTypeOK
  <2>4. ServerAt'
    BY <1>0, <2>1, <2>2 DEF RequestInv, ServerAt, Listing
  <2>5. ServerSaid'
    BY <1>0, <2>1 DEF RequestInv, ServerSaid, Listing, SEnd
  <2>6. ClientAt'
    BY <1>0, <2>1, <2>2 DEF RequestInv, ClientAt, Listing
  <2>7. Broken'
    BY <1>0, <2>1, <2>2 DEF RequestInv, Broken, Listing, SEnd
  <2> QED
    BY <2>3, <2>4, <2>5, <2>6, <2>7 DEF RequestInv
<1>2. CASE SNoCommand
  BY <1>0, <1>2, ServerGivesUp DEF SNoCommand
<1> QED
  BY <1>1, <1>2

\* A write of the server fails.
LEMMA WriteFailsKeeps == RequestInv /\ SWriteFails => RequestInv'
<1> SUFFICES ASSUME RequestInv, SWriteFails PROVE RequestInv'
  OBVIOUS
<1>1. spc \notin SEnd /\ spc # "ok"
  BY DEF SWriteFails, SEnd
<1>2. ASSUME did = "done", Listing
      PROVE  conn = "lost"
  <2>1. CASE down.stop
    <3>1. cpc \in CEnd
      BY <2>1 DEF RequestInv, ClientAt
    <3>2. cpc = "failed"
      BY <1>1, <1>2, <3>1 DEF RequestInv, ClientAt, CEnd
    <3> QED
      BY <1>2, <3>2 DEF RequestInv, Broken
  <2> QED
    BY <2>1 DEF SWriteFails
<1> QED
  BY <1>1, <1>2, ServerGivesUp DEF SWriteFails

\* The server answers.
LEMMA AnswerKeeps == RequestInv /\ SAnswer => RequestInv'
<1> SUFFICES ASSUME RequestInv, SAnswer PROVE RequestInv'
  OBVIOUS
<1>0. /\ up \in Stream /\ down \in Stream /\ down.log = <<>>
      /\ spc \in {"answer", "err"} /\ spc \notin SEnd /\ up.log # <<>>
      /\ spc = "answer" => did = "done"
      /\ spc = "err" => did = "refused"
      /\ packets \in Seq(Packet)
      /\ down.read <= 0 /\ down.read \in Nat
  <2>1. up \in Stream /\ down \in Stream /\ packets \in Seq(Packet)
    BY DEF RequestInv, RequestTypeOK
  <2>2. spc \in {"answer", "err"} /\ down.log = <<>>
    BY DEF RequestInv, ServerSaid, SAnswer
  <2>3. Len(<<>>) = 0 /\ down.read \in Nat
    BY <2>1, StreamTyped
  <2> QED
    BY <2>1, <2>2, <2>3 DEF RequestInv, ServerAt, ClientAt, SEnd
<1>1. /\ job' = job /\ conn' = conn /\ cpc' = cpc /\ got' = got /\ node' = node
      /\ walked' = walked /\ packets' = packets /\ did' = did /\ meddled' = meddled
  BY DEF SAnswer, cvars
<1>2. /\ cpc \notin {"parts"} /\ (cpc = "ok" => ~Listing)
      /\ cpc = "failed" /\ did = "done" /\ Listing => conn = "lost"
  BY <1>0 DEF RequestInv, ClientAt, Broken
<1>3. ASSUME NEW k \in {"ok", "err"}, SLast(k, 0),
             \/ k = "ok" /\ spc = "answer" /\ ~Listing
             \/ k = "err" /\ spc = "err"
      PROVE  RequestInv'
  <2>1. /\ up' = Stop(up) /\ down' = Finish(Write(down, k, 0))
        /\ spc' = IF k = "err" THEN "failed" ELSE "ok"
    BY <1>3 DEF SLast
  <2>2. k \in Kind /\ 0 \in Nat
    BY DEF Kind
  <2>3. up' \in Stream /\ up'.log = up.log
    BY <1>0, <2>1, DroppingFacts
  <2>4. /\ Write(down, k, 0) \in Stream
        /\ Write(down, k, 0).log = Append(down.log, Message(k, 0))
        /\ Write(down, k, 0).read = down.read /\ Write(down, k, 0).stop = down.stop
    BY <1>0, <2>2, WriteFacts
  <2>5. /\ down' \in Stream /\ down'.log = Append(down.log, Message(k, 0))
        /\ down'.read = down.read /\ down'.stop = down.stop /\ down'.fin = TRUE
    BY <2>1, <2>4, DroppingFacts
  <2>6. Len(down'.log) = 1 /\ down'.log[1] = Message(k, 0) /\ down'.log # <<>>
    BY <1>0, <2>5
  <2>7. RequestTypeOK'
    BY <1>1, <2>1, <2>3, <2>5 DEF RequestInv, RequestTypeOK, SEnd
  <2>8. ServerAt'
    BY <1>0, <1>1, <1>3, <2>1, <2>3 DEF RequestInv, ServerAt, Listing
  <2>9. ServerSaid'
    <3>1. \A i \in 1..1 : i = 1
      OBVIOUS
    <3>2. spc' \in SEnd /\ (spc' = "ok" => k = "ok") /\ spc' \in {"ok", "failed"}
      BY <1>3, <2>1 DEF SEnd
    <3>3. /\ did' # "none" /\ (did' = "done" => k = "ok" /\ ~Listing)
          /\ did' = "refused" => k = "err"
      BY <1>0, <1>1, <1>3
    <3>4. did' = "done" => \A i \in 1..Len(down'.log) :
            down'.log[i] = IF i = 1 THEN Message("ok", 0) ELSE Message("data", i - 1)
      BY <2>6, <3>1, <3>3
    <3>5. did' = "refused" => down'.log[1] = Message("err", 0)
      BY <2>6, <3>3
    <3>6. Listing' = Listing /\ (did' = "refused" => spc' # "ok")
      BY <1>1, <3>2, <3>3 DEF Listing
    <3>7. spc' \notin {"answer", "err", "parts"}
      BY <3>2
    <3>8. spc' = "ok" => ~Listing
      BY <1>3, <2>1
    <3> QED
      BY <2>5, <2>6, <3>2, <3>3, <3>4, <3>5, <3>6, <3>7, <3>8 DEF ServerSaid
  <2>10. ClientAt'
    <3>1. down'.read <= Len(down'.log)
      BY <1>0, <2>5, <2>6
    <3> QED
      BY <1>1, <1>2, <2>3, <2>5, <3>1 DEF RequestInv, ClientAt, Listing
  <2>11. Broken'
    BY <1>0, <1>1, <1>2, <1>3, <2>1, <2>3 DEF RequestInv, Broken, Listing, SEnd
  <2> QED
    BY <2>7, <2>8, <2>9, <2>10, <2>11 DEF RequestInv
<1>4. CASE spc = "err"
  BY <1>3, <1>4 DEF SAnswer
<1>5. CASE spc = "answer" /\ ~Listing
  BY <1>3, <1>5 DEF SAnswer, Listing
<1>6. CASE spc = "answer" /\ Listing
  <2>1. up' = up /\ down' = Write(down, "ok", 0) /\ spc' = "parts"
    BY <1>6 DEF SAnswer, Listing
  <2>2. "ok" \in Kind /\ 0 \in Nat
    BY DEF Kind
  <2>3. /\ down' \in Stream /\ down'.log = Append(down.log, Message("ok", 0))
        /\ down'.read = down.read /\ down'.stop = down.stop /\ down'.fin = down.fin
    BY <1>0, <2>1, <2>2, WriteFacts
  <2>4. Len(down'.log) = 1 /\ down'.log[1] = Message("ok", 0) /\ down'.log # <<>>
    BY <1>0, <2>3
  <2>5. Len(packets) \in Nat /\ Len(packets) # 0
    BY <1>0, <1>6 DEF RequestInv, ServerAt, Divides
  <2>6. RequestTypeOK'
    BY <1>1, <2>1, <2>3 DEF RequestInv, RequestTypeOK
  <2>7. ServerAt'
    BY <1>0, <1>1, <1>6, <2>1 DEF RequestInv, ServerAt, Listing, Divides, TooLong
  <2>8. ServerSaid'
    <3>1. \A i \in 1..1 : i = 1
      OBVIOUS
    <3>2. spc' \notin SEnd /\ ~down.fin
      BY <1>0, <2>1 DEF RequestInv, ServerSaid, SEnd
    <3>3. did' = "done" /\ Listing' /\ 1 <= Len(packets) + 1 /\ 1 \in 1..Len(packets)
      BY <1>0, <1>1, <1>6, <2>5 DEF Listing
    <3> QED
      BY <1>1, <2>1, <2>3, <2>4, <3>1, <3>2, <3>3 DEF ServerSaid
  <2>9. ClientAt'
    <3>1. down'.read <= Len(down'.log)
      BY <1>0, <2>3, <2>4
    <3> QED
      BY <1>1, <1>2, <1>6, <2>1, <2>3, <3>1 DEF RequestInv, ClientAt, Listing
  <2>10. Broken'
    BY <1>0, <1>1, <1>2, <2>1 DEF RequestInv, Broken, Listing, SEnd
  <2> QED
    BY <2>6, <2>7, <2>8, <2>9, <2>10 DEF RequestInv
<1> QED
  BY <1>0, <1>4, <1>5, <1>6

\* The server sends a part; none is too long for that.
LEMMA SendPartKeeps == RequestInv /\ SSendPart => RequestInv'
<1> SUFFICES ASSUME RequestInv, SSendPart PROVE RequestInv'
  OBVIOUS
<1> DEFINE n == Len(down.log)
           sent == Write(down, "data", n)
<1>0. /\ spc = "parts" /\ did = "done" /\ Listing /\ up.log # <<>>
      /\ Divides(packets, walked)
      /\ up \in Stream /\ down \in Stream /\ ~down.fin
      /\ spc \notin SEnd
  BY DEF RequestInv, RequestTypeOK, ServerAt, ServerSaid, SSendPart, SEnd
<1>1. n \in 1..Len(packets) /\ n \in Nat /\ packets \in Seq(Packet) /\ Len(packets) \in Nat
  <2>1. n \in 1..Len(packets)
    BY <1>0 DEF RequestInv, ServerSaid
  <2>2. n \in Nat
    BY <1>0, StreamTyped
  <2>3. packets \in Seq(Packet)
    BY DEF RequestInv, RequestTypeOK
  <2>4. Len(packets) \in Nat
    BY <2>3
  <2> QED
    BY <2>1, <2>2, <2>3, <2>4
<1>2. ~TooLong(packets[n])
  BY <1>0, <1>1 DEF Divides
<1>3. SentParts + 1 = n
  BY <1>1 DEF SentParts
<1>4. /\ job' = job /\ conn' = conn /\ cpc' = cpc /\ got' = got /\ node' = node
      /\ walked' = walked /\ packets' = packets /\ did' = did /\ meddled' = meddled
  BY DEF SSendPart, cvars
<1>5. /\ sent \in Stream /\ sent.log = Append(down.log, Message("data", n))
      /\ sent.read = down.read /\ sent.stop = down.stop /\ sent.fin = down.fin
  BY <1>0, <1>1, WriteFacts DEF Kind
<1>6. IF n = Len(packets) THEN SLast("data", n)
      ELSE down' = sent /\ UNCHANGED <<spc, up>>
  BY <1>2, <1>3 DEF SSendPart
<1>7. cpc \notin {"ok", "refused"} /\ (cpc = "failed" => conn = "lost")
  BY <1>0 DEF RequestInv, ClientAt, Broken
<1>8. /\ Len(sent.log) = n + 1
      /\ \A i \in 1 .. n + 1 : sent.log[i] = IF i = 1 THEN Message("ok", 0)
                                             ELSE Message("data", i - 1)
  <2>1. down.log \in Seq(Item)
    BY <1>0, StreamTyped
  <2>2. Message("data", n) \in Item
    BY <1>1 DEF Item, Message, Kind
  <2>3. Len(sent.log) = n + 1 /\ sent.log[n + 1] = Message("data", n)
        /\ \A i \in 1..n : sent.log[i] = down.log[i]
    BY <1>5, <2>1, <2>2, AppendProperties
  <2>4. \A i \in 1..n : down.log[i] = IF i = 1 THEN Message("ok", 0)
                                      ELSE Message("data", i - 1)
    BY <1>0 DEF RequestInv, ServerSaid
  <2>5. ASSUME NEW i \in 1 .. n + 1
        PROVE  sent.log[i] = IF i = 1 THEN Message("ok", 0) ELSE Message("data", i - 1)
    <3>1. CASE i = n + 1
      <4>1. i # 1 /\ i - 1 = n
        BY <1>1, <3>1
      <4> QED
        BY <2>3, <3>1, <4>1
    <3>2. CASE i # n + 1
      <4>1. i \in 1..n
        BY <1>1, <3>2
      <4> QED
        BY <2>3, <2>4, <4>1
    <3> QED
      BY <3>1, <3>2
  <2> QED
    BY <2>3, <2>5
<1>9. down.read <= n /\ down.read \in Nat
  BY <1>0, StreamTyped DEF RequestInv, ClientAt
<1> HIDE DEF n, sent
<1>10. CASE n = Len(packets)
  <2>1. up' = Stop(up) /\ down' = Finish(sent) /\ spc' = "ok"
    BY <1>6, <1>10 DEF SLast, sent
  <2>2. up' \in Stream /\ up'.log = up.log
    BY <1>0, <2>1, DroppingFacts
  <2>3. /\ down' \in Stream /\ down'.log = sent.log /\ down'.read = down.read
        /\ down'.stop = down.stop /\ down'.fin = TRUE
    BY <1>5, <2>1, DroppingFacts
  <2>4. RequestTypeOK'
    BY <1>4, <2>1, <2>2, <2>3 DEF RequestInv, RequestTypeOK, SEnd
  <2>5. ServerAt'
    BY <1>0, <1>4, <2>1, <2>2 DEF ServerAt, Listing, Divides, TooLong
  <2>6. ServerSaid'
    <3>1. Len(down'.log) = Len(packets) + 1
      BY <1>8, <1>10, <2>3
    <3>2. Listing' /\ did' = "done" /\ packets' = packets
      BY <1>0, <1>4 DEF Listing
    <3>3. \A i \in 1..Len(down'.log) :
            down'.log[i] = IF i = 1 THEN Message("ok", 0) ELSE Message("data", i - 1)
      BY <1>8, <2>3
    <3>4. Len(down'.log) <= Len(packets) + 1
      BY <1>1, <3>1
    <3> QED
      BY <2>1, <2>3, <3>1, <3>2, <3>3, <3>4 DEF ServerSaid, SEnd
  <2>7. ClientAt'
    <3>1. down'.read <= Len(down'.log)
      BY <1>1, <1>8, <1>9, <2>3
    <3> QED
      BY <1>0, <1>4, <1>7, <2>2, <2>3, <3>1 DEF RequestInv, ClientAt, Listing
  <2>8. Broken'
    BY <1>4, <1>7, <2>1 DEF Broken
  <2> QED
    BY <2>4, <2>5, <2>6, <2>7, <2>8 DEF RequestInv
<1>11. CASE n # Len(packets)
  <2>1. up' = up /\ down' = sent /\ spc' = spc
    BY <1>6, <1>11
  <2>2. RequestTypeOK'
    BY <1>4, <1>5, <2>1 DEF RequestInv, RequestTypeOK
  <2>3. ServerAt'
    BY <1>0, <1>4, <2>1 DEF RequestInv, ServerAt, Listing, Divides, TooLong
  <2>4. ServerSaid'
    <3>1. Len(down'.log) = n + 1 /\ n + 1 \in 1..Len(packets) /\ n + 1 <= Len(packets) + 1
      BY <1>1, <1>8, <1>11, <2>1
    <3>2. Listing' /\ did' = "done" /\ packets' = packets
      BY <1>0, <1>4 DEF Listing
    <3>3. \A i \in 1..Len(down'.log) :
            down'.log[i] = IF i = 1 THEN Message("ok", 0) ELSE Message("data", i - 1)
      BY <1>8, <2>1
    <3>4. down'.fin = FALSE /\ spc' = "parts"
      BY <1>0, <1>5, <2>1 DEF RequestInv, RequestTypeOK, Stream
    <3> QED
      BY <3>1, <3>2, <3>3, <3>4 DEF ServerSaid, SEnd
  <2>5. ClientAt'
    <3>1. down'.read <= Len(down'.log)
      BY <1>1, <1>5, <1>8, <1>9, <2>1
    <3> QED
      BY <1>0, <1>4, <1>5, <1>7, <2>1, <3>1 DEF RequestInv, ClientAt, Listing
  <2>6. Broken'
    BY <1>0, <1>4, <1>7, <2>1 DEF Broken
  <2> QED
    BY <2>2, <2>3, <2>4, <2>5, <2>6 DEF RequestInv
<1> QED
  BY <1>10, <1>11

\* The client asks, or does not.
LEMMA AskKeeps ==
  RequestInv /\ (CCheck \/ CNoLocalDirectory \/ CSendCmd \/ CWriteFails) => RequestInv'
<1> SUFFICES ASSUME RequestInv, CCheck \/ CNoLocalDirectory \/ CSendCmd \/ CWriteFails
             PROVE  RequestInv'
  OBVIOUS
<1>0. /\ cpc \in {"check", "cmd"} /\ cpc \notin CEnd /\ up.log = <<>> /\ up \in Stream
  BY DEF RequestInv, RequestTypeOK, ClientAt, CCheck, CNoLocalDirectory, CSendCmd,
     CWriteFails, CEnd
<1>1. did = "done" /\ Listing => conn = "lost"
  <2>1. SUFFICES ASSUME did = "done", Listing PROVE conn = "lost"
    OBVIOUS
  <2>2. spc = "failed"
    BY <1>0, <2>1 DEF RequestInv, ServerAt
  <2> QED
    BY <2>1, <2>2 DEF RequestInv, Broken
<1>2. CASE CReturn("failed") /\ UNCHANGED <<job, conn, got, node, svars, meddled>>
  BY <1>0, <1>1, <1>2, ClientGivesUp
<1>3. ASSUME cpc' \in {"cmd", "resp"}, cpc = "check" => cpc' = "cmd" /\ up' = up,
             cpc = "cmd" => cpc' = "resp" /\ up' = Write(up, "cmd", 0),
             UNCHANGED <<job, conn, down, got, node, svars, meddled>>
      PROVE  RequestInv'
  <2>1. /\ job' = job /\ conn' = conn /\ down' = down /\ got' = got /\ node' = node
        /\ spc' = spc /\ walked' = walked /\ packets' = packets /\ did' = did
        /\ meddled' = meddled
    BY <1>3 DEF svars
  <2>2. /\ up' \in Stream
        /\ cpc' = "cmd" => up'.log = <<>>
        /\ up.log # <<>> => up'.log # <<>>
    BY <1>0, <1>3, WriteFacts DEF Kind
  <2>3. RequestTypeOK'
    BY <1>3, <2>1, <2>2 DEF RequestInv, RequestTypeOK
  <2>4. ServerAt'
    BY <1>0, <2>1, <2>2 DEF RequestInv, ServerAt, Listing, Divides, TooLong
  <2>5. ServerSaid'
    BY <2>1 DEF RequestInv, ServerSaid, Listing
  <2>6. ClientAt'
    <3>1. cpc' \notin CEnd
      BY <1>3 DEF CEnd
    <3> QED
      BY <1>0, <1>3, <2>1, <2>2, <3>1 DEF RequestInv, ClientAt, Listing
  <2>7. Broken'
    BY <1>3, <2>1 DEF RequestInv, Broken, Listing
  <2> QED
    BY <2>3, <2>4, <2>5, <2>6, <2>7 DEF RequestInv
<1>4. CASE CCheck /\ ~(CReturn("failed") /\ UNCHANGED <<job, conn, got, node, svars, meddled>>)
  BY <1>3, <1>4 DEF CCheck
<1>5. CASE CSendCmd
  BY <1>3, <1>5 DEF CSendCmd
<1> QED
  BY <1>2, <1>4, <1>5 DEF CNoLocalDirectory, CWriteFails, CCheck

\* What the first message says is what the server has done.
LEMMA ResponseIs ==
  ASSUME RequestInv, CResponse
  PROVE  /\ down \in Stream /\ down.read = 0 /\ down.log # <<>> /\ Len(down.log) \in Nat \ {0}
         /\ NextItem(down).kind = "err" => did = "refused"
         /\ NextItem(down).kind # "err" => did = "done"
<1>1. cpc = "resp" /\ Available(down) /\ down \in Stream /\ down.read = 0
  BY DEF RequestInv, RequestTypeOK, ClientAt, CResponse
<1>2. down.log # <<>> /\ Len(down.log) \in Nat \ {0}
  BY <1>1, StreamTyped DEF Available
<1>3. NextItem(down) = down.log[1] /\ 1 \in 1..Len(down.log)
  BY <1>1, <1>2 DEF NextItem
<1>4. did \in {"done", "refused"}
  BY <1>2 DEF RequestInv, RequestTypeOK, ServerSaid
<1>5. CASE did = "done"
  <2>1. NextItem(down) = Message("ok", 0)
    BY <1>3, <1>5 DEF RequestInv, ServerSaid
  <2> QED
    BY <1>1, <1>2, <1>5, <2>1 DEF Message
<1>6. CASE did = "refused"
  <2>1. NextItem(down) = Message("err", 0)
    BY <1>2, <1>3, <1>6 DEF RequestInv, ServerSaid
  <2> QED
    BY <1>1, <1>2, <1>6, <2>1 DEF Message
<1> QED
  BY <1>4, <1>5, <1>6

\* The client hears the answer.
LEMMA ResponseKeeps == RequestInv /\ CResponse => RequestInv'
<1> SUFFICES ASSUME RequestInv, CResponse PROVE RequestInv'
  OBVIOUS
<1>0. /\ cpc = "resp" /\ got = <<>> /\ down \in Stream /\ down.read = 0
      /\ Len(down.log) \in Nat \ {0} /\ up \in Stream
      /\ cpc \notin CEnd
  BY ResponseIs DEF RequestInv, RequestTypeOK, ClientAt, CResponse, CEnd
<1>1. /\ job' = job /\ conn' = conn /\ got' = got /\ node' = node
      /\ spc' = spc /\ walked' = walked /\ packets' = packets /\ did' = did
      /\ meddled' = meddled
  BY DEF CResponse, svars
<1>2. ASSUME NEW outcome \in {"ok", "refused"}, CReturn(outcome),
             \/ outcome = "refused" /\ did = "refused"
             \/ outcome = "ok" /\ did = "done" /\ ~Listing
      PROVE  RequestInv'
  <2>1. /\ up' = Finish(up) /\ down' = Stop(down) /\ cpc' = outcome
    BY <1>2 DEF CReturn
  <2>2. /\ up' \in Stream /\ up'.log = up.log
        /\ down' \in Stream /\ down'.log = down.log /\ down'.read = down.read
        /\ down'.fin = down.fin /\ down'.stop = TRUE
    BY <1>0, <2>1, DroppingFacts
  <2>3. RequestTypeOK'
    BY <1>1, <2>1, <2>2 DEF RequestInv, RequestTypeOK, CEnd
  <2>4. ServerAt'
    BY <1>1, <2>2 DEF RequestInv, ServerAt, Listing, Divides, TooLong
  <2>5. ServerSaid'
    BY <1>1, <2>2 DEF RequestInv, ServerSaid, Listing
  <2>6. ClientAt'
    BY <1>0, <1>1, <1>2, <2>1, <2>2 DEF RequestInv, ClientAt, Listing, CEnd
  <2>7. Broken'
    BY <1>1, <1>2, <2>1 DEF RequestInv, Broken, Listing
  <2> QED
    BY <2>3, <2>4, <2>5, <2>6, <2>7 DEF RequestInv
<1>3. CASE NextItem(down).kind = "err"
  BY <1>2, <1>3, ResponseIs DEF CResponse
<1>4. CASE NextItem(down).kind # "err" /\ ~Listing
  BY <1>2, <1>4, ResponseIs DEF CResponse, Listing
<1>5. CASE NextItem(down).kind # "err" /\ Listing
  <2>1. cpc' = "parts" /\ down' = Consume(down) /\ up' = up
    BY <1>5 DEF CResponse, Listing
  <2>2. did = "done"
    BY <1>5, ResponseIs
  <2>3. /\ down' \in Stream /\ down'.log = down.log /\ down'.read = down.read + 1
        /\ down'.fin = down.fin /\ down'.stop = down.stop
    BY <1>0, <2>1, ConsumeFacts
  <2>4. RequestTypeOK'
    BY <1>1, <2>1, <2>3 DEF RequestInv, RequestTypeOK
  <2>5. ServerAt'
    BY <1>1, <2>1 DEF RequestInv, ServerAt, Listing, Divides, TooLong
  <2>6. ServerSaid'
    BY <1>1, <2>3 DEF RequestInv, ServerSaid, Listing
  <2>7. ClientAt'
    <3>1. Len(got') = 0 /\ down'.read = 1 /\ down'.read <= Len(down'.log)
      BY <1>0, <1>1, <2>3
    <3>2. 0 < Len(packets')
      <4>1. packets \in Seq(Packet) /\ packets # <<>>
        BY <1>5, <2>2 DEF RequestInv, ServerAt, Divides
      <4>2. Len(packets) \in Nat /\ Len(packets) # 0
        BY <4>1
      <4> QED
        BY <1>1, <4>2
    <3>3. \A i \in 1..Len(got') : FALSE
      BY <3>1
    <3>4. cpc' = "parts" /\ Listing' /\ did' = "done" /\ cpc' \notin CEnd /\ ~down'.stop
      BY <1>0, <1>1, <1>5, <2>1, <2>2, <2>3 DEF RequestInv, ClientAt, Listing, CEnd
    <3> QED
      BY <3>1, <3>2, <3>3, <3>4 DEF ClientAt
  <2>8. Broken'
    BY <1>1, <2>1 DEF RequestInv, Broken, Listing
  <2> QED
    BY <2>4, <2>5, <2>6, <2>7, <2>8 DEF RequestInv
<1> QED
  BY <1>3, <1>4, <1>5

\* Parts arrive in order; the last of them makes it all of the listing.
LEMMA PartIs ==
  ASSUME RequestInv, CPart
  PROVE  LET n == Len(got) + 1
         IN  /\ n \in 1..Len(packets) /\ Len(got) \in Nat /\ Len(packets) \in Nat
             /\ Listing /\ did = "done" /\ Divides(packets, walked)
             /\ down.read = n /\ n < Len(down.log)
             /\ packets[NextItem(down).val] = packets[n]
             /\ got' = Append(got, packets[n])
             /\ packets[n].more_to_come = (n < Len(packets))
             /\ ~(n < Len(packets)) => got' = packets /\ spc = "ok"
             /\ got' \in Seq(Packet) /\ Len(got') = n
             /\ \A i \in 1..n : got'[i] = packets[i]
<1> DEFINE n == Len(got) + 1
<1>1. /\ cpc = "parts" /\ Available(down) /\ down \in Stream
      /\ got \in Seq(Packet) /\ packets \in Seq(Packet)
  BY DEF RequestInv, RequestTypeOK, CPart
<1>2. /\ Listing /\ did = "done" /\ down.read = n /\ Len(got) < Len(packets)
      /\ \A i \in 1..Len(got) : got[i] = packets[i]
  BY <1>1 DEF RequestInv, ClientAt
<1>3. Divides(packets, walked)
  BY <1>2 DEF RequestInv, ServerAt
<1>4. Len(got) \in Nat /\ Len(packets) \in Nat /\ Len(down.log) \in Nat
  BY <1>1, StreamTyped
<1>5. n \in 1..Len(packets) /\ n < Len(down.log) /\ n \in Nat
  BY <1>1, <1>2, <1>4 DEF Available
<1>6. NextItem(down).val = n
  <2>1. NextItem(down) = down.log[n + 1] /\ n + 1 \in 1..Len(down.log) /\ n + 1 # 1
    BY <1>2, <1>4, <1>5 DEF NextItem
  <2>2. down.log[n + 1] = Message("data", (n + 1) - 1)
    BY <1>2, <2>1 DEF RequestInv, ServerSaid
  <2>3. (n + 1) - 1 = n
    BY <1>5
  <2> QED
    BY <2>1, <2>2, <2>3 DEF Message
<1>7. got' = Append(got, packets[n])
  BY <1>6 DEF CPart
<1>8. packets[n] \in Packet /\ packets[n].more_to_come = (n < Len(packets))
  BY <1>1, <1>3, <1>5 DEF Divides
<1> HIDE DEF n
<1>9. /\ got' \in Seq(Packet) /\ Len(got') = Len(got) + 1
      /\ got'[Len(got) + 1] = packets[n]
      /\ \A i \in 1..Len(got) : got'[i] = got[i]
  BY <1>1, <1>7, <1>8, AppendProperties
<1>10. ASSUME NEW i \in 1..n
       PROVE  got'[i] = packets[i]
  <2>1. CASE i = n
    BY <1>9, <2>1 DEF n
  <2>2. CASE i # n
    <3>1. i \in 1..Len(got)
      BY <1>4, <2>2 DEF n
    <3> QED
      BY <1>2, <1>9, <3>1
  <2> QED
    BY <2>1, <2>2
<1>11. ASSUME ~(n < Len(packets))
       PROVE  got' = packets /\ spc = "ok"
  <2>1. n = Len(packets) /\ Len(got') = Len(packets)
    BY <1>4, <1>5, <1>9, <1>11 DEF n
  <2>2. got' = packets
    BY <1>1, <1>9, <1>10, <2>1, SeqEqual
  <2>3. Len(down.log) > Len(packets) /\ down.log # <<>>
    <3>1. Len(down.log) > Len(packets) /\ Len(down.log) # 0
      BY <1>4, <1>5, <2>1
    <3> QED
      BY <3>1
  <2>4. spc \notin {"cmd", "stat", "walk", "create", "stamp", "err"}
    BY <1>2 DEF RequestInv, ServerAt
  <2>5. spc # "answer"
    BY <2>3 DEF RequestInv, ServerSaid
  <2>6. spc # "parts"
    <3>1. ~(Len(down.log) \in 1..Len(packets))
      BY <1>4, <2>3
    <3> QED
      BY <3>1 DEF RequestInv, ServerSaid
  <2>7. spc # "failed"
    <3>1. ~(Len(down.log) <= Len(packets))
      BY <1>4, <2>3
    <3> QED
      BY <1>2, <3>1 DEF RequestInv, ServerSaid
  <2>8. spc = "ok"
    BY <2>4, <2>5, <2>6, <2>7 DEF RequestInv, RequestTypeOK, SEnd
  <2> QED
    BY <2>2, <2>8
<1>12. Len(got') = n /\ got' \in Seq(Packet)
  BY <1>9 DEF n
<1> QED
  BY <1>2, <1>3, <1>4, <1>5, <1>6, <1>7, <1>8, <1>10, <1>11, <1>12 DEF n

\* The client takes a part.
LEMMA PartKeeps == RequestInv /\ CPart => RequestInv'
<1> SUFFICES ASSUME RequestInv, CPart PROVE RequestInv'
  OBVIOUS
<1> DEFINE n == Len(got) + 1
<1>0. /\ n \in 1..Len(packets) /\ Len(got) \in Nat /\ Len(packets) \in Nat
      /\ Listing /\ did = "done"
      /\ down.read = n /\ n < Len(down.log)
      /\ packets[NextItem(down).val] = packets[n]
      /\ packets[n].more_to_come = (n < Len(packets))
      /\ ~(n < Len(packets)) => got' = packets /\ spc = "ok"
      /\ got' \in Seq(Packet) /\ Len(got') = n
      /\ \A i \in 1..n : got'[i] = packets[i]
  BY PartIs
<1>1. /\ job' = job /\ conn' = conn /\ node' = node /\ spc' = spc /\ walked' = walked
      /\ packets' = packets /\ did' = did /\ meddled' = meddled
  BY DEF CPart, svars
<1>2. up \in Stream /\ down \in Stream /\ cpc = "parts" /\ cpc \notin CEnd /\ ~down.stop
      /\ Len(down.log) \in Nat
  BY StreamTyped DEF RequestInv, RequestTypeOK, ClientAt, CPart, CEnd
<1>3. IF n < Len(packets) THEN down' = Consume(down) /\ UNCHANGED <<cpc, up>>
      ELSE CReturn("ok")
  BY <1>0 DEF CPart
<1> HIDE DEF n
<1>4. CASE n < Len(packets)
  <2>1. down' = Consume(down) /\ cpc' = "parts" /\ up' = up
    BY <1>2, <1>3, <1>4
  <2>2. /\ down' \in Stream /\ down'.log = down.log /\ down'.read = n + 1
        /\ down'.fin = down.fin /\ down'.stop = down.stop
    BY <1>0, <1>2, <2>1, ConsumeFacts
  <2>3. RequestTypeOK'
    BY <1>0, <1>1, <2>1, <2>2 DEF RequestInv, RequestTypeOK
  <2>4. ServerAt'
    BY <1>1, <2>1 DEF RequestInv, ServerAt, Listing, Divides, TooLong
  <2>5. ServerSaid'
    BY <1>1, <2>2 DEF RequestInv, ServerSaid, Listing
  <2>6. ClientAt'
    <3>1. down'.read <= Len(down'.log)
      BY <1>0, <1>2, <2>2
    <3>2. down'.read = Len(got') + 1 /\ Len(got') < Len(packets)
          /\ \A i \in 1..Len(got') : got'[i] = packets[i]
      BY <1>0, <1>4, <2>2
    <3> QED
      BY <1>0, <1>1, <1>2, <2>1, <2>2, <3>1, <3>2 DEF ClientAt, Listing, CEnd
  <2>7. Broken'
    BY <1>1, <2>1 DEF RequestInv, Broken, Listing
  <2> QED
    BY <2>3, <2>4, <2>5, <2>6, <2>7 DEF RequestInv
<1>5. CASE ~(n < Len(packets))
  <2>1. up' = Finish(up) /\ down' = Stop(down) /\ cpc' = "ok"
    BY <1>3, <1>5 DEF CReturn
  <2>2. /\ up' \in Stream /\ up'.log = up.log
        /\ down' \in Stream /\ down'.log = down.log /\ down'.read = down.read
        /\ down'.fin = down.fin /\ down'.stop = TRUE
    BY <1>2, <2>1, DroppingFacts
  <2>3. RequestTypeOK'
    BY <1>0, <1>1, <2>1, <2>2 DEF RequestInv, RequestTypeOK, CEnd
  <2>4. ServerAt'
    BY <1>1, <2>2 DEF RequestInv, ServerAt, Listing, Divides, TooLong
  <2>5. ServerSaid'
    BY <1>1, <2>2 DEF RequestInv, ServerSaid, Listing
  <2>6. ClientAt'
    <3>1. down'.read <= Len(down'.log)
      BY <2>2 DEF RequestInv, ClientAt
    <3> QED
      BY <1>0, <1>1, <1>5, <2>1, <2>2, <3>1 DEF ClientAt, Listing, CEnd
  <2>7. Broken'
    BY <1>0, <1>1, <1>5, <2>1 DEF RequestInv, Broken, Listing
  <2> QED
    BY <2>3, <2>4, <2>5, <2>6, <2>7 DEF RequestInv
<1> QED
  BY <1>4, <1>5

\* No message comes.
LEMMA NoMessageKeeps == RequestInv /\ CNoMessage => RequestInv'
<1> SUFFICES ASSUME RequestInv, CNoMessage PROVE RequestInv'
  OBVIOUS
<1>0. cpc \in {"resp", "parts"} /\ cpc \notin CEnd /\ down \in Stream
  BY DEF RequestInv, RequestTypeOK, CNoMessage, CEnd
<1>1. conn = "lost" \/ AtEof(down)
  BY DEF CNoMessage
<1>2. AtEof(down) => spc \in SEnd
  BY DEF AtEof, RequestInv, ServerSaid
<1>3. ASSUME did = "done", Listing, AtEof(down)
      PROVE  conn = "lost"
  <2>1. down.read \in Nat /\ Len(down.log) \in Nat /\ ~(down.read < Len(down.log))
    BY <1>0, <1>3, StreamTyped DEF AtEof, Available
  <2>2. CASE spc = "failed"
    BY <1>3, <2>2 DEF RequestInv, Broken
  <2>3. CASE spc = "ok"
    <3>1. Len(down.log) = Len(packets) + 1 /\ packets \in Seq(Packet)
      BY <1>3, <2>3 DEF RequestInv, RequestTypeOK, ServerSaid
    <3>2. Len(packets) \in Nat
      BY <3>1
    <3>3. CASE cpc = "resp"
      <4>1. down.read = 0
        BY <3>3 DEF RequestInv, ClientAt
      <4> QED
        BY <2>1, <3>1, <3>2, <4>1
    <3>4. CASE cpc = "parts"
      <4>1. down.read = Len(got) + 1 /\ Len(got) < Len(packets) /\ got \in Seq(Packet)
        BY <3>4 DEF RequestInv, RequestTypeOK, ClientAt
      <4>2. Len(got) \in Nat
        BY <4>1
      <4> QED
        BY <2>1, <3>1, <3>2, <4>1, <4>2
    <3> QED
      BY <1>0, <3>3, <3>4
  <2> QED
    BY <1>2, <1>3, <2>2, <2>3 DEF SEnd
<1> QED
  BY <1>0, <1>1, <1>2, <1>3, ClientGivesUp DEF CNoMessage

\* The world around them.
LEMMA WorldKeeps ==
  RequestInv /\ (ConnectionLost \/ OthersMeddle \/ UNCHANGED RequestVars) => RequestInv'
<1> SUFFICES ASSUME RequestInv, ConnectionLost \/ OthersMeddle \/ UNCHANGED RequestVars
             PROVE  RequestInv'
  OBVIOUS
<1>1. /\ job' = job /\ up' = up /\ down' = down /\ cpc' = cpc /\ got' = got /\ spc' = spc
      /\ walked' = walked /\ packets' = packets /\ did' = did
  BY DEF ConnectionLost, OthersMeddle, RequestVars, cvars, svars
<1>2. conn' \in {"up", "lost"} /\ (conn = "lost" => conn' = "lost")
      /\ node' \in Nodes /\ meddled' \in BOOLEAN
  BY DEF RequestInv, RequestTypeOK, ConnectionLost, OthersMeddle, RequestVars, Nodes
<1>3. RequestTypeOK'
  BY <1>1, <1>2 DEF RequestInv, RequestTypeOK
<1>4. ServerAt'
  BY <1>1 DEF RequestInv, ServerAt, Listing, Divides, TooLong
<1>5. ServerSaid'
  BY <1>1 DEF RequestInv, ServerSaid, Listing
<1>6. ClientAt'
  BY <1>1 DEF RequestInv, ClientAt, Listing
<1>7. Broken'
  BY <1>1, <1>2 DEF RequestInv, Broken, Listing
<1> QED
  BY <1>3, <1>4, <1>5, <1>6, <1>7 DEF RequestInv

\* RequestInv is kept.
LEMMA RequestStepInv == RequestInv /\ [RequestNext]_RequestVars => RequestInv'
BY StatKeeps, WalkKeeps, ActKeeps, CommandKeeps, WriteFailsKeeps, AnswerKeeps,
   SendPartKeeps, AskKeeps, ResponseKeeps, PartKeeps, NoMessageKeeps, WorldKeeps
   DEF RequestNext, ClientNext, ServerNext, Ended

\* RequestInv holds in every state.
THEOREM RequestInvariance == RequestSpec => []RequestInv
<1>1. RequestInit => RequestInv
  BY RequestInitInv
<1>2. RequestInv /\ [RequestNext]_RequestVars => RequestInv'
  BY RequestStepInv
<1> QED
  BY <1>1, <1>2, PTL DEF RequestSpec

\* The variables of a request keep their types (session/ls.rs, session/mkdir.rs,
\* session/set_meta.rs).
THEOREM RequestTypeCorrect == RequestSpec => []RequestTypeOK
<1>1. RequestInv => RequestTypeOK
  BY DEF RequestInv
<1> QED
  BY <1>1, RequestInvariance, PTL

\* A listing reaches the client however long it is, unless the connection is lost:
\* split_by_size (protocol/session/response.rs) makes no part that to_writer_async_framed
\* (protocol/common.rs) would refuse, and none that is empty.
THEOREM NeverTooLong == RequestSpec => []NoListingTooLong
<1>1. RequestInv => NoListingTooLong
  BY DEF RequestInv, Broken, ServerAt, Divides, Listing, NoListingTooLong
<1> QED
  BY <1>1, RequestInvariance, PTL

-----------------------------------------------------------------------------
(* Requests: each is a RemoteCall.                                         *)

Told == IF cpc \in CEnd THEN cpc ELSE "running"
Result == IF did = "done" THEN walked ELSE <<0>>
Heard == IF cpc = "ok" THEN join(got) ELSE <<0>>

\* A call begins as one.
LEMMA CallInit == RequestInit => Call!Init
<1> SUFFICES ASSUME RequestInit PROVE Call!Init
  OBVIOUS
<1>1. Told = "running" /\ did = "none" /\ Result = <<0>> /\ Heard = <<0>>
  BY DEF RequestInit, Told, Result, Heard, CEnd
<1> QED
  BY <1>1 DEF Call!Init, Told, Result, Heard

\* A step that changes nothing of what a call shows.
LEMMA CallStutters ==
  ASSUME Told' = Told, did' = did, Result' = Result, Heard' = Heard
  PROVE  UNCHANGED Call!vars
BY DEF Call!vars, Told, Result, Heard

\* The client gives up in the abstract too.
LEMMA GivesUpSeen ==
  ASSUME RequestInv, cpc \notin CEnd, cpc' = "failed", did' = did, walked' = walked
  PROVE  Call!GiveUp
<1>1. /\ Told = "running" /\ Told' = "failed" /\ did' = did
      /\ Result' = Result /\ Heard' = Heard
  BY DEF Told, Result, Heard, CEnd
<1> QED
  BY <1>1 DEF Call!GiveUp, Told, Result, Heard

\* The client succeeds in the abstract too.
LEMMA SuccessSeen ==
  ASSUME cpc \notin CEnd, cpc' = "ok", did = "done", did' = did, walked' = walked,
         join(got') = walked
  PROVE  Call!Succeed
<1>1. join(got)' = walked
  BY DEF join
<1>2. /\ Told = "running" /\ Told' = "ok" /\ did' = did
      /\ Result' = Result /\ Heard' = Result
  BY <1>1 DEF Told, Result, Heard, CEnd
<1> QED
  BY <1>2 DEF Call!Succeed, Told, Result, Heard

\* What a client does, a call does or does not show.
LEMMA ClientCalls == RequestInv /\ ClientNext => Call!Return \/ UNCHANGED Call!vars
<1> SUFFICES ASSUME RequestInv, ClientNext
             PROVE  Call!Return \/ UNCHANGED Call!vars
  OBVIOUS
<1>1. did' = did /\ walked' = walked /\ cpc \notin CEnd
  BY DEF ClientNext, CCheck, CNoLocalDirectory, CSendCmd, CWriteFails, CResponse, CPart,
     CNoMessage, svars, CEnd
<1>2. CASE cpc' = "failed"
  BY <1>1, <1>2, GivesUpSeen DEF Call!Return
<1>3. CASE cpc' \notin CEnd
  <2>1. Told' = Told /\ Result' = Result /\ Heard' = Heard
    BY <1>1, <1>3 DEF Told, Result, Heard, CEnd
  <2> QED
    BY <1>1, <2>1, CallStutters
<1>4. CASE CResponse /\ cpc' = "refused"
  <2>1. did = "refused"
    BY <1>4, ResponseIs DEF CResponse, CReturn
  <2>2. Told = "running" /\ Told' = "refused" /\ Result' = Result /\ Heard' = Heard
    BY <1>1, <1>4 DEF Told, Result, Heard, CEnd
  <2>3. Call!BeRefused
    BY <1>1, <2>1, <2>2 DEF Call!BeRefused, Told, Result, Heard
  <2> QED
    BY <2>3 DEF Call!Return
<1>5. CASE CResponse /\ cpc' = "ok"
  <2>1. did = "done" /\ ~Listing /\ got' = got
    BY <1>5, ResponseIs DEF CResponse, CReturn, Listing
  <2>2. got = <<>> /\ walked = <<>>
    BY <2>1 DEF RequestInv, ClientAt, ServerAt
  <2>3. join(got') = walked
    BY <2>1, <2>2, JoinFacts
  <2>4. Call!Succeed
    BY <1>1, <1>5, <2>1, <2>3, SuccessSeen
  <2> QED
    BY <2>4 DEF Call!Return
<1>6. CASE CPart /\ cpc' = "ok"
  <2>1. did = "done" /\ Divides(packets, walked) /\ got' = packets
    <3>1. /\ did = "done" /\ Divides(packets, walked)
          /\ packets[NextItem(down).val] = packets[Len(got) + 1]
          /\ packets[Len(got) + 1].more_to_come = (Len(got) + 1 < Len(packets))
          /\ ~(Len(got) + 1 < Len(packets)) => got' = packets
      BY <1>6, PartIs
    <3>2. ~packets[NextItem(down).val].more_to_come
      BY <1>1, <1>6 DEF CPart, CEnd
    <3> QED
      BY <3>1, <3>2
  <2>2. join(got') = walked
    BY <2>1 DEF Divides
  <2>3. Call!Succeed
    BY <1>1, <1>6, <2>1, <2>2, SuccessSeen
  <2> QED
    BY <2>3 DEF Call!Return
<1>7. CASE cpc' = "refused" /\ ~CResponse
  <2>1. cpc' # "refused"
    BY <1>1, <1>7 DEF ClientNext, CCheck, CNoLocalDirectory, CSendCmd, CWriteFails, CPart,
       CNoMessage, CReturn, CEnd
  <2> QED
    BY <1>7, <2>1
<1>8. CASE cpc' = "ok" /\ ~CResponse /\ ~CPart
  <2>1. cpc' # "ok"
    BY <1>1, <1>8 DEF ClientNext, CCheck, CNoLocalDirectory, CSendCmd, CWriteFails,
       CNoMessage, CReturn, CEnd
  <2> QED
    BY <1>8, <2>1
<1> QED
  BY <1>2, <1>3, <1>4, <1>5, <1>6, <1>7, <1>8 DEF CEnd

\* The server acts once, or a call shows nothing of what it does.
LEMMA ServerActs ==
  RequestInv /\ RequestInv' /\ UNCHANGED cvars
    /\ \/ did' = did /\ (did = "done" => walked' = walked)
       \/ did = "none" /\ did' \in {"done", "refused"}
    => Call!Act \/ UNCHANGED Call!vars
<1> SUFFICES ASSUME RequestInv, RequestInv', UNCHANGED cvars,
                    \/ did' = did /\ (did = "done" => walked' = walked)
                    \/ did = "none" /\ did' \in {"done", "refused"}
             PROVE  Call!Act \/ UNCHANGED Call!vars
  OBVIOUS
<1>1. Told' = Told /\ Heard' = Heard
  <2>1. cpc' = cpc /\ got' = got
    BY DEF cvars
  <2> QED
    BY <2>1 DEF Told, Heard, join
<1>2. CASE did' = did /\ (did = "done" => walked' = walked)
  <2>1. Result' = Result
    BY <1>2 DEF Result
  <2> QED
    BY <1>1, <1>2, <2>1, CallStutters
<1>3. CASE did = "none" /\ did' = "done"
  <2>1. Result' = walked' /\ walked' \in Seq(EntrySizes)
    BY <1>3 DEF Result, RequestInv, RequestTypeOK
  <2>2. Call!Act
    BY <1>1, <1>3, <2>1 DEF Call!Act, Told, Result, Heard
  <2> QED
    BY <2>2
<1>4. CASE did = "none" /\ did' = "refused"
  <2>1. Result' = <<0>>
    BY <1>4 DEF Result
  <2>2. Call!Act
    BY <1>1, <1>4, <2>1 DEF Call!Act, Told, Result, Heard
  <2> QED
    BY <2>2
<1> QED
  BY <1>2, <1>3, <1>4

\* Every step is one of a call, or none.
LEMMA CallStep ==
  RequestInv /\ [RequestNext]_RequestVars => [Call!Act \/ Call!Return]_(Call!vars)
<1> SUFFICES ASSUME RequestInv, [RequestNext]_RequestVars
             PROVE  Call!Act \/ Call!Return \/ UNCHANGED Call!vars
  OBVIOUS
<1>0. RequestInv'
  BY RequestStepInv
<1>1. CASE ClientNext
  BY <1>1, ClientCalls
<1>2. CASE ServerNext
  <2>1. UNCHANGED cvars
    BY <1>2 DEF ServerNext, SCommand, SNoCommand, SStatList, SStatMkdir, SStatSetMeta, SWalk,
       SWalkFails, SWalkEnds, SCreate, SStamp, SAnswer, SSendPart, SWriteFails, StatPaths,
       ActPaths
  <2>2. CASE SCommand \/ SNoCommand \/ SAnswer \/ SSendPart \/ SWriteFails
    <3>1. did' = did /\ walked' = walked
      BY <2>2 DEF SCommand, SNoCommand, SAnswer, SSendPart, SWriteFails
    <3> QED
      BY <1>0, <2>1, <3>1, ServerActs
  <2>3. CASE SStatList \/ SStatMkdir \/ SStatSetMeta \/ SWalk \/ SWalkFails \/ SWalkEnds
             \/ SCreate \/ SStamp
    <3>1. did = "none"
      BY <2>3 DEF RequestInv, ServerAt, SStatList, SStatMkdir, SStatSetMeta, SWalk,
         SWalkFails, SWalkEnds, SCreate, SStamp
    <3>2. did' \in {"none", "done", "refused"}
      BY <1>0 DEF RequestInv, RequestTypeOK
    <3> QED
      BY <1>0, <2>1, <3>1, <3>2, ServerActs
  <2> QED
    BY <1>2, <2>2, <2>3 DEF ServerNext
<1>3. CASE ConnectionLost \/ OthersMeddle \/ Ended \/ UNCHANGED RequestVars
  <2>1. UNCHANGED cvars /\ did' = did /\ walked' = walked
    BY <1>3 DEF ConnectionLost, OthersMeddle, Ended, RequestVars, svars
  <2> QED
    BY <1>0, <2>1, ServerActs
<1> QED
  BY <1>1, <1>2, <1>3 DEF RequestNext

\* List, CreateDirectory and SetMetadata each do what RemoteCall says, its fairness
\* apart: the server acts at most once, a client that is told ok has what the server
\* found or has done, all of a long listing included, and one that is refused knows
\* that nothing was done.
THEOREM RequestsAreRemoteCalls ==
  RequestSpec => Call!Init /\ [][Call!Act \/ Call!Return]_(Call!vars)
<1>1. RequestInit => Call!Init
  BY CallInit
<1>2. RequestInv /\ [RequestNext]_RequestVars => [Call!Act \/ Call!Return]_(Call!vars)
  BY CallStep
<1> QED
  BY <1>1, <1>2, RequestInvariance, PTL DEF RequestSpec

USE LaunchAssumption

-----------------------------------------------------------------------------
(* Launch: the paths.                                                      *)

\* What a word of the command line names.
LEMMA FileSpecFacts ==
  ASSUME NEW w \in Words
  PROVE  /\ FileSpec(w).host \in Hosts \cup {None}
         /\ FileSpec(w).user \in Users \cup {None}
         /\ Remote(w) <=> FileSpec(w).host \in Hosts
<1>1. (CHOOSE h \in Hosts : TRUE) \in Hosts
  OBVIOUS
<1>2. CASE w \in [form : {"plain", "open"}, user : {None}, host : {None}]
  <2>1. FileSpec(w) = [w EXCEPT !.user = None, !.host = None]
    BY <1>2 DEF FileSpec
  <2>2. FileSpec(w).host = None /\ FileSpec(w).user = None
    BY <1>2, <2>1
  <2> QED
    BY <2>2 DEF Remote
<1>3. CASE w \in [form : {"colon"}, user : Users \cup {None}, host : Hosts]
  BY <1>3 DEF FileSpec, Remote
<1>4. CASE w \in [form : {"bracket"}, user : {None},
                  host : {CHOOSE h \in Hosts : TRUE}]
  BY <1>1, <1>4 DEF FileSpec, Remote
<1> QED
  BY <1>2, <1>3, <1>4 DEF Words

\* The set of the words that stand at some position.
LEMMA WordsOfPaths ==
  ASSUME paths \in Seq(Words)
  PROVE  /\ Len(paths) \in Nat /\ DOMAIN paths = 1..Len(paths)
         /\ \A a \in DOMAIN paths : paths[a] \in Words
         /\ ToSet(paths) = {paths[a] : a \in DOMAIN paths}
         /\ Last(paths) = paths[Len(paths)]
         /\ Len(paths) >= 1 =>
              ToSet(Front(paths)) = {paths[a] : a \in 1..Len(paths) - 1}
<1>1. /\ Len(paths) \in Nat /\ DOMAIN paths = 1..Len(paths)
      /\ \A a \in DOMAIN paths : paths[a] \in Words
  OBVIOUS
<1>2. ToSet(paths) = {paths[a] : a \in DOMAIN paths} /\ Last(paths) = paths[Len(paths)]
  BY DEF ToSet, Last
<1>3. ASSUME Len(paths) >= 1
      PROVE  ToSet(Front(paths)) = {paths[a] : a \in 1..Len(paths) - 1}
  <2>1. /\ DOMAIN Front(paths) = 1..Len(paths) - 1
        /\ \A a \in 1..Len(paths) - 1 : Front(paths)[a] = paths[a]
    BY <1>1, <1>3 DEF Front
  <2> QED
    BY <2>1 DEF ToSet
<1> QED
  BY <1>1, <1>2, <1>3

\* An image of the positions of a sequence is finite.
LEMMA NamedAreFinite ==
  ASSUME paths \in Seq(Words)
  PROVE  IsFiniteSet(HostsOf(paths)) /\ IsFiniteSet(UsersOf(paths))
<1> DEFINE R == {a \in DOMAIN paths : Remote(paths[a])}
           h == [a \in R |-> FileSpec(paths[a]).host]
           u == [a \in R |-> FileSpec(paths[a]).user]
           H == {FileSpec(paths[a]).host : a \in R}
           U == {FileSpec(paths[a]).user : a \in R}
<1>1. IsFiniteSet(R)
  <2>1. DOMAIN paths = 1..Len(paths) /\ Len(paths) \in Int /\ 1 \in Int
    BY WordsOfPaths
  <2>2. IsFiniteSet(1..Len(paths))
    BY <2>1, FS_Interval
  <2>3. R \in SUBSET (1..Len(paths))
    BY <2>1
  <2> HIDE DEF R
  <2> QED
    BY <2>2, <2>3, FS_Subset
<1>2. h \in Surjection(R, H) /\ u \in Surjection(R, U)
  BY DEF Surjection
<1>3. IsFiniteSet(H) /\ IsFiniteSet(U)
  <2> HIDE DEF R, h, u, H, U
  <2> QED
    BY <1>1, <1>2, FS_Surjection
<1>4. HostsOf(paths) = H
  BY WordsOfPaths DEF HostsOf
<1>5. UsersOf(paths) \in SUBSET U
  BY WordsOfPaths DEF UsersOf
<1> HIDE DEF R, h, u, H, U
<1> QED
  BY <1>3, <1>4, <1>5, FS_Subset

\* A set that does not have several elements has the one it has.
LEMMA AtMostOne ==
  ASSUME NEW S, IsFiniteSet(S), ~(Cardinality(S) > 1), NEW x \in S
  PROVE  S = {x} /\ Cardinality(S) = 1
<1>1. Cardinality(S) \in Nat
  BY FS_CardinalityType
<1>2. IsFiniteSet(S \ {x}) /\ Cardinality(S \ {x}) = Cardinality(S) - 1
  BY FS_RemoveElement
<1>3. Cardinality(S \ {x}) \in Nat
  BY <1>2, FS_CardinalityType
<1>4. Cardinality(S) = 1 /\ Cardinality(S \ {x}) = 0
  BY <1>1, <1>2, <1>3
<1>5. S \ {x} = {}
  BY <1>2, <1>4, FS_EmptySet
<1> QED
  BY <1>4, <1>5

\* The host that the configuration is read for is the host of every path.
LEMMA HostIsOne ==
  ASSUME paths \in Seq(Words), ~(Cardinality(HostsOf(paths)) > 1),
         NEW a \in DOMAIN paths, Remote(paths[a])
  PROVE  FileSpec(paths[a]).host = remote_host_lossy
<1>1. FileSpec(paths[a]).host \in HostsOf(paths)
  BY WordsOfPaths DEF HostsOf
<1>2. HostsOf(paths) = {FileSpec(paths[a]).host}
  BY <1>1, NamedAreFinite, AtMostOne
<1> QED
  BY <1>2 DEF remote_host_lossy

\* The user that the program goes by is the user of every path that names one.
LEMMA UserIsOne ==
  ASSUME paths \in Seq(Words), ~(Cardinality(UsersOf(paths)) > 1),
         NEW a \in DOMAIN paths, Remote(paths[a])
  PROVE  FileSpec(paths[a]).user \in {None, User}
<1> SUFFICES ASSUME FileSpec(paths[a]).user # None
             PROVE  FileSpec(paths[a]).user = User
  OBVIOUS
<1>1. FileSpec(paths[a]).user \in UsersOf(paths)
  BY WordsOfPaths DEF UsersOf
<1>2. UsersOf(paths) = {FileSpec(paths[a]).user} /\ Cardinality(UsersOf(paths)) = 1
  BY <1>1, NamedAreFinite, AtMostOne
<1>3. remote_user = FileSpec(paths[a]).user
  BY <1>2 DEF remote_user
<1> QED
  BY <1>3 DEF User

\* What the paths name is a host, or a user, or nothing.
LEMMA NamesAreNames ==
  ASSUME paths \in Seq(Words)
  PROVE  remote_host_lossy \in Hosts \cup {None} /\ remote_user \in Users \cup {None}
<1>1. HostsOf(paths) \subseteq Hosts
  BY WordsOfPaths, FileSpecFacts DEF HostsOf
<1>2. UsersOf(paths) \subseteq Users
  BY WordsOfPaths, FileSpecFacts DEF UsersOf
<1>3. remote_host_lossy \in Hosts \cup {None}
  BY <1>1 DEF remote_host_lossy
<1>4. CASE Cardinality(UsersOf(paths)) = 1
  <2>1. UsersOf(paths) # {}
    BY <1>4, FS_EmptySet
  <2> QED
    BY <1>2, <1>3, <1>4, <2>1 DEF remote_user
<1> QED
  BY <1>3, <1>4 DEF remote_user

\* The jobs are for a legal copy: to one host or from it.
LEMMA OneSideIsRemote ==
  ASSUME paths \in Seq(Words), ~JobspecsFail
  PROVE  /\ Len(paths) >= 2
         /\ ~(Cardinality(UsersOf(paths)) > 1) /\ ~(Cardinality(HostsOf(paths)) > 1)
         /\ \A a \in 1..Len(paths) - 1 : Remote(paths[a]) # Remote(Last(paths))
<1>1. Len(paths) >= 2 /\ Len(paths) \in Nat
  BY WordsOfPaths DEF JobspecsFail
<1>2. ToSet(Front(paths)) = {paths[a] : a \in 1..Len(paths) - 1}
  BY <1>1, WordsOfPaths
<1>3. \A a \in 1..Len(paths) - 1 : Remote(paths[a]) # Remote(Last(paths))
  BY <1>2 DEF JobspecsFail, Remote
<1> QED
  BY <1>1, <1>3 DEF JobspecsFail

\* A bound on the number of words does not change what they are.
LEMMA SomeAreSequences ==
  ASSUME NEW S, NEW n \in Nat
  PROVE  BoundedSeq(S, n) \subseteq Seq(S)
BY DEF BoundedSeq, SeqOf

-----------------------------------------------------------------------------
(* Launch: the address.                                                    *)

\* An answer is taken if it is of the family that was asked for.
LEMMA LookupFacts ==
  ASSUME NEW answers \in BoundedSeq(Families, 2)
  PROVE  lookup_host_by_family(answers) # None =>
           /\ lookup_host_by_family(answers) \in Families
           /\ config.family \in {None, "any", lookup_host_by_family(answers)}
<1> DEFINE Good(a) == config.family \in {None, "any", answers[a]}
           I == {a \in 1..Len(answers) : Good(a)}
           least == CHOOSE a \in I : \A b \in I : a <= b
<1>1. answers \in Seq(Families)
  BY SomeAreSequences
<1>2. Len(answers) \in 0..2
  BY DEF BoundedSeq, SeqOf
<1>6. \A a \in 1..Len(answers) : a \in {1, 2}
  <2>1. \A n \in 0..2 : \A a \in 1..n : a = 1 \/ a = 2
    OBVIOUS
  <2> QED
    BY <1>2, <2>1
<1>7. \A a \in I : a \in 1..Len(answers) /\ a \in {1, 2} /\ a # 0
  BY <1>6
<1>3. I # {} => least \in I
  <2>1. ASSUME NEW x \in I
        PROVE  \E a \in I : \A b \in I : a <= b
    <3>1. I \subseteq {1, 2}
      BY <1>7
    <3> HIDE DEF I
    <3>2. CASE 1 \in I
      BY <3>1, <3>2
    <3>3. CASE 1 \notin I
      BY <2>1, <3>1, <3>3
    <3> QED
      BY <3>2, <3>3
  <2> HIDE DEF I
  <2> QED
    BY <2>1
<1>4. lookup_host_by_family(answers) = IF I = {} THEN None ELSE answers[least]
  <2> DEFINE i == IF I # {} THEN least ELSE 0
  <2>1. lookup_host_by_family(answers) = IF i = 0 THEN None ELSE answers[i]
    BY DEF lookup_host_by_family, SelectInSeq, Min
  <2>2. I # {} => least # 0
    BY <1>3, <1>7
  <2> HIDE DEF I, least
  <2> QED
    BY <2>1, <2>2
<1>5. I # {} => Good(least) /\ answers[least] \in Families
  BY <1>1, <1>2, <1>3
<1> HIDE DEF I, least
<1> QED
  BY <1>4, <1>5

-----------------------------------------------------------------------------
(* Launch: the initial states and the frames.                              *)

\* Nothing is read and nothing started.
LEMMA Initially == Init => Inv
<1> SUFFICES ASSUME Init PROVE Inv
  OBVIOUS
<1>1. paths \in Seq(Words)
  BY SomeAreSequences DEF Init
<1>2. TypeOK
  BY DEF Init, TypeOK, Options, NoOptions
<1>3. InMode /\ Configured /\ Addressed /\ Started /\ Reported
  BY <1>1 DEF Init, InMode, Configured, Addressed, Started, Reported, OneRemote,
              ExitIsHonest, BeforeAddress, Connecting, ClientSteps, Informing
<1> QED
  BY <1>2, <1>3 DEF Inv

\* What depends on the command line alone.
LEMMA CommandLine ==
  ASSUME UNCHANGED <<flags, paths, opts>>
  PROVE  /\ Mode' = Mode /\ User' = User /\ Family' = Family
         /\ LossyFails' = LossyFails /\ remote_host_lossy' = remote_host_lossy
         /\ JobspecsFail' = JobspecsFail
<1>1. Mode' = Mode
  BY DEF Mode
<1>2. remote_user' = remote_user
  BY DEF remote_user
<1>3. User' = User /\ Family' = Family
  BY <1>2 DEF User, Family
<1>4. LossyFails' = LossyFails /\ remote_host_lossy' = remote_host_lossy
  BY DEF LossyFails, remote_host_lossy
<1>5. JobspecsFail' = JobspecsFail
  BY DEF JobspecsFail
<1> QED
  BY <1>1, <1>3, <1>4, <1>5

\* The child may end or be ended; what it was told stays.
SameChild == /\ ssh'.is = "none" <=> ssh.is = "none"
             /\ ssh.is # "none" => /\ ssh'.host = ssh.host /\ ssh'.user = ssh.user
                                   /\ ssh'.family = ssh.family
             /\ ssh' \in [is : {"none"}]
                  \cup [is : {"running", "exited", "killed"}, host : Hosts,
                        user : Users \cup {None}, family : Families]

\* Whatever becomes of ssh, it is the same child; a dropped one is not running.
LEMMA ChildKept ==
  ASSUME TypeOK,
         \/ ssh' = ssh
         \/ ssh' = DropSsh
         \/ ssh.is = "running" /\ ssh' = [ssh EXCEPT !.is = "exited"]
  PROVE  SameChild /\ (ssh' = DropSsh => ssh'.is # "running")
<1>1. CASE ssh.is = "running"
  <2>1. ssh \in [is : {"running", "exited", "killed"}, host : Hosts,
                 user : Users \cup {None}, family : Families]
    BY <1>1 DEF TypeOK
  <2>2. CASE ssh' = ssh
    BY <2>1, <2>2, <1>1 DEF SameChild, DropSsh
  <2>3. CASE ssh' = [ssh EXCEPT !.is = "killed"]
    BY <2>1, <2>3, <1>1 DEF SameChild, DropSsh
  <2>4. CASE ssh' = [ssh EXCEPT !.is = "exited"]
    BY <2>1, <2>4, <1>1 DEF SameChild, DropSsh
  <2> QED
    BY <1>1, <2>2, <2>3, <2>4 DEF DropSsh
<1>2. CASE ssh.is # "running"
  <2>1. ssh' = ssh
    BY <1>2 DEF DropSsh
  <2> QED
    BY <1>2, <2>1 DEF SameChild, TypeOK
<1> QED
  BY <1>1, <1>2

\* Once ssh runs, what it was started for does not change.
LEMMA StartedKept ==
  ASSUME Inv, SameChild, UNCHANGED <<paths, config, address>>,
         endpoint' \in {endpoint, address},
         pc' \notin BeforeAddress \cup {"spawn"}
  PROVE  Started'
<1>1. OneRemote'
  BY DEF Inv, Started, OneRemote, SameChild, Remote
<1>2. /\ (ssh.is # "none" => ssh.family = address)'
      /\ (endpoint # None => endpoint = address)'
  BY DEF Inv, Started, SameChild
<1> QED
  BY <1>1, <1>2 DEF Started

-----------------------------------------------------------------------------
(* Launch: the ways out.                                                   *)

\* Every way out drops the child.
LEMMA EndKeeps ==
  ASSUME Inv, pc' = "end", ssh' = DropSsh, status' \in {"success", "failure"},
         UNCHANGED <<flags, paths, opts, config, address, endpoint, logging>>,
         done' \subseteq {"served", "listed", "copied", "reported"},
         said' \in BOOLEAN, ExitIsHonest'
  PROVE  Inv'
<1>1. SameChild
  BY ChildKept DEF Inv
<1>2. TypeOK'
  BY <1>1 DEF Inv, TypeOK, SameChild
<1>3. InMode'
  BY DEF Inv, InMode, ClientSteps, BeforeAddress, Connecting, Informing
<1>4. Configured'
  BY DEF Configured
<1>5. Addressed'
  BY CommandLine DEF Inv, Addressed, BeforeAddress, Connecting, Informing
<1>6. Started'
  BY <1>1, StartedKept DEF BeforeAddress, Informing
<1>7. Reported'
  BY DEF Reported, Connecting
<1> QED
  BY <1>2, <1>3, <1>4, <1>5, <1>6, <1>7 DEF Inv

\* A failure ends the program with an explanation.
LEMMA FailKeeps == Inv /\ Fail => Inv'
<1> SUFFICES ASSUME Inv, Fail PROVE Inv'
  OBVIOUS
<1>1. said' \in BOOLEAN /\ ((logging'.flag => logging'.up) => said')
  BY DEF Fail, Error
<1>2. ExitIsHonest'
  BY <1>1, ChildKept DEF Inv, Fail, Error, Exit, ExitIsHonest
<1> QED
  BY <1>1, <1>2, EndKeeps DEF Fail, Error, Exit, Inv, TypeOK

\* So does a panic.
LEMMA PanicKeeps == Inv /\ Panic => Inv'
<1> SUFFICES ASSUME Inv, Panic PROVE Inv'
  OBVIOUS
<1>1. ExitIsHonest'
  BY ChildKept DEF Inv, Panic, Exit, ExitIsHonest
<1> QED
  BY <1>1, EndKeeps DEF Panic, Exit, Inv, TypeOK

\* Nothing was asked for but information.
LEMMA SuccessKeeps ==
  ASSUME Inv, Success, Mode \notin {"client", "server"} \/ "help" \in flags,
         Mode # "server"
  PROVE  Inv'
<1>1. ExitIsHonest'
  BY ChildKept, CommandLine DEF Inv, Success, Exit, ExitIsHonest
<1> QED
  BY <1>1, EndKeeps DEF Success, Exit, Inv, TypeOK

-----------------------------------------------------------------------------
(* Launch: one step at a time: the options and the configuration.          *)

\* The first look at the command line.
LEMMA ParseKeeps == Inv /\ Parse => Inv'
<1> SUFFICES ASSUME Inv, Parse PROVE Inv'
  OBVIOUS
<1>1. opts' \in Options
  BY DEF Parse, Options, NoOptions
<1>2. TypeOK'
  BY <1>1 DEF Inv, TypeOK, Parse, Go
<1>3. InMode' /\ Configured' /\ Addressed'
  BY DEF Inv, InMode, Configured, Addressed, Parse, Go, Mode, BeforeAddress, Connecting,
         ClientSteps, Informing
<1>4. Started' /\ Reported'
  BY DEF Inv, TypeOK, Started, Reported, Parse, Go, BeforeAddress, Connecting,
         Informing, OneRemote, ExitIsHonest
<1> QED
  BY <1>2, <1>3, <1>4 DEF Inv

\* The Manager is made for what the paths say.
LEMMA MakeManagerKeeps == Inv /\ MakeManager => Inv'
<1> SUFFICES ASSUME Inv, MakeManager PROVE Inv'
  OBVIOUS
<1>1. UNCHANGED <<flags, paths, opts>>
  BY DEF MakeManager
<1>2. User \in Users \cup {None}
  BY NamesAreNames DEF Inv, InMode, TypeOK, Options, User
<1>3. Family \in Families \cup {"any", None}
  BY DEF Inv, TypeOK, Options, Family, Families
<1>4. TypeOK'
  BY <1>2, <1>3, NamesAreNames DEF Inv, InMode, TypeOK, MakeManager, Go
<1>5. InMode'
  BY <1>1, CommandLine DEF Inv, InMode, MakeManager, Go, BeforeAddress, Connecting,
                           ClientSteps, Informing
<1>6. Configured'
  BY <1>1, CommandLine DEF Configured, MakeManager, Go
<1>7. Addressed' /\ Started' /\ Reported'
  BY <1>1 DEF Inv, TypeOK, Addressed, Started, Reported, MakeManager, Go, BeforeAddress,
         Connecting, Informing, OneRemote, ExitIsHonest
<1> QED
  BY <1>4, <1>5, <1>6, <1>7 DEF Inv

\* A step before the address is known that goes where the mode says.
LEMMA EarlyKeeps ==
  ASSUME Inv, pc \in BeforeAddress \ {"parse", "manager"},
         pc' \in BeforeAddress \ {"parse", "manager"},
         UNCHANGED <<flags, paths, opts, config, address, ssh, endpoint, done, said,
                     status>>,
         logging' \in [flag : BOOLEAN, up : BOOLEAN],
         pc' \in Informing \cup {"server"} => Mode = pc',
         pc' \in ClientSteps => Mode = "client"
  PROVE  Inv'
<1>1. TypeOK'
  BY DEF Inv, TypeOK, BeforeAddress, Informing
<1>2. InMode' /\ Configured' /\ Addressed'
  BY CommandLine DEF Inv, InMode, Configured, Addressed, BeforeAddress, Connecting,
                     ClientSteps, Informing
<1>3. Started' /\ Reported'
  BY DEF Inv, TypeOK, Started, Reported, BeforeAddress, Connecting, Informing, OneRemote,
         ExitIsHonest
<1> QED
  BY <1>1, <1>2, <1>3 DEF Inv

\* Setting up changes nothing of what is to be done.
LEMMA SetupKeeps ==
  Inv /\ (SetupColours \/ Validate \/ SetupTracing \/ TracingFails) => Inv'
<1> SUFFICES ASSUME Inv, SetupColours \/ Validate \/ SetupTracing \/ TracingFails
             PROVE  Inv'
  OBVIOUS
<1>1. Mode \in {"server", "client"} \cup Informing
  BY DEF Mode, Informing
<1>2. logging \in [flag : BOOLEAN, up : BOOLEAN]
  BY DEF Inv, TypeOK
<1>3. CASE SetupColours
  BY <1>1, <1>2, <1>3, EarlyKeeps DEF SetupColours, Go, BeforeAddress, ClientSteps,
                                      Connecting, Informing
<1>4. CASE Validate
  BY <1>2, <1>4, EarlyKeeps DEF Validate, Go, BeforeAddress, ClientSteps, Connecting,
                                Informing, Inv, InMode
<1>5. CASE SetupTracing \/ TracingFails
  <2>1. pc = "tracing" /\ Mode = "client"
    BY <1>5 DEF SetupTracing, TracingFails, Inv, InMode, ClientSteps
  <2>2. logging' \in [flag : BOOLEAN, up : BOOLEAN]
    <3>1. \E u \in BOOLEAN : logging' = [flag |-> TRUE, up |-> u]
      BY <1>5 DEF SetupTracing, TracingFails
    <3> QED
      BY <3>1
  <2>4. pc' \in {"prep", "raise"}
    BY <1>5 DEF SetupTracing, TracingFails, Go
  <2>3. UNCHANGED <<flags, paths, opts, config, address, ssh, endpoint, done, said, status>>
    BY <1>5 DEF SetupTracing, TracingFails, Go
  <2> QED
    BY <2>1, <2>2, <2>3, <2>4, EarlyKeeps DEF BeforeAddress, ClientSteps, Informing
<1> QED
  BY <1>3, <1>4, <1>5

\* What is asked for besides a copy.
LEMMA OthersKeep == Inv /\ (Help \/ Inform \/ RunServer) => Inv'
<1> SUFFICES ASSUME Inv, Help \/ Inform \/ RunServer PROVE Inv'
  OBVIOUS
<1>1. CASE Help
  BY <1>1, SuccessKeeps DEF Help, Inv, TypeOK, ModeFlags, Exclusive, Mode
<1>2. CASE Inform
  <2>1. Mode \in Informing
    BY <1>2 DEF Inform, Inv, InMode, Informing
  <2> QED
    BY <1>2, <2>1, SuccessKeeps DEF Inform, Informing
<1>3. CASE RunServer
  <2>1. Mode = "server"
    BY <1>3 DEF RunServer, Inv, InMode
  <2>2. UNCHANGED <<flags, paths, opts, config, address, endpoint, logging>>
    BY <1>3 DEF RunServer
  <2>3. /\ pc' = "end" /\ ssh' = DropSsh
        /\ \/ status' = "success" /\ done' = {"served"} /\ said' = said
           \/ status' = "failure" /\ done' = {} /\ said' = TRUE
    BY <1>3 DEF RunServer, Exit
  <2>4. ssh'.is # "running"
    BY <2>3, ChildKept DEF Inv
  <2>5. ExitIsHonest'
    BY <2>1, <2>2, <2>3, <2>4, CommandLine DEF ExitIsHonest
  <2>6. said' \in BOOLEAN /\ done' \subseteq {"served", "listed", "copied", "reported"}
    BY <2>3 DEF Inv, TypeOK
  <2> QED
    BY <2>2, <2>3, <2>5, <2>6, EndKeeps
<1> QED
  BY <1>1, <1>2, <1>3

-----------------------------------------------------------------------------
(* Launch: one step at a time: the client.                                 *)

\* The address is of the family that the configuration asks for.
LEMMA PrepKeeps == Inv /\ Prep => Inv'
<1> SUFFICES ASSUME Inv, Prep PROVE Inv'
  OBVIOUS
<1>1. PICK full \in BOOLEAN, answers \in BoundedSeq(Families, 2) :
        /\ lookup_host_by_family(answers) # None
        /\ address' = lookup_host_by_family(answers)
        /\ done' = IF full THEN {"listed"} ELSE {}
        /\ said' = (said \/ ~full)
  BY DEF Prep
<1>2. /\ pc = "prep" /\ pc' = "spawn" /\ ~JobspecsFail
      /\ UNCHANGED <<flags, paths, opts, config, ssh, endpoint, logging, status>>
  BY DEF Prep, Go
<1>3. /\ address' \in Families /\ address' # None
      /\ config.family \in {None, "any", address'}
  BY <1>1, LookupFacts
<1>4. /\ done' \subseteq {"listed"} /\ said' \in BOOLEAN
      /\ "listed" \in done' \/ said'
  BY <1>1
<1>5. TypeOK'
  BY <1>2, <1>3, <1>4 DEF Inv, TypeOK
<1>6. InMode' /\ Configured'
  BY <1>2, CommandLine DEF Inv, InMode, Configured, BeforeAddress, Connecting,
                           ClientSteps, Informing
<1>7. Addressed'
  BY <1>2, <1>3, CommandLine DEF Inv, Configured, Addressed, BeforeAddress, Connecting,
                                 Informing
<1>8. Started' /\ Reported'
  BY <1>2, <1>4 DEF Inv, TypeOK, Started, Reported, BeforeAddress, Connecting,
                    Informing, OneRemote, ExitIsHonest
<1> QED
  BY <1>5, <1>6, <1>7, <1>8 DEF Inv

\* All three looks at the paths have seen the same.
LEMMA SpawnKeeps == Inv /\ Spawn => Inv'
<1> SUFFICES ASSUME Inv, Spawn PROVE Inv'
  OBVIOUS
<1>1. PICK a \in DOMAIN paths :
        /\ Remote(paths[a])
        /\ ssh' = [is |-> "running", host |-> FileSpec(paths[a]).host,
                   user |-> config.user, family |-> address]
  BY DEF Spawn
<1>2. /\ pc = "spawn" /\ pc' = "negotiate"
      /\ UNCHANGED <<flags, paths, opts, config, address, endpoint, logging, done, said,
                     status>>
  BY DEF Spawn, Go
<1>3. /\ paths \in Seq(Words) /\ ~JobspecsFail
      /\ config.user = User /\ config.family = Family
  BY <1>2 DEF Inv, InMode, Configured, Addressed, Connecting
<1>4. /\ Len(paths) >= 2
      /\ ~(Cardinality(UsersOf(paths)) > 1) /\ ~(Cardinality(HostsOf(paths)) > 1)
      /\ \A b \in 1..Len(paths) - 1 : Remote(paths[b]) # Remote(Last(paths))
  BY <1>3, OneSideIsRemote
<1>5. config.host = remote_host_lossy
  <2>1. paths # <<>>
    BY <1>4
  <2> QED
    BY <1>2, <2>1 DEF Inv, Configured
<1>6. /\ address \in Families
      /\ config.user \in Users \cup {None} /\ FileSpec(paths[a]).host \in Hosts
  <2>1. FileSpec(paths[a]).host \in Hosts
    BY <1>1, <1>3, WordsOfPaths, FileSpecFacts
  <2> QED
    BY <1>2, <2>1 DEF Inv, TypeOK, Addressed, Connecting
<1>7. /\ ssh'.is = "running" /\ ssh'.host = FileSpec(paths[a]).host
      /\ ssh'.user = config.user /\ ssh'.family = address
  BY <1>1
<1>8. ssh' \in [is : {"running", "exited", "killed"}, host : Hosts,
                user : Users \cup {None}, family : Families]
  BY <1>1, <1>6
<1>9. TypeOK'
  BY <1>2, <1>8 DEF Inv, TypeOK
<1>10. InMode' /\ Configured' /\ Addressed'
  BY <1>2, CommandLine DEF Inv, InMode, Configured, Addressed, BeforeAddress, Connecting,
                           ClientSteps, Informing
<1>11. OneRemote'
  <2>1. ssh'.host = config.host
    BY <1>1, <1>3, <1>4, <1>5, <1>7, HostIsOne
  <2>2. ASSUME NEW b \in DOMAIN paths, Remote(paths[b])
        PROVE  FileSpec(paths[b]).host = ssh'.host
               /\ FileSpec(paths[b]).user \in {None, ssh'.user}
    BY <1>3, <1>4, <1>5, <1>7, <2>1, <2>2, HostIsOne, UserIsOne
  <2> QED
    BY <1>2, <1>4, <2>1, <2>2 DEF OneRemote, Remote
<1>12. Started'
  BY <1>2, <1>7, <1>11 DEF Inv, Started, BeforeAddress, Informing
<1>13. Reported'
  BY <1>2 DEF Inv, TypeOK, Reported, Connecting, ExitIsHonest
<1> QED
  BY <1>9, <1>10, <1>12, <1>13 DEF Inv

\* A step of the copy itself, or the child ends by itself.
LEMMA OnwardKeeps ==
  ASSUME Inv, pc \in Connecting, pc' \in Connecting \ {"spawn"},
         UNCHANGED <<flags, paths, opts, config, address, logging, status>>,
         SameChild, endpoint' \in {endpoint, address},
         done \subseteq done', done' \subseteq {"served", "listed", "copied", "reported"},
         said' \in BOOLEAN, said => said',
         pc' = "dry" => opts.dry,
         pc' \in {"report", "linger", "finish"} => "copied" \in done' \/ said',
         pc' \in {"linger", "finish"} => "reported" \in done'
  PROVE  Inv'
<1>1. TypeOK'
  BY DEF Inv, TypeOK, SameChild, Connecting
<1>2. InMode' /\ Configured' /\ Addressed'
  BY CommandLine DEF Inv, InMode, Configured, Addressed, BeforeAddress, Connecting,
                     ClientSteps, Informing
<1>3. Started'
  BY StartedKept DEF BeforeAddress, Connecting, Informing
<1>4. Reported'
  <2>1. ("listed" \in done \/ said) /\ status' = "running"
    BY DEF Inv, TypeOK, Reported, Connecting
  <2> QED
    BY <2>1 DEF Reported, ExitIsHonest
<1> QED
  BY <1>1, <1>2, <1>3, <1>4 DEF Inv

\* The client's steps once it is connected to the server.
LEMMA ClientKeeps ==
  Inv /\ (Negotiate \/ Connect \/ Transfer \/ ReadReport \/ Linger) => Inv'
<1> SUFFICES ASSUME Inv, Negotiate \/ Connect \/ Transfer \/ ReadReport \/ Linger
             PROVE  Inv'
  OBVIOUS
<1>1. SameChild
  BY ChildKept DEF Inv, Negotiate, Connect, Transfer, ReadReport, Linger
<1>2. /\ done \subseteq {"served", "listed", "copied", "reported"} /\ said \in BOOLEAN
      /\ pc \in {"report", "linger", "finish"} => "copied" \in done \/ said
      /\ pc \in {"linger", "finish"} => "reported" \in done
  BY DEF Inv, TypeOK, Reported
<1>3. CASE Negotiate
  BY <1>1, <1>2, <1>3, OnwardKeeps DEF Negotiate, Go, Connecting
<1>4. CASE Connect
  BY <1>1, <1>2, <1>4, OnwardKeeps DEF Connect, Go, Connecting
<1>5. CASE Transfer
  <2>1. PICK all \in BOOLEAN : /\ done' = IF all THEN done \cup {"copied"} ELSE done
                               /\ said' = (said \/ ~all)
    BY <1>5 DEF Transfer
  <2>2. /\ done \subseteq done'
        /\ done' \subseteq {"served", "listed", "copied", "reported"}
        /\ said' \in BOOLEAN /\ (said => said') /\ ("copied" \in done' \/ said')
    BY <1>2, <2>1
  <2> QED
    BY <1>1, <1>5, <2>2, OnwardKeeps DEF Transfer, Go, Connecting
<1>6. CASE ReadReport
  BY <1>1, <1>2, <1>6, OnwardKeeps DEF ReadReport, Go, Connecting
<1>7. CASE Linger
  BY <1>1, <1>2, <1>7, OnwardKeeps DEF Linger, Go, Connecting
<1> QED
  BY <1>3, <1>4, <1>5, <1>6, <1>7

\* What was not achieved was said before.
LEMMA DoneKeeps == Inv /\ (DryRun \/ FinishRun) => Inv'
<1> SUFFICES ASSUME Inv, DryRun \/ FinishRun PROVE Inv'
  OBVIOUS
<1>1. /\ pc' = "end" /\ ssh' = DropSsh
      /\ UNCHANGED <<flags, paths, opts, config, address, endpoint, logging, done, said>>
  BY DEF DryRun, FinishRun, Exit
<1>2. /\ Mode = "client" /\ ("listed" \in done \/ said)
      /\ done \subseteq {"served", "listed", "copied", "reported"} /\ said \in BOOLEAN
  BY DEF DryRun, FinishRun, Inv, InMode, Reported, ClientSteps, Connecting, TypeOK
<1>3. ssh'.is # "running"
  BY <1>1, ChildKept DEF Inv
<1>4. CASE DryRun
  <2>1. opts.dry /\ status' = IF "listed" \in done THEN "success" ELSE "failure"
    BY <1>4 DEF DryRun, Exit, Inv, InMode
  <2>2. ExitIsHonest'
    BY <1>1, <1>2, <1>3, <2>1, CommandLine DEF ExitIsHonest
  <2> QED
    BY <1>1, <1>2, <2>1, <2>2, EndKeeps
<1>5. CASE FinishRun
  <2>1. /\ status' = IF {"listed", "copied"} \subseteq done THEN "success" ELSE "failure"
        /\ "copied" \in done \/ said
        /\ "reported" \in done
    BY <1>5 DEF FinishRun, Exit, Inv, Reported
  <2>2. ExitIsHonest'
    BY <1>1, <1>2, <1>3, <2>1, CommandLine DEF ExitIsHonest
  <2> QED
    BY <1>1, <1>2, <2>1, <2>2, EndKeeps
<1> QED
  BY <1>4, <1>5

\* ssh may end at any time, and stays the child it was.
LEMMA SshEndsKeeps == Inv /\ SshEnds => Inv'
<1> SUFFICES ASSUME Inv, SshEnds PROVE Inv'
  OBVIOUS
<1>1. SameChild
  BY ChildKept DEF Inv, SshEnds
<1>2. pc \in Connecting \ {"spawn"}
  BY DEF SshEnds, Inv, TypeOK, InMode, Started, Reported, ExitIsHonest
<1>3. /\ done \subseteq {"served", "listed", "copied", "reported"} /\ said \in BOOLEAN
      /\ pc = "dry" => opts.dry
      /\ pc \in {"report", "linger", "finish"} => "copied" \in done \/ said
      /\ pc \in {"linger", "finish"} => "reported" \in done
  BY DEF Inv, InMode, TypeOK, Reported
<1>4. UNCHANGED <<flags, paths, opts, config, address, endpoint, logging, done, said, pc,
                  status>>
  BY DEF SshEnds
<1> QED
  BY <1>1, <1>2, <1>3, <1>4, OnwardKeeps

\* No step of the program leaves the invariant.
LEMMA Inductive == Inv /\ [Next]_vars => Inv'
<1> SUFFICES ASSUME Inv, [Next]_vars PROVE Inv'
  OBVIOUS
<1>1. CASE Parse
  BY <1>1, ParseKeeps
<1>2. CASE MakeManager
  BY <1>2, MakeManagerKeeps
<1>3. CASE SetupColours \/ Validate \/ SetupTracing \/ TracingFails
  BY <1>3, SetupKeeps
<1>4. CASE Help \/ Inform \/ RunServer
  BY <1>4, OthersKeep
<1>5. CASE \/ BadOptions \/ ManagerFails \/ BadColour \/ InformFails \/ Invalid
           \/ NoClient \/ Raise \/ PrepFails \/ SpawnFails \/ ClientFails
  BY <1>5, FailKeeps DEF BadOptions, ManagerFails, BadColour, InformFails, Invalid,
                         NoClient, Raise, PrepFails, SpawnFails, ClientFails
<1>6. CASE PrepPanics
  BY <1>6, PanicKeeps DEF PrepPanics
<1>7. CASE Prep
  BY <1>7, PrepKeeps
<1>8. CASE Spawn
  BY <1>8, SpawnKeeps
<1>9. CASE Negotiate \/ Connect \/ Transfer \/ ReadReport \/ Linger
  BY <1>9, ClientKeeps
<1>10. CASE DryRun \/ FinishRun
  BY <1>10, DoneKeeps
<1>11. CASE SshEnds
  BY <1>11, SshEndsKeeps
<1>12. CASE UNCHANGED vars
  <2>1. UNCHANGED <<flags, paths, opts>>
    BY <1>12 DEF vars
  <2>2. /\ UNCHANGED <<config, address, ssh, endpoint, logging>>
        /\ UNCHANGED <<done, said, pc, status>>
    BY <1>12 DEF vars
  <2>3. TypeOK' /\ InMode' /\ Configured' /\ Addressed'
    BY <2>1, <2>2, CommandLine DEF Inv, TypeOK, InMode, Configured, Addressed
  <2>4. Started'
    BY <2>1, <2>2 DEF Inv, Started, OneRemote, Remote
  <2>5. Reported'
    BY <2>1, <2>2, CommandLine DEF Inv, Reported, ExitIsHonest
  <2> QED
    BY <2>3, <2>4, <2>5 DEF Inv
<1> QED
  BY <1>1, <1>2, <1>3, <1>4, <1>5, <1>6, <1>7, <1>8, <1>9, <1>10, <1>11, <1>12
     DEF Next, Client

-----------------------------------------------------------------------------
(* Launch: the theorems.                                                   *)

\* What has been settled at each step stays so.
THEOREM Invariance == Spec => []Inv
<1>1. Init => Inv
  BY Initially
<1>2. Inv /\ [Next]_vars => Inv'
  BY Inductive
<1> QED
  BY <1>1, <1>2, PTL DEF Spec

\* Every value is of its type, and the program has a status when it has ended.
THEOREM TypeCorrect == Spec => []TypeOK
<1>1. Inv => TypeOK
  BY DEF Inv
<1> QED
  BY <1>1, Invariance, PTL

\* The host that is copied from or to, the one that the configuration was read
\* for and the one that ssh is started for are the same, and so is the user,
\* however many paths there are (args.rs 197-355).
THEOREM OneRemoteAlways == Spec => []OneRemote
<1>1. Inv => OneRemote
  BY DEF Inv, Started
<1> QED
  BY <1>1, Invariance, PTL

\* ssh and QUIC go to addresses of one family, the one that the command line
\* asks for or, when it does not, the configuration (main_loop.rs 292).
THEOREM OneFamilyAlways == Spec => []OneFamily
<1>1. Inv => OneFamily
  <2> SUFFICES ASSUME Inv PROVE OneFamily
    OBVIOUS
  <2>1. /\ ssh.is # "none" => ssh.family = address
        /\ endpoint # None => endpoint = address
    BY DEF Inv, Started
  <2>2. address # None => Family \in {None, "any", address}
    BY DEF Inv, Addressed
  <2>3. /\ opts.alias = "4" => Family = "inet"
        /\ opts.alias = "6" => Family = "inet6"
        /\ opts.alias = None /\ opts.family = "inet6" => Family = "inet6"
        /\ opts.alias = None /\ opts.family = None /\ opts.fileFamily = "inet"
             => Family = "inet"
    BY DEF Family, Families
  <2> QED
    BY <2>1, <2>2, <2>3 DEF OneFamily, Families
<1> QED
  BY <1>1, Invariance, PTL

\* The exit status says what was done: success for all of it, and a failure
\* has been explained.
THEOREM ExitIsHonestAlways == Spec => []ExitIsHonest
<1>1. Inv => ExitIsHonest
  BY DEF Inv, Reported
<1> QED
  BY <1>1, Invariance, PTL

=============================================================================
