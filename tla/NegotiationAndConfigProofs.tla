---------------------- MODULE NegotiationAndConfigProofs ----------------------
(***************************************************************************)
(* What modules ConfigFiles and Negotiation promise: how a user's          *)
(* configuration is read and how the two sides' configurations are made    *)
(* one, proved for every set of hosts, patterns, fields and values, for    *)
(* files of any length and for Includes of any depth.                      *)
(*                                                                         *)
(* ConfigFiles.  The parser's stack is related to the text it reads: what  *)
(* has been read of a file, with what each parser on the stack has left of *)
(* its own, is the file with every Include expanded (ReadSoFar).  The      *)
(* expansion is defined by recursion over the depth of Include and the     *)
(* lines of a file, so the first part is about recursion over a number and *)
(* over a sequence.  A line more then means the same to the parser as to   *)
(* the definition of what is given (OneLineMore), and a file more the same *)
(* to the layers as to the definition of what is in the files (FilePassed).*)
(*                                                                         *)
(* Negotiation.  All of it comes down to one lemma, CombineAt: what the    *)
(* server settles on for a parameter, given what the two sides said about  *)
(* it.  The rest follows that value through the server message into the    *)
(* client's configuration.                                                 *)
(***************************************************************************)
EXTENDS ConfigFiles, Negotiation, SequenceTheorems, WellFoundedInduction, TLAPS

-----------------------------------------------------------------------------
(* ConfigFiles: recursion over a sequence.                                 *)

\* What holds of 0, and of every number after one it holds of, holds of all.
LEMMA NumbersFrom0 ==
  ASSUME NEW S, 0 \in S, \A n \in Nat : n \in S => n + 1 \in S
  PROVE  Nat \subseteq S
<1> DEFINE T == Nat \ S
           R == {ss \in Nat \X Nat : ss[1] < ss[2]}
<1>1. SUFFICES ASSUME T # {}
               PROVE  FALSE
  OBVIOUS
<1>2. PICK x \in T : \A y \in T : <<y, x>> \notin R
  <2>1. IsWellFoundedOn(R, Nat)
    BY NatLessThanWellFounded DEF OpToRel
  <2> HIDE DEF R
  <2> QED
    BY <1>1, <2>1, WFMin
<1>3. x \in Nat /\ x # 0 /\ x - 1 \in Nat
  BY <1>2
<1>4. x - 1 \in T
  BY <1>3
<1>5. <<x - 1, x>> \in R
  BY <1>3
<1> QED
  BY <1>2, <1>4, <1>5

\* f is what comes of taking n steps from a.
Folded(f, n, a, step, S) ==
  f \in [0..n -> S] /\ f[0] = a /\ \A i \in 1..n : f[i] = step[i][f[i - 1]]

\* Any number of steps can be taken ...
LEMMA FoldExists ==
  ASSUME NEW S, NEW n \in Nat, NEW a \in S, NEW step \in [1..n -> [S -> S]]
  PROVE  \E f : Folded(f, n, a, step, S)
<1> DEFINE T == {m \in Nat : m <= n => \E f : Folded(f, m, a, step, S)}
<1>1. 0 \in T
  <2>1. Folded([i \in 0..0 |-> a], 0, a, step, S)
    BY DEF Folded
  <2> QED
    BY <2>1
<1>2. ASSUME NEW m \in Nat, m \in T
      PROVE  m + 1 \in T
  <2>1. SUFFICES ASSUME m + 1 <= n
                 PROVE  \E f : Folded(f, m + 1, a, step, S)
    OBVIOUS
  <2>2. PICK f : Folded(f, m, a, step, S)
    BY <1>2, <2>1
  <2>3. m + 1 \in 1..n /\ f[m] \in S
    BY <2>1, <2>2 DEF Folded
  <2>4. PICK v \in S : v = step[m + 1][f[m]]
    BY <2>3
  <2> DEFINE g == [i \in 0..m + 1 |-> IF i = m + 1 THEN v ELSE f[i]]
  <2>5. g \in [0..m + 1 -> S]
    BY <2>2 DEF Folded
  <2>6. g[0] = a
    BY <2>2 DEF Folded
  <2>7. ASSUME NEW i \in 1..m + 1
        PROVE  g[i] = step[i][g[i - 1]]
    <3>1. CASE i = m + 1
      BY <2>4, <3>1
    <3>2. CASE i # m + 1
      <4>1. i \in 1..m /\ i - 1 \in 0..m
        BY <3>2
      <4> QED
        BY <2>2, <4>1 DEF Folded
    <3> QED
      BY <3>1, <3>2
  <2>8. Folded(g, m + 1, a, step, S)
    BY <2>5, <2>6, <2>7 DEF Folded
  <2> QED
    BY <2>8
<1>3. Nat \subseteq T
  <2> HIDE DEF T
  <2> QED
    BY <1>1, <1>2, NumbersFrom0
<1> QED
  BY <1>3

\* ... and where two agree on the steps they come to the same.
LEMMA FoldAgrees ==
  ASSUME NEW S, NEW m \in Nat, NEW n \in Nat, m <= n, NEW a, NEW p, NEW q,
         \A i \in 1..m : p[i] = q[i],
         NEW f, NEW g, Folded(f, m, a, p, S), Folded(g, n, a, q, S)
  PROVE  f[m] = g[m]
<1> DEFINE T == {k \in Nat : k <= m => f[k] = g[k]}
<1>1. 0 \in T
  BY DEF Folded
<1>2. ASSUME NEW k \in Nat, k \in T
      PROVE  k + 1 \in T
  <2>1. SUFFICES ASSUME k + 1 <= m
                 PROVE  f[k + 1] = g[k + 1]
    OBVIOUS
  <2>2. f[k] = g[k]
    BY <1>2, <2>1
  <2>3. k + 1 \in 1..m /\ k + 1 \in 1..n /\ (k + 1) - 1 = k
    BY <2>1
  <2> QED
    BY <2>2, <2>3 DEF Folded
<1>3. Nat \subseteq T
  <2> HIDE DEF T
  <2> QED
    BY <1>1, <1>2, NumbersFrom0
<1> QED
  BY <1>3

-----------------------------------------------------------------------------
(* ConfigFiles: one sequence after the other.                              *)

Following(ss, X) == [i \in 1..Len(ss) |-> [v \in Seq(X) |-> v \o ss[i]]]

\* FlattenSeq (of the community modules) takes one sequence after the other.
LEMMA FlattenIsFold ==
  ASSUME NEW X, NEW ss \in Seq(Seq(X))
  PROVE  \E f : /\ Folded(f, Len(ss), <<>>, Following(ss, X), Seq(X))
                /\ FlattenSeq(ss) = f[Len(ss)]
<1> DEFINE Flat(f) == f = [i \in 1..Len(ss) |-> IF i = 1 THEN ss[i] ELSE f[i - 1] \o ss[i]]
           flat == CHOOSE f : Flat(f)
           n == Len(ss)
<1>0. /\ n \in Nat /\ <<>> \in Seq(X)
      /\ \A i \in 1..n : ss[i] \in Seq(X)
  OBVIOUS
<1>1. PICK f : Folded(f, n, <<>>, Following(ss, X), Seq(X))
  <2>1. ASSUME NEW i \in 1..n
        PROVE  [v \in Seq(X) |-> v \o ss[i]] \in [Seq(X) -> Seq(X)]
    <3>1. ss[i] \in Seq(X)
      BY <1>0
    <3> QED
      BY <3>1
  <2>2. Following(ss, X) \in [1..n -> [Seq(X) -> Seq(X)]]
    BY <2>1, Zenon DEF Following
  <2> QED
    BY <1>0, <2>2, FoldExists
<1>2. f[0] = <<>> /\ \A i \in 0..n : f[i] \in Seq(X)
  BY <1>1 DEF Folded
<1>3. ASSUME NEW i \in 1..n
      PROVE  f[i] = f[i - 1] \o ss[i]
  <2>1. i - 1 \in 0..n
    BY <1>0
  <2>2. f[i - 1] \in Seq(X)
    BY <1>2, <2>1
  <2> QED
    BY <1>1, <2>2 DEF Folded, Following
<1>4. CASE n = 0
  <2>1. FlattenSeq(ss) = <<>>
    BY <1>4 DEF FlattenSeq
  <2> QED
    BY <1>1, <1>2, <1>4, <2>1
<1>5. CASE n # 0
  <2> DEFINE g == [i \in 1..n |-> f[i]]
  <2>1. Flat(g)
    <3>1. ASSUME NEW i \in 1..n
          PROVE  g[i] = IF i = 1 THEN ss[i] ELSE g[i - 1] \o ss[i]
      <4>1. CASE i = 1
        <5>1. i - 1 = 0 /\ ss[i] \in Seq(X)
          BY <1>0, <4>1
        <5>2. f[i] = <<>> \o ss[i]
          BY <1>2, <1>3, <5>1
        <5> QED
          BY <4>1, <5>1, <5>2
      <4>2. CASE i # 1
        <5>1. i - 1 \in 1..n
          BY <1>0, <4>2
        <5> QED
          BY <1>3, <4>2, <5>1
      <4> QED
        BY <4>1, <4>2
    <3> QED
      BY <3>1
  <2>2. Flat(flat)
    <3> HIDE DEF Flat
    <3> QED
      BY <2>1
  <2>3. FlattenSeq(ss) = flat[n]
    BY <1>5 DEF FlattenSeq
  <2> HIDE DEF flat
  <2>4. \A i \in 1..n : flat[i] = IF i = 1 THEN ss[i] ELSE flat[i - 1] \o ss[i]
    BY <2>2
  <2> DEFINE T == {m \in Nat : m \in 1..n => flat[m] = f[m]}
  <2>5. 0 \in T
    OBVIOUS
  <2>6. ASSUME NEW m \in Nat, m \in T
        PROVE  m + 1 \in T
    <3>1. SUFFICES ASSUME m + 1 \in 1..n
                   PROVE  flat[m + 1] = f[m + 1]
      OBVIOUS
    <3>2. f[m + 1] = f[m] \o ss[m + 1]
      <4>1. (m + 1) - 1 = m
        OBVIOUS
      <4> QED
        BY <1>3, <3>1, <4>1
    <3>3. CASE m = 0
      <4>1. flat[1] = ss[1] /\ ss[1] \in Seq(X)
        BY <1>0, <2>4, <3>1, <3>3
      <4>2. f[m] = <<>> /\ m + 1 = 1
        BY <1>2, <3>3
      <4>3. f[m + 1] = <<>> \o ss[1]
        BY <3>2, <4>2
      <4> QED
        BY <4>1, <4>2, <4>3
    <3>4. CASE m # 0
      <4>1. m \in 1..n /\ (m + 1) - 1 = m /\ m + 1 # 1
        BY <1>0, <3>1, <3>4
      <4>2. flat[m] = f[m]
        BY <2>6, <4>1
      <4>3. flat[m + 1] = flat[m] \o ss[m + 1]
        BY <2>4, <3>1, <4>1
      <4> QED
        BY <3>2, <4>2, <4>3
    <3> QED
      BY <3>3, <3>4
  <2>7. Nat \subseteq T
    <3> HIDE DEF T
    <3> QED
      BY <2>5, <2>6, NumbersFrom0
  <2>8. flat[n] = f[n]
    BY <1>0, <1>5, <2>7
  <2> QED
    BY <1>1, <2>3, <2>8
<1> QED
  BY <1>4, <1>5

\* One sequence more comes at the end.
LEMMA FlattenFacts ==
  ASSUME NEW X
  PROVE  /\ FlattenSeq(<<>>) = <<>>
         /\ \A ss \in Seq(Seq(X)), s \in Seq(X) :
              /\ FlattenSeq(ss) \in Seq(X)
              /\ FlattenSeq(Append(ss, s)) = FlattenSeq(ss) \o s
<1>1. FlattenSeq(<<>>) = <<>>
  BY DEF FlattenSeq
<1>2. ASSUME NEW ss \in Seq(Seq(X)), NEW s \in Seq(X)
      PROVE  /\ FlattenSeq(ss) \in Seq(X)
             /\ FlattenSeq(Append(ss, s)) = FlattenSeq(ss) \o s
  <2> DEFINE tt == Append(ss, s)
             n == Len(ss)
  <2>1. /\ tt \in Seq(Seq(X)) /\ Len(tt) = n + 1 /\ tt[n + 1] = s /\ n \in Nat
        /\ \A i \in 1..n : ss[i] = tt[i]
    OBVIOUS
  <2> HIDE DEF tt
  <2>2. PICK f : Folded(f, n, <<>>, Following(ss, X), Seq(X)) /\ FlattenSeq(ss) = f[n]
    BY FlattenIsFold
  <2>3. PICK g : /\ Folded(g, n + 1, <<>>, Following(tt, X), Seq(X))
                 /\ FlattenSeq(tt) = g[n + 1]
    BY <2>1, FlattenIsFold
  <2>4. f[n] = g[n]
    <3>1. n <= n + 1 /\ n + 1 \in Nat
      BY <2>1
    <3>2. ASSUME NEW i \in 1..n
          PROVE  Following(ss, X)[i] = Following(tt, X)[i]
      <4>1. i \in 1..n + 1 /\ ss[i] = tt[i]
        BY <2>1
      <4>2. Following(ss, X)[i] = [v \in Seq(X) |-> v \o ss[i]]
        BY DEF Following
      <4>3. Following(tt, X)[i] = [v \in Seq(X) |-> v \o tt[i]]
        BY <2>1, <4>1 DEF Following
      <4> QED
        BY <4>1, <4>2, <4>3
    <3> HIDE DEF n
    <3> QED
      BY <2>1, <2>2, <2>3, <3>1, <3>2, FoldAgrees
  <2>5. f[n] \in Seq(X)
    <3>1. \A i \in 0..n : f[i] \in Seq(X)
      BY <2>2 DEF Folded
    <3> QED
      BY <2>1, <3>1
  <2>6. g[n + 1] = g[n] \o s
    <3>1. n + 1 \in 1..n + 1 /\ (n + 1) - 1 = n
      BY <2>1
    <3>2. g[n + 1] = Following(tt, X)[n + 1][g[n]]
      BY <2>3, <3>1 DEF Folded
    <3>3. Following(tt, X)[n + 1] = [v \in Seq(X) |-> v \o s]
      BY <2>1, <3>1 DEF Following
    <3> QED
      BY <2>4, <2>5, <3>2, <3>3
  <2> QED
    BY <2>2, <2>3, <2>4, <2>5, <2>6 DEF tt
<1> QED
  BY <1>1, <1>2

\* A sequence made of one element after the other.
Made(f, n) == [i \in 1..n |-> f[i]]

\* The same of a sequence as FlattenFacts says, of one that is made element by element.
LEMMA MadeFacts ==
  ASSUME NEW S, NEW n \in Nat, NEW f, \A i \in 1..n + 1 : f[i] \in S
  PROVE  /\ Made(f, n) \in Seq(S)
         /\ Made(f, n + 1) = Append(Made(f, n), f[n + 1])
<1>1. \A i \in 1..n : i \in 1..n + 1
  OBVIOUS
<1>2. Made(f, n) \in Seq(S) /\ Len(Made(f, n)) = n /\ \A i \in 1..n : Made(f, n)[i] = f[i]
  BY <1>1 DEF Made
<1>3. /\ Made(f, n + 1) \in Seq(S) /\ Len(Made(f, n + 1)) = n + 1
      /\ \A i \in 1..n + 1 : Made(f, n + 1)[i] = f[i]
  BY DEF Made
<1>4. n + 1 \in 1..n + 1
  OBVIOUS
<1> DEFINE s == Append(Made(f, n), f[n + 1])
<1>5. /\ s \in Seq(S) /\ Len(s) = n + 1
      /\ s[n + 1] = f[n + 1] /\ \A i \in 1..n : s[i] = Made(f, n)[i]
  BY <1>2, <1>4
<1>6. \A i \in 1..n + 1 : Made(f, n + 1)[i] = s[i]
  <2> SUFFICES ASSUME NEW i \in 1..n + 1
               PROVE  Made(f, n + 1)[i] = s[i]
    OBVIOUS
  <2>1. CASE i = n + 1
    BY <1>3, <1>4, <1>5, <2>1
  <2>2. CASE i # n + 1
    <3>1. i \in 1..n
      BY <2>2
    <3> QED
      BY <1>2, <1>3, <1>5, <3>1
  <2> QED
    BY <2>1, <2>2
<1> HIDE DEF s
<1>7. Made(f, n + 1) = s
  BY <1>3, <1>5, <1>6, SeqEqual
<1> QED
  BY <1>2, <1>7 DEF s

\* Concatenation is associative, and <<>> is nothing.
LEMMA ConcatFacts ==
  ASSUME NEW X
  PROVE  \A a, b, c \in Seq(X) : /\ (a \o b) \o c = a \o (b \o c)
                                 /\ a \o <<>> = a /\ <<>> \o a = a
                                 /\ a \o b \in Seq(X)
OBVIOUS

\* The first of them comes first.
LEMMA FlattenFirst ==
  ASSUME NEW X, NEW n \in Nat, NEW f, \A i \in 1..n + 1 : f[i] \in Seq(X)
  PROVE  FlattenSeq(Made(f, n + 1))
           = f[1] \o FlattenSeq([i \in 1..n |-> f[i + 1]])
<1> DEFINE g == [i \in 1..n |-> f[i + 1]]
           Same(m) == /\ FlattenSeq(Made(f, m + 1)) = f[1] \o FlattenSeq(Made(g, m))
                      /\ FlattenSeq(Made(g, m)) \in Seq(X)
           T == {m \in Nat : m <= n => Same(m)}
<1>0. f[1] \in Seq(X)
  OBVIOUS
<1>1. 0 \in T
  <2>1. Made(f, 0) = <<>> /\ Made(g, 0) = <<>>
    BY DEF Made
  <2>2. Made(f, 0 + 1) = Append(Made(f, 0), f[0 + 1])
    <3>1. 0 \in Nat /\ \A i \in 1..0 + 1 : f[i] \in Seq(X)
      BY <1>0
    <3> QED
      BY <3>1, MadeFacts
  <2>3. <<>> \in Seq(Seq(X)) /\ 0 + 1 = 1 /\ <<>> \in Seq(X)
    OBVIOUS
  <2>4. Made(f, 0 + 1) = Append(<<>>, f[1])
    BY <2>1, <2>2, <2>3
  <2>5. FlattenSeq(<<>>) = <<>>
    BY FlattenFacts
  <2>6. FlattenSeq(Made(f, 0 + 1)) = <<>> \o f[1]
    BY <1>0, <2>3, <2>4, <2>5, FlattenFacts
  <2>7. FlattenSeq(Made(g, 0)) = <<>>
    BY <2>1, <2>5
  <2>8. <<>> \o f[1] = f[1] \o <<>>
    BY <1>0
  <2> QED
    BY <2>3, <2>6, <2>7, <2>8
<1>2. ASSUME NEW m \in Nat, m \in T
      PROVE  m + 1 \in T
  <2>1. SUFFICES ASSUME m + 1 <= n
                 PROVE  Same(m + 1)
    <3> HIDE DEF Same
    <3> QED
      OBVIOUS
  <2>2. /\ FlattenSeq(Made(f, m + 1)) = f[1] \o FlattenSeq(Made(g, m))
        /\ FlattenSeq(Made(g, m)) \in Seq(X)
    BY <1>2, <2>1
  <2>3. \A i \in 1..(m + 1) + 1 : f[i] \in Seq(X)
    BY <2>1
  <2>4. /\ Made(f, m + 1) \in Seq(Seq(X))
        /\ Made(f, (m + 1) + 1) = Append(Made(f, m + 1), f[(m + 1) + 1])
    BY <2>3, MadeFacts, m + 1 \in Nat
  <2>5. \A i \in 1..m + 1 : g[i] = f[i + 1] /\ g[i] \in Seq(X)
    BY <2>1
  <2>6. /\ Made(g, m) \in Seq(Seq(X))
        /\ Made(g, m + 1) = Append(Made(g, m), g[m + 1])
    <3> HIDE DEF g
    <3> QED
      BY <2>5, MadeFacts
  <2>7. g[m + 1] = f[(m + 1) + 1] /\ g[m + 1] \in Seq(X)
    BY <2>5
  <2> HIDE DEF g
  <2>8. FlattenSeq(Made(f, (m + 1) + 1)) = FlattenSeq(Made(f, m + 1)) \o g[m + 1]
    BY <2>4, <2>7, FlattenFacts
  <2>9. FlattenSeq(Made(g, m + 1)) = FlattenSeq(Made(g, m)) \o g[m + 1]
    BY <2>6, <2>7, FlattenFacts
  <2>10. FlattenSeq(Made(g, m + 1)) \in Seq(X)
    BY <2>2, <2>7, <2>9, ConcatFacts
  <2>11. (f[1] \o FlattenSeq(Made(g, m))) \o g[m + 1]
           = f[1] \o (FlattenSeq(Made(g, m)) \o g[m + 1])
    <3>1. /\ f[1] \in Seq(X) /\ FlattenSeq(Made(g, m)) \in Seq(X)
          /\ g[m + 1] \in Seq(X)
      BY <1>0, <2>2, <2>7
    <3>2. \A a, b, c \in Seq(X) : (a \o b) \o c = a \o (b \o c)
      BY ConcatFacts
    <3> QED
      BY <3>1, <3>2, Zenon
  <2>12. FlattenSeq(Made(f, (m + 1) + 1)) = f[1] \o FlattenSeq(Made(g, m + 1))
    BY <2>2, <2>8, <2>9, <2>11
  <2> QED
    BY <2>10, <2>12
<1>3. Nat \subseteq T
  <2> HIDE DEF T
  <2> QED
    BY <1>1, <1>2, NumbersFrom0
<1>4. FlattenSeq(Made(f, n + 1)) = f[1] \o FlattenSeq(Made(g, n))
  <2>1. Same(n)
    <3> HIDE DEF Same
    <3> QED
      BY <1>3
  <2> QED
    BY <2>1
<1>5. Made(g, n) = g
  BY DEF Made
<1> QED
  BY <1>4, <1>5

-----------------------------------------------------------------------------
(* ConfigFiles: what a file says.                                          *)

AnyLine == UserLines \cup IncludedLines \cup SystemLines
AnEntry == [file : Files \cup {"none"}, line : Nat, what : AnyLine]
AllTexts(t) == \A f \in Files : t[f] \in Seq(AnyLine) \cup {Absent, Unreadable}
Below == [Files -> Seq(AnEntry)]

\* The kinds of line, and what each of them holds.
LEMMA LineFacts ==
  \A l \in AnyLine :
    /\ l.kind \in {"host", "include", "home", "setting", "idle", "bad"}
    /\ l.kind \in {"include", "home"} => l.files \in Seq(Files)
    /\ l.kind = "setting" => l.key \in Fields
    /\ \A k : l = Setting(k) <=> l.kind = "setting" /\ l.key = k
<1> SUFFICES ASSUME NEW l \in AnyLine
             PROVE  /\ l.kind \in {"host", "include", "home", "setting", "idle", "bad"}
                    /\ l.kind \in {"include", "home"} => l.files \in Seq(Files)
                    /\ l.kind = "setting" => l.key \in Fields
                    /\ \A k : l = Setting(k) <=> l.kind = "setting" /\ l.key = k
  OBVIOUS
<1>1. \A k : Setting(k).kind = "setting" /\ Setting(k).key = k
  BY DEF Setting
<1>2. CASE \E p : l = HostLine(p)
  <2>1. l.kind = "host"
    BY <1>2 DEF HostLine
  <2> QED
    BY <1>1, <2>1
<1>3. CASE l = Include(<<"included">>) \/ l = FromHome("included")
  <2>1. l.kind \in {"include", "home"} /\ l.files = <<"included">>
    BY <1>3 DEF Include, FromHome
  <2>2. l.files \in Seq(Files)
    BY <2>1 DEF Files
  <2> QED
    BY <1>1, <2>1, <2>2
<1>4. CASE l = Setting(EnvKey) \/ l = Setting(Lookup)
  <2>1. PICK k \in Fields : l = Setting(k)
    BY <1>4, FieldsAssumption
  <2>2. \A j : Setting(j) = l => j = k
    BY <1>1, <2>1
  <2> QED
    BY <1>1, <2>1, <2>2
<1>5. CASE l = Bad \/ l = Idle
  <2>1. l.kind \in {"idle", "bad"}
    BY <1>5 DEF Bad, Idle
  <2> QED
    BY <1>1, <2>1
<1>6. CASE l \in UserLines
  <2>1. \/ \E p : l = HostLine(p)
        \/ l = Include(<<"included">>) \/ l = FromHome("included")
        \/ l = Setting(EnvKey) \/ l = Setting(Lookup)
        \/ l = Bad \/ l = Idle
    BY <1>6 DEF UserLines
  <2> QED
    BY <1>2, <1>3, <1>4, <1>5, <2>1
<1>7. CASE l \in IncludedLines
  <2>1. \/ \E p : l = HostLine(p)
        \/ l = Include(<<"included">>) \/ l = FromHome("included")
        \/ l = Setting(EnvKey) \/ l = Setting(Lookup)
        \/ l = Bad \/ l = Idle
    BY <1>7 DEF IncludedLines
  <2> QED
    BY <1>2, <1>3, <1>4, <1>5, <2>1
<1>8. CASE l \in SystemLines
  BY <1>3, <1>4, <1>8 DEF SystemLines
<1> QED
  BY <1>6, <1>7, <1>8 DEF AnyLine

\* A bad line is one of the lines there may be.
LEMMA FailureTyped == Failure \in AnEntry /\ Failure.what.kind = "bad"
<1>1. Bad \in AnyLine
  BY DEF AnyLine, UserLines
<1> QED
  BY <1>1 DEF Failure, AnEntry, Bad

\* ConcatFacts, of entries.
LEMMA Grouping == \A a, b, c \in Seq(AnEntry) : (a \o b) \o c = a \o (b \o c)
  BY ConcatFacts

Joined(a, b) == a \o b
\* The same, with the provers' own notion of concatenation out of sight.
LEMMA JoinedFacts ==
  \A a, b, c \in Seq(AnEntry) : /\ Joined(a, b) \in Seq(AnEntry)
                                /\ Joined(Joined(a, b), c) = Joined(a, Joined(b, c))
  BY ConcatFacts DEF Joined

Regrouped(a, b, c, d) ==
  /\ ((a \o b) \o c) \o d = a \o ((b \o c) \o d)
  /\ (b \o c) \o d \in Seq(AnEntry)
\* Of four, the two in the middle may be taken together with the last.
LEMMA GroupingOfFour ==
  ASSUME NEW a \in Seq(AnEntry), NEW b \in Seq(AnEntry), NEW c \in Seq(AnEntry),
         NEW d \in Seq(AnEntry)
  PROVE  Regrouped(a, b, c, d)
<1>1. /\ Joined(Joined(Joined(a, b), c), d) = Joined(a, Joined(Joined(b, c), d))
      /\ Joined(Joined(b, c), d) \in Seq(AnEntry)
  BY JoinedFacts
<1> QED
  BY <1>1 DEF Joined, Regrouped

\* What files say, one after the other: nothing for none, and the first one's first.
LEMMA AllOfFacts ==
  ASSUME NEW X, NEW below \in [Files -> Seq(X)], NEW names \in Seq(Files)
  PROVE  /\ AllOf(below, names) \in Seq(X)
         /\ names = <<>> => AllOf(below, names) = <<>>
         /\ names # <<>> =>
              /\ Head(names) \in Files /\ Tail(names) \in Seq(Files)
              /\ AllOf(below, names) = below[Head(names)] \o AllOf(below, Tail(names))
<1> DEFINE f == [i \in 1..Len(names) |-> below[names[i]]]
<1>1. /\ Len(names) \in Nat
      /\ \A i \in 1..Len(names) : f[i] = below[names[i]] /\ f[i] \in Seq(X)
  OBVIOUS
<1>2. AllOf(below, names) = FlattenSeq(f)
  BY DEF AllOf
<1>3. f \in Seq(Seq(X))
  BY <1>1
<1>4. AllOf(below, names) \in Seq(X)
  <2> HIDE DEF f
  <2> QED
    BY <1>2, <1>3, FlattenFacts
<1>5. CASE names = <<>>
  <2>1. f = <<>>
    BY <1>5
  <2> QED
    BY <1>2, <1>4, <1>5, <2>1, FlattenFacts
<1>6. CASE names # <<>>
  <2> DEFINE rest == Tail(names)
  <2>1. /\ Head(names) = names[1] /\ names[1] \in Files /\ rest \in Seq(Files)
        /\ Len(rest) = Len(names) - 1 /\ Len(rest) \in Nat
        /\ \A i \in 1..Len(rest) : rest[i] = names[i + 1]
    BY <1>6
  <2> HIDE DEF rest
  <2> DEFINE m == Len(rest)
  <2>2. m \in Nat /\ Len(names) = m + 1
    BY <1>1, <2>1
  <2>3. f = Made(f, m + 1)
    BY <2>2 DEF Made
  <2>4. \A i \in 1..m + 1 : f[i] \in Seq(X)
    BY <1>1, <2>2
  <2>5. FlattenSeq(Made(f, m + 1)) = f[1] \o FlattenSeq([i \in 1..m |-> f[i + 1]])
    <3> HIDE DEF f, m
    <3> QED
      BY <2>2, <2>4, FlattenFirst
  <2>6. [i \in 1..m |-> f[i + 1]] = [i \in 1..m |-> below[rest[i]]]
    <3>1. \A i \in 1..m : i + 1 \in 1..Len(names) /\ rest[i] = names[i + 1]
      BY <2>1, <2>2
    <3> QED
      BY <1>1, <3>1
  <2>7. AllOf(below, rest) = FlattenSeq([i \in 1..m |-> below[rest[i]]])
    BY DEF AllOf
  <2>8. f[1] = below[Head(names)]
    BY <1>1, <2>1, <2>2
  <2> HIDE DEF f, m
  <2> QED
    BY <1>2, <1>4, <1>6, <2>1, <2>3, <2>5, <2>6, <2>7, <2>8 DEF rest
<1> QED
  BY <1>5, <1>6

\* No files say nothing.
LEMMA NoNames == \A below \in Below : AllOf(below, <<>>) = <<>>
<1>1. <<>> \in Seq(Files)
  OBVIOUS
<1> QED
  BY <1>1, AllOfFacts DEF Below

\* What a line stands for is a sequence of entries.
LEMMA StandsTyped ==
  ASSUME NEW t, NEW f \in Files, t[f] \in Seq(AnyLine), NEW top, NEW below \in Below,
         NEW n \in 1..Len(t[f])
  PROVE  Stands(t, top, below, f, n) \in Seq(AnEntry)
<1>1. t[f][n] \in AnyLine /\ n \in Nat
  OBVIOUS
<1>2. CASE t[f][n].kind = "home" /\ top # "user"
  BY <1>2, FailureTyped DEF Stands
<1>3. CASE /\ ~(t[f][n].kind = "home" /\ top # "user")
           /\ t[f][n].kind \in {"include", "home"}
  <2>1. t[f][n].files \in Seq(Files)
    BY <1>1, <1>3, LineFacts
  <2>2. AllOf(below, t[f][n].files) \in Seq(AnEntry)
    BY <2>1, AllOfFacts DEF Below
  <2> QED
    BY <1>3, <2>2 DEF Stands
<1>4. CASE /\ ~(t[f][n].kind = "home" /\ top # "user")
           /\ t[f][n].kind \notin {"include", "home"}
  <2>1. Entry(t, f, n) \in AnEntry
    BY <1>1 DEF Entry, AnEntry
  <2>2. Stands(t, top, below, f, n) = <<Entry(t, f, n)>>
    BY <1>4 DEF Stands
  <2> QED
    BY <2>1, <2>2
<1> QED
  BY <1>2, <1>3, <1>4

\* The lines after the nth: nothing after the last, and the next one first.
LEMMA LinesAfterFacts ==
  ASSUME NEW t, NEW f \in Files, t[f] \in Seq(AnyLine), NEW top, NEW below \in Below,
         NEW n \in 0..Len(t[f])
  PROVE  /\ LinesAfter(t, top, below, f, n) \in Seq(AnEntry)
         /\ n = Len(t[f]) => LinesAfter(t, top, below, f, n) = <<>>
         /\ n # Len(t[f]) =>
              LinesAfter(t, top, below, f, n)
                = Stands(t, top, below, f, n + 1) \o LinesAfter(t, top, below, f, n + 1)
<1> DEFINE m == Len(t[f]) - n
           g == [i \in 1..m |-> Stands(t, top, below, f, n + i)]
<1>1. m \in Nat /\ n \in Nat /\ Len(t[f]) \in Nat /\ Len(t[f]) = n + m
  OBVIOUS
<1>2. \A i \in 1..m : g[i] \in Seq(AnEntry)
  <2>1. \A i \in 1..m : n + i \in 1..Len(t[f])
    BY <1>1
  <2> QED
    BY <2>1, StandsTyped
<1>3. LinesAfter(t, top, below, f, n) = FlattenSeq(g)
  BY DEF LinesAfter
<1>4. g \in Seq(Seq(AnEntry))
  <2>1. DOMAIN g = 1..m /\ g = [i \in 1..m |-> g[i]]
    OBVIOUS
  <2> HIDE DEF g, m
  <2> QED
    BY <1>1, <1>2, <2>1
<1>5. LinesAfter(t, top, below, f, n) \in Seq(AnEntry)
  <2> HIDE DEF g
  <2> QED
    BY <1>3, <1>4, FlattenFacts
<1>6. CASE m = 0
  <2>1. g = <<>>
    BY <1>6
  <2> QED
    BY <1>1, <1>3, <1>5, <1>6, <2>1, FlattenFacts
<1>7. CASE m # 0
  <2> DEFINE k == m - 1
  <2>1. k \in Nat /\ m = k + 1 /\ Len(t[f]) - (n + 1) = k
    BY <1>1, <1>7
  <2>2. g = Made(g, k + 1)
    BY <2>1 DEF Made
  <2>3. FlattenSeq(Made(g, k + 1)) = g[1] \o FlattenSeq([i \in 1..k |-> g[i + 1]])
    <3>1. k \in Nat /\ \A i \in 1..k + 1 : g[i] \in Seq(AnEntry)
      BY <1>2, <2>1
    <3> HIDE DEF g, k, m
    <3> QED
      BY <3>1, FlattenFirst
  <2>4. [i \in 1..k |-> g[i + 1]]
          = [i \in 1..k |-> Stands(t, top, below, f, (n + 1) + i)]
    <3>1. \A i \in 1..k : i + 1 \in 1..m /\ n + (i + 1) = (n + 1) + i
      BY <1>1, <2>1
    <3>2. \A i \in 1..k : g[i + 1] = Stands(t, top, below, f, (n + 1) + i)
      BY <3>1
    <3> HIDE DEF g
    <3> QED
      BY <3>2
  <2>5. LinesAfter(t, top, below, f, n + 1)
          = FlattenSeq([i \in 1..k |-> Stands(t, top, below, f, (n + 1) + i)])
    BY <2>1 DEF LinesAfter
  <2>6. g[1] = Stands(t, top, below, f, n + 1)
    BY <2>1
  <2>7. n # Len(t[f])
    BY <1>1, <1>7
  <2> HIDE DEF g, k, m
  <2> QED
    BY <1>3, <1>5, <2>2, <2>3, <2>4, <2>5, <2>6, <2>7
<1> QED
  BY <1>6, <1>7

Existing(t) == {f \in Files : t[f] # Absent}

\* Files that do not exist say nothing, and may as well be left out.
LEMMA PresentFacts ==
  ASSUME NEW below \in Below, \A f \in Files : text[f] = Absent => below[f] = <<>>,
         NEW names \in Seq(Files)
  PROVE  /\ Present(names) \in Seq(Existing(text))
         /\ AllOf(below, Present(names)) = AllOf(below, names)
<1> DEFINE self == [f \in Files |-> IF text[f] = Absent THEN <<>> ELSE <<f>>]
           E == Existing(text)
           Same(s) == /\ Present(s) \in Seq(E)
                      /\ AllOf(below, Present(s)) = AllOf(below, s)
           T == {n \in Nat : \A s \in Seq(Files) : Len(s) = n => Same(s)}
<1>1. self \in [Files -> Seq(E)] /\ E \subseteq Files
  <2>1. E \subseteq Files /\ \A f \in Files : text[f] # Absent => f \in E
    BY DEF Existing
  <2> HIDE DEF E
  <2>2. \A f \in Files : (IF text[f] = Absent THEN <<>> ELSE <<f>>) \in Seq(E)
    BY <2>1
  <2> QED
    BY <2>1, <2>2
<1> HIDE DEF E
<1>2. \A s : Present(s) = AllOf(self, s)
  BY DEF Present
<1>3. 0 \in T
  <2> SUFFICES ASSUME NEW s \in Seq(Files), Len(s) = 0
               PROVE  Same(s)
    OBVIOUS
  <2>1. s = <<>>
    OBVIOUS
  <2>2. Present(s) = <<>>
    <3> HIDE DEF self
    <3>1. AllOf(self, s) = <<>>
      BY <1>1, <2>1, AllOfFacts
    <3> QED
      BY <1>2, <3>1
  <2>3. <<>> \in Seq(E)
    OBVIOUS
  <2>4. Present(s) \in Seq(E) /\ Present(s) = s
    BY <2>1, <2>2, <2>3, Zenon
  <2> QED
    BY <2>4, Zenon
<1>4. ASSUME NEW n \in Nat, n \in T
      PROVE  n + 1 \in T
  <2> SUFFICES ASSUME NEW s \in Seq(Files), Len(s) = n + 1
               PROVE  Same(s)
    <3> HIDE DEF Same
    <3> QED
      OBVIOUS
  <2> DEFINE x == Head(s)
             r == Tail(s)
  <2>1. s # <<>> /\ x \in Files /\ r \in Seq(Files) /\ Len(r) = n
    OBVIOUS
  <2>2. Same(r)
    <3> HIDE DEF Same, r
    <3> QED
      BY <1>4, <2>1
  <2>3. Present(s) = self[x] \o Present(r)
    <3> HIDE DEF self
    <3> QED
      BY <1>1, <1>2, <2>1, AllOfFacts
  <2>4. AllOf(below, s) = below[x] \o AllOf(below, r) /\ AllOf(below, r) \in Seq(AnEntry)
    BY <2>1, AllOfFacts DEF Below
  <2> HIDE DEF x, r
  <2>5. CASE text[x] = Absent
    <3>1. self[x] = <<>> /\ below[x] = <<>>
      BY <2>1, <2>5
    <3> HIDE DEF self
    <3>2. Present(s) = Present(r)
      BY <2>2, <2>3, <3>1, ConcatFacts
    <3>3. AllOf(below, s) = AllOf(below, r)
      BY <2>4, <3>1, ConcatFacts
    <3> QED
      BY <2>2, <3>2, <3>3
  <2>6. CASE text[x] # Absent
    <3>1. Present(s) = <<x>> \o Present(r)
      BY <2>1, <2>3, <2>6
    <3> DEFINE p == Present(r)
    <3>2. p \in Seq(Files) /\ <<x>> \o p \in Seq(E)
      <4>1. p \in Seq(E) /\ x \in E
        BY <2>1, <2>2, <2>6 DEF Existing, E
      <4> HIDE DEF p
      <4> QED
        BY <1>1, <4>1
    <3> HIDE DEF p
    <3>3. /\ <<x>> \o p \in Seq(Files) /\ <<x>> \o p # <<>>
          /\ Head(<<x>> \o p) = x /\ Tail(<<x>> \o p) = p
      <4>1. /\ <<x>> \o p \in Seq(Files) /\ Len(<<x>> \o p) = 1 + Len(p)
            /\ Head(<<x>> \o p) = x
        BY <2>1, <3>2
      <4>2. /\ Tail(<<x>> \o p) \in Seq(Files) /\ Len(Tail(<<x>> \o p)) = Len(p)
            /\ \A i \in 1..Len(p) : Tail(<<x>> \o p)[i] = p[i]
        BY <2>1, <3>2
      <4> QED
        BY <3>2, <4>1, <4>2, SeqEqual
    <3>4. AllOf(below, <<x>> \o p) = below[x] \o AllOf(below, p)
      BY <3>3, AllOfFacts DEF Below
    <3>5. AllOf(below, p) = AllOf(below, r)
      BY <2>2 DEF p
    <3>6. Present(s) = <<x>> \o p
      BY <3>1 DEF p
    <3> HIDE DEF self
    <3>7. AllOf(below, Present(s)) = AllOf(below, s)
      BY <2>4, <3>4, <3>5, <3>6
    <3> QED
      BY <3>2, <3>6, <3>7
  <2> QED
    BY <2>5, <2>6
<1>5. Nat \subseteq T
  <2> HIDE DEF T
  <2> QED
    BY <1>3, <1>4, NumbersFrom0
<1>6. Len(names) \in Nat
  OBVIOUS
<1> HIDE DEF Same
<1>7. Same(names)
  BY <1>5, <1>6
<1> QED
  BY <1>7 DEF Same, E

\* What a file says is a sequence of entries.
LEMMA WholeFileTyped ==
  ASSUME NEW t, AllTexts(t), NEW top, NEW below \in Below, NEW f \in Files
  PROVE  WholeFile(t, top, below, f) \in Seq(AnEntry)
<1>1. <<>> \in Seq(AnEntry) /\ <<Failure>> \in Seq(AnEntry)
  BY FailureTyped
<1>2. CASE t[f] \in {Absent, Unreadable}
  BY <1>1, <1>2 DEF WholeFile
<1>3. CASE t[f] \notin {Absent, Unreadable}
  <2>1. t[f] \in Seq(AnyLine)
    BY <1>3 DEF AllTexts
  <2>2. 0 \in 0..Len(t[f])
    BY <2>1
  <2>3. LinesAfter(t, top, below, f, 0) \in Seq(AnEntry)
    BY <2>1, <2>2, LinesAfterFacts
  <2> QED
    BY <1>3, <2>3 DEF WholeFile
<1> QED
  BY <1>2, <1>3

Limit == IncludeDepthLimit
TooDeep(t) == [f \in Files |-> IF t[f] = Absent THEN <<>> ELSE <<Failure>>]
Deeper(t, top) ==
  [i \in 1..Limit |-> [b \in Below |-> [f \in Files |-> WholeFile(t, top, b, f)]]]

\* What files say, one Include after the other up to the limit.
LEMMA ExpansionFacts ==
  ASSUME NEW t, AllTexts(t), NEW top
  PROVE  Folded(Expansion(t, top), Limit, TooDeep(t), Deeper(t, top), Below)
<1> DEFINE One(b) == [f \in Files |-> WholeFile(t, top, b, f)]
           Says(e) == e = [d \in 0..Limit |-> IF d = 0 THEN TooDeep(t) ELSE One(e[d - 1])]
           exp == CHOOSE e : Says(e)
<1>0. Limit \in Nat
  BY DepthAssumption DEF Limit
<1>1. TooDeep(t) \in Below
  <2>1. <<>> \in Seq(AnEntry) /\ <<Failure>> \in Seq(AnEntry)
    BY FailureTyped
  <2> QED
    BY <2>1 DEF TooDeep, Below
<1>2. \A b \in Below : One(b) \in Below
  <2> SUFFICES ASSUME NEW b \in Below
               PROVE  One(b) \in Below
    OBVIOUS
  <2>1. \A f \in Files : WholeFile(t, top, b, f) \in Seq(AnEntry)
    BY WholeFileTyped
  <2> QED
    BY <2>1 DEF Below
<1>3. Expansion(t, top) = exp
  BY DEF Expansion, TooDeep, Limit
<1> HIDE DEF One
<1>4. \A i \in 1..Limit, b \in Below : Deeper(t, top)[i][b] = One(b)
  BY DEF Deeper, One
<1>5. PICK e : Folded(e, Limit, TooDeep(t), Deeper(t, top), Below)
  <2>1. [b \in Below |-> One(b)] \in [Below -> Below]
    BY <1>2
  <2>2. Deeper(t, top) = [i \in 1..Limit |-> [b \in Below |-> One(b)]]
    BY DEF Deeper, One
  <2>3. Deeper(t, top) \in [1..Limit -> [Below -> Below]]
    BY <2>1, <2>2
  <2> QED
    BY <1>0, <1>1, <2>3, FoldExists
<1>6. Says(e)
  <2>1. e = [d \in 0..Limit |-> e[d]] /\ e[0] = TooDeep(t)
    BY <1>5 DEF Folded
  <2>2. ASSUME NEW d \in 0..Limit, d # 0
        PROVE  e[d] = One(e[d - 1])
    <3>1. d \in 1..Limit /\ d - 1 \in 0..Limit
      BY <2>2, <1>0
    <3>2. e[d] = Deeper(t, top)[d][e[d - 1]] /\ e[d - 1] \in Below
      BY <1>5, <3>1 DEF Folded
    <3> QED
      BY <1>4, <3>1, <3>2
  <2> QED
    BY <2>1, <2>2
<1>7. Says(exp)
  <2> HIDE DEF Says
  <2> QED
    BY <1>6
<1> HIDE DEF exp
<1>8. /\ exp = [d \in 0..Limit |-> exp[d]]
      /\ \A d \in 0..Limit : exp[d] = IF d = 0 THEN TooDeep(t) ELSE One(exp[d - 1])
  BY <1>7
<1>9. \A d \in 0..Limit : exp[d] \in Below
  <2> DEFINE T == {n \in Nat : n <= Limit => exp[n] \in Below}
  <2>1. 0 \in T
    <3>1. 0 \in 0..Limit
      BY <1>0
    <3>2. exp[0] = TooDeep(t)
      BY <1>8, <3>1
    <3> QED
      BY <1>1, <3>2
  <2>2. ASSUME NEW n \in Nat, n \in T
        PROVE  n + 1 \in T
    <3>1. SUFFICES ASSUME n + 1 <= Limit
                   PROVE  exp[n + 1] \in Below
      OBVIOUS
    <3>2. n + 1 \in 0..Limit /\ n + 1 # 0 /\ (n + 1) - 1 = n
      BY <1>0, <3>1
    <3>3. exp[n + 1] = One(exp[n])
      BY <1>8, <3>2
    <3>4. exp[n] \in Below
      BY <1>0, <2>2, <3>1
    <3> QED
      BY <1>2, <3>3, <3>4
  <2>3. Nat \subseteq T
    <3> HIDE DEF T
    <3> QED
      BY <2>1, <2>2, NumbersFrom0
  <2> QED
    BY <1>0, <2>3
<1>10. exp \in [0..Limit -> Below] /\ exp[0] = TooDeep(t)
  BY <1>0, <1>8, <1>9
<1>11. ASSUME NEW i \in 1..Limit
       PROVE  exp[i] = Deeper(t, top)[i][exp[i - 1]]
  <2>1. i \in 0..Limit /\ i # 0 /\ i - 1 \in 0..Limit
    BY <1>0
  <2>2. exp[i] = One(exp[i - 1])
    BY <1>8, <2>1
  <2> QED
    BY <1>4, <1>9, <2>1, <2>2
<1> QED
  BY <1>3, <1>10, <1>11 DEF Folded

\* The same, in the words of the model.
LEMMA Says ==
  ASSUME NEW t, AllTexts(t), NEW top
  PROVE  /\ \A d \in 0..Limit : Expansion(t, top)[d] \in Below
         /\ \A f \in Files : Expansion(t, top)[0][f]
                              = IF t[f] = Absent THEN <<>> ELSE <<Failure>>
         /\ \A d \in 1..Limit, f \in Files :
              Expansion(t, top)[d][f] = WholeFile(t, top, Expansion(t, top)[d - 1], f)
<1> DEFINE e == Expansion(t, top)
<1>1. Folded(e, Limit, TooDeep(t), Deeper(t, top), Below)
  BY ExpansionFacts
<1> HIDE DEF e
<1>2. \A d \in 0..Limit : e[d] \in Below
  BY <1>1 DEF Folded
<1>3. \A f \in Files : e[0][f] = IF t[f] = Absent THEN <<>> ELSE <<Failure>>
  BY <1>1 DEF Folded, TooDeep
<1>4. ASSUME NEW d \in 1..Limit, NEW f \in Files
      PROVE  e[d][f] = WholeFile(t, top, e[d - 1], f)
  <2>1. d - 1 \in 0..Limit
    BY DepthAssumption DEF Limit
  <2>2. e[d] = Deeper(t, top)[d][e[d - 1]] /\ e[d - 1] \in Below
    BY <1>1, <1>2, <2>1 DEF Folded
  <2> QED
    BY <2>2 DEF Deeper
<1> QED
  BY <1>2, <1>3, <1>4 DEF e

-----------------------------------------------------------------------------
(* ConfigFiles: what the lines of a file set.                              *)

\* Whether a line applies, and whether it is the first to set something, is a matter of
\* the lines up to it.
LEMMA SameStart ==
  ASSUME NEW h, NEW n \in Nat, NEW c, NEW d, \A i \in 1..n : c[i] = d[i]
  PROVE  \A i \in 1..n : /\ IsHost(c, i) <=> IsHost(d, i)
                         /\ Applies(h, c, i) <=> Applies(h, d, i)
                         /\ \A k : Sets(h, c, i, k) <=> Sets(h, d, i, k)
                         /\ \A k : IsFirst(h, c, i, k) <=> IsFirst(h, d, i, k)
<1>1. \A i \in 1..n : IsHost(c, i) <=> IsHost(d, i)
  BY DEF IsHost
<1>2. ASSUME NEW i \in 1..n
      PROVE  Applies(h, c, i) <=> Applies(h, d, i)
  <2>1. \A g \in 1..i : g \in 1..n /\ \A j \in (g + 1)..i : j \in 1..n
    OBVIOUS
  <2>2. \A g \in 1..i : /\ IsHost(c, g) <=> IsHost(d, g)
                        /\ c[g] = d[g]
                        /\ \A j \in (g + 1)..i : IsHost(c, j) <=> IsHost(d, j)
    BY <1>1, <2>1
  <2> QED
    BY <2>2 DEF Applies
<1>3. \A i \in 1..n : \A k : Sets(h, c, i, k) <=> Sets(h, d, i, k)
  BY <1>2 DEF Sets
<1>4. ASSUME NEW i \in 1..n, NEW k
      PROVE  IsFirst(h, c, i, k) <=> IsFirst(h, d, i, k)
  <2>1. \A j \in 1..(i - 1) : j \in 1..n
    OBVIOUS
  <2> QED
    BY <1>3, <2>1 DEF IsFirst
<1> QED
  BY <1>1, <1>2, <1>3, <1>4

\* If a line sets something then one is the first to do so, and only one.
LEMMA FirstIsOne ==
  ASSUME NEW h, NEW c, NEW k, NEW n \in Nat
  PROVE  /\ (\E i \in 1..n : Sets(h, c, i, k)) => \E i \in 1..n : IsFirst(h, c, i, k)
         /\ \A i, j \in 1..n : IsFirst(h, c, i, k) /\ IsFirst(h, c, j, k) => i = j
<1> DEFINE T == {m \in Nat : (\E i \in 1..m : Sets(h, c, i, k))
                               => \E i \in 1..m : IsFirst(h, c, i, k)}
<1>1. 0 \in T
  OBVIOUS
<1>2. ASSUME NEW m \in Nat, m \in T
      PROVE  m + 1 \in T
  <2>1. \A i \in 1..m : i \in 1..m + 1
    OBVIOUS
  <2>2. CASE \E i \in 1..m : Sets(h, c, i, k)
    <3>1. \E i \in 1..m : IsFirst(h, c, i, k)
      BY <1>2, <2>2
    <3>2. \E i \in 1..m + 1 : IsFirst(h, c, i, k)
      BY <2>1, <3>1
    <3> QED
      BY <3>2
  <2>3. CASE ~\E i \in 1..m : Sets(h, c, i, k)
    <3>1. \A i \in 1..m + 1 : Sets(h, c, i, k) => IsFirst(h, c, i, k)
      <4> SUFFICES ASSUME NEW i \in 1..m + 1, Sets(h, c, i, k)
                   PROVE  IsFirst(h, c, i, k)
        OBVIOUS
      <4>1. \A j \in 1..(i - 1) : j \in 1..m
        OBVIOUS
      <4> QED
        BY <2>3, <4>1 DEF IsFirst
    <3> QED
      BY <3>1
  <2> QED
    BY <2>2, <2>3
<1>3. n \in T
  <2> HIDE DEF T
  <2> QED
    BY <1>1, <1>2, NumbersFrom0
<1>4. ASSUME NEW i \in 1..n, NEW j \in 1..n, IsFirst(h, c, i, k), IsFirst(h, c, j, k)
      PROVE  i = j
  <2>1. CASE i < j
    <3>1. i \in 1..(j - 1)
      BY <2>1
    <3> QED
      BY <1>4, <3>1 DEF IsFirst
  <2>2. CASE j < i
    <3>1. j \in 1..(i - 1)
      BY <2>2
    <3> QED
      BY <1>4, <3>1 DEF IsFirst
  <2> QED
    BY <2>1, <2>2
<1> QED
  BY <1>3, <1>4

PlaceOf(x) == [from |-> x.file, line |-> x.line]

IsGiven(g, h, c, n) ==
  /\ g = [k \in DOMAIN g |-> g[k]]
  /\ DOMAIN g = {k \in Fields : \E i \in 1..n : Sets(h, c, i, k)}
  /\ \A k \in DOMAIN g : \E i \in 1..n : IsFirst(h, c, i, k) /\ g[k] = PlaceOf(c[i])

\* Given is where the first line for each setting is.
LEMMA GivenIs ==
  ASSUME NEW h, NEW c \in Seq(AnEntry)
  PROVE  IsGiven(Given(h, c), h, c, Len(c))
<1> DEFINE D == {k \in Fields : \E i \in 1..Len(c) : Sets(h, c, i, k)}
           first(k) == CHOOSE i \in 1..Len(c) : IsFirst(h, c, i, k)
           place(k) == [from |-> c[first(k)].file, line |-> c[first(k)].line]
<1>1. Given(h, c) = [k \in D |-> place(k)]
  BY DEF Given
<1>2. ASSUME NEW k \in D
      PROVE  \E i \in 1..Len(c) : IsFirst(h, c, i, k) /\ place(k) = PlaceOf(c[i])
  <2>1. Len(c) \in Nat
    OBVIOUS
  <2>2. \E i \in 1..Len(c) : IsFirst(h, c, i, k)
    BY <2>1, FirstIsOne
  <2>3. first(k) \in 1..Len(c) /\ IsFirst(h, c, first(k), k)
    BY <2>2
  <2> QED
    BY <2>3 DEF PlaceOf
<1> HIDE DEF D, place
<1> QED
  BY <1>1, <1>2 DEF D, IsGiven

\* One line more that sets something sets it if the line applies and is the first.
LEMMA OneLineMore ==
  ASSUME NEW h, NEW c \in Seq(AnEntry), NEW x \in AnEntry
  PROVE  LET d == Append(c, x)
             new == [k \in {x.what.key} |-> PlaceOf(x)]
         IN /\ d \in Seq(AnEntry)
            /\ Fails(d) <=> Fails(c) \/ x.what.kind = "bad"
            /\ Applies(h, d, Len(d))
                 <=> IF x.what.kind = "host" THEN EvaluateHostMatch(h, x.what.hosts)
                     ELSE Applies(h, c, Len(c))
            /\ Given(h, d) = IF x.what.kind = "setting" /\ Applies(h, c, Len(c))
                             THEN Overlay(Given(h, c), new) ELSE Given(h, c)
<1> DEFINE d == Append(c, x)
           n == Len(c)
           new == [k \in {x.what.key} |-> PlaceOf(x)]
<1>1. /\ d \in Seq(AnEntry) /\ Len(d) = n + 1 /\ n \in Nat /\ d[n + 1] = x /\ Len(c) = n
      /\ \A i \in 1..n : c[i] = d[i]
  OBVIOUS
<1> HIDE DEF d
<1>2. \A i \in 1..n + 1 : i \in 1..n \/ i = n + 1
  OBVIOUS
<1>3. \A i \in 1..n : i \in 1..n + 1
  OBVIOUS
<1>4. Fails(d) <=> Fails(c) \/ x.what.kind = "bad"
  <2>1. n + 1 \in 1..n + 1
    BY <1>1
  <2> QED
    BY <1>1, <1>2, <1>3, <2>1 DEF Fails
<1>5. Applies(h, d, n + 1) <=> IF x.what.kind = "host" THEN EvaluateHostMatch(h, x.what.hosts)
                               ELSE Applies(h, c, n)
  <2>1. IsHost(d, n + 1) <=> x.what.kind = "host"
    BY <1>1 DEF IsHost
  <2>2. n + 1 \in 1..n + 1 /\ \A j \in ((n + 1) + 1)..n + 1 : FALSE
    BY <1>1
  <2>3. \A g \in 1..n : /\ n + 1 \in (g + 1)..n + 1
                        /\ \A j \in (g + 1)..n : j \in (g + 1)..n + 1 /\ j \in 1..n
                        /\ \A j \in (g + 1)..n + 1 : j \in (g + 1)..n \/ j = n + 1
    BY <1>1
  <2>4. \A i \in 1..n : IsHost(c, i) <=> IsHost(d, i)
    BY <1>1 DEF IsHost
  <2>5. CASE x.what.kind = "host"
    <3>1. \A g \in 1..n + 1 : (\A j \in (g + 1)..n + 1 : ~IsHost(d, j)) => g = n + 1
      BY <1>2, <2>1, <2>3, <2>5
    <3> QED
      BY <1>1, <2>1, <2>2, <2>5, <3>1 DEF Applies
  <2>6. CASE x.what.kind # "host"
    <3>1. \A g \in 1..n : (\A j \in (g + 1)..n + 1 : ~IsHost(d, j))
                             <=> (\A j \in (g + 1)..n : ~IsHost(c, j))
      BY <2>1, <2>3, <2>4, <2>6
    <3>2. Applies(h, d, n + 1) => Applies(h, c, n)
      BY <1>1, <1>3, <2>4, <3>1 DEF Applies
    <3>3. Applies(h, c, n) => Applies(h, d, n + 1)
      BY <1>1, <1>2, <2>1, <2>4, <2>6, <3>1 DEF Applies
    <3> QED
      BY <2>6, <3>2, <3>3
  <2> QED
    BY <2>5, <2>6
<1>6. \A k : Sets(h, d, n + 1, k) <=> /\ x.what.kind = "setting" /\ x.what.key = k
                                      /\ Applies(h, c, n)
  <2>1. x.what \in AnyLine
    BY DEF AnEntry
  <2>2. \A k : x.what = Setting(k) <=> x.what.kind = "setting" /\ x.what.key = k
    BY <2>1, LineFacts
  <2> QED
    BY <1>1, <1>5, <2>2 DEF Sets
<1>7. \A i \in 1..n : /\ \A k : Sets(h, c, i, k) <=> Sets(h, d, i, k)
                      /\ \A k : IsFirst(h, c, i, k) <=> IsFirst(h, d, i, k)
  BY <1>1, SameStart
<1>8. IsGiven(Given(h, c), h, c, n)
  BY GivenIs
<1>9. IsGiven(Given(h, d), h, d, n + 1)
  BY <1>1, GivenIs
<1> HIDE DEF n
<1>10. \A k \in DOMAIN Given(h, c) :
         k \in DOMAIN Given(h, d) /\ Given(h, d)[k] = Given(h, c)[k]
  <2> SUFFICES ASSUME NEW k \in DOMAIN Given(h, c)
               PROVE  k \in DOMAIN Given(h, d) /\ Given(h, d)[k] = Given(h, c)[k]
    OBVIOUS
  <2>1. PICK i \in 1..n : IsFirst(h, c, i, k) /\ Given(h, c)[k] = PlaceOf(c[i])
    BY <1>8 DEF IsGiven
  <2>2. i \in 1..n + 1 /\ IsFirst(h, d, i, k) /\ c[i] = d[i]
    BY <1>1, <1>3, <1>7, <2>1
  <2>3. k \in Fields /\ Sets(h, d, i, k)
    BY <1>8, <2>1, <2>2 DEF IsFirst, IsGiven
  <2>4. k \in DOMAIN Given(h, d)
    BY <1>9, <2>2, <2>3 DEF IsGiven
  <2>5. PICK j \in 1..n + 1 : IsFirst(h, d, j, k) /\ Given(h, d)[k] = PlaceOf(d[j])
    BY <1>9, <2>4 DEF IsGiven
  <2>6. i = j
    <3>1. n + 1 \in Nat
      BY <1>1
    <3> QED
      BY <2>2, <2>5, <3>1, FirstIsOne
  <2> QED
    BY <2>1, <2>2, <2>4, <2>5, <2>6
<1>11. ASSUME NEW k \in DOMAIN Given(h, d), k \notin DOMAIN Given(h, c)
      PROVE  /\ x.what.kind = "setting" /\ x.what.key = k /\ Applies(h, c, n)
             /\ Given(h, d)[k] = PlaceOf(x)
  <2>1. PICK i \in 1..n + 1 : IsFirst(h, d, i, k) /\ Given(h, d)[k] = PlaceOf(d[i])
    BY <1>9, <1>11 DEF IsGiven
  <2>2. k \in Fields /\ Sets(h, d, i, k)
    BY <1>11, <1>9, <2>1 DEF IsFirst, IsGiven
  <2>3. i = n + 1
    <3>1. ASSUME i \in 1..n
          PROVE  FALSE
      <4>1. Sets(h, c, i, k)
        BY <1>7, <2>2, <3>1
      <4> QED
        BY <1>8, <1>11, <2>2, <3>1, <4>1 DEF IsGiven
    <3> QED
      BY <1>2, <3>1
  <2> QED
    BY <1>1, <1>6, <2>1, <2>2, <2>3
<1>12. ASSUME x.what.kind = "setting", Applies(h, c, n)
       PROVE  x.what.key \in DOMAIN Given(h, d)
  <2>1. x.what.key \in Fields
    BY <1>12, LineFacts DEF AnEntry
  <2>2. n + 1 \in 1..n + 1 /\ Sets(h, d, n + 1, x.what.key)
    BY <1>1, <1>6, <1>12
  <2> QED
    BY <1>9, <2>1, <2>2 DEF IsGiven
<1>13. CASE x.what.kind = "setting" /\ Applies(h, c, n)
  <2> DEFINE o == Overlay(Given(h, c), new)
  <2>1. o = [k \in DOMAIN Given(h, c) \cup {x.what.key} |->
               IF k \in DOMAIN Given(h, c) THEN Given(h, c)[k] ELSE PlaceOf(x)]
    BY DEF Overlay
  <2>2. DOMAIN Given(h, d) = DOMAIN Given(h, c) \cup {x.what.key}
    BY <1>10, <1>11, <1>12, <1>13
  <2>3. \A k \in DOMAIN Given(h, d) :
          Given(h, d)[k] = IF k \in DOMAIN Given(h, c) THEN Given(h, c)[k] ELSE PlaceOf(x)
    BY <1>10, <1>11
  <2>4. Given(h, d) = [k \in DOMAIN Given(h, d) |-> Given(h, d)[k]]
    BY <1>8, <1>9 DEF IsGiven
  <2> QED
    BY <1>1, <1>4, <1>5, <1>13, <2>1, <2>2, <2>3, <2>4 DEF d
<1>14. CASE ~(x.what.kind = "setting" /\ Applies(h, c, n))
  <2>1. DOMAIN Given(h, d) = DOMAIN Given(h, c)
    BY <1>10, <1>11, <1>14
  <2>2. /\ Given(h, d) = [k \in DOMAIN Given(h, d) |-> Given(h, d)[k]]
        /\ Given(h, c) = [k \in DOMAIN Given(h, c) |-> Given(h, c)[k]]
    BY <1>8, <1>9 DEF IsGiven
  <2>3. Given(h, d) = Given(h, c)
    BY <1>10, <2>1, <2>2
  <2> QED
    BY <1>1, <1>4, <1>5, <1>14, <2>3 DEF d
<1> QED
  BY <1>13, <1>14

-----------------------------------------------------------------------------
(* ConfigFiles: what is left to be read.                                   *)

Frames(t) ==
  {fr \in [file : Files, line : Nat, pending : Seq(Existing(t))] :
     /\ t[fr.file] \in Seq(AnyLine) /\ t[fr.file] \notin {Absent, Unreadable}
     /\ fr.line <= Len(t[fr.file])}

\* By one parser, the ith on the stack, and by a stack of them.
Rest(t, top, i, fr) ==
  LET below == Expansion(t, top)[Limit - i]
  IN AllOf(below, fr.pending) \o LinesAfter(t, top, below, fr.file, fr.line)
Left(t, top, s) ==
  FlattenSeq([j \in 1..Len(s) |->
                Rest(t, top, (Len(s) + 1) - j, s[(Len(s) + 1) - j])])

\* The parts of what one parser has left.
LEMMA RestTyped ==
  ASSUME NEW t, AllTexts(t), NEW top, NEW i \in 1..Limit, NEW fr \in Frames(t)
  PROVE  LET below == Expansion(t, top)[Limit - i]
         IN /\ below \in Below
            /\ AllOf(below, fr.pending) \in Seq(AnEntry)
            /\ LinesAfter(t, top, below, fr.file, fr.line) \in Seq(AnEntry)
            /\ Rest(t, top, i, fr) \in Seq(AnEntry)
<1> DEFINE below == Expansion(t, top)[Limit - i]
<1>1. below \in Below
  <2>1. Limit - i \in 0..Limit
    BY DepthAssumption DEF Limit
  <2> QED
    BY <2>1, Says
<1>2. Rest(t, top, i, fr)
        = AllOf(below, fr.pending) \o LinesAfter(t, top, below, fr.file, fr.line)
  BY DEF Rest
<1> HIDE DEF below
<1>3. /\ fr.file \in Files /\ t[fr.file] \in Seq(AnyLine)
      /\ fr.line \in 0..Len(t[fr.file]) /\ fr.pending \in Seq(Files)
  BY DEF Frames, Existing
<1>4. AllOf(below, fr.pending) \in Seq(AnEntry)
  BY <1>1, <1>3, AllOfFacts DEF Below
<1>5. LinesAfter(t, top, below, fr.file, fr.line) \in Seq(AnEntry)
  BY <1>1, <1>3, LinesAfterFacts
<1>6. Rest(t, top, i, fr) \in Seq(AnEntry)
  BY <1>2, <1>4, <1>5, ConcatFacts
<1> QED
  BY <1>1, <1>4, <1>5, <1>6 DEF below

\* The parser on top of the stack comes first.
LEMMA LeftFacts ==
  ASSUME NEW t, AllTexts(t), NEW top, NEW s \in Seq(Frames(t)), Len(s) < Limit,
         NEW fr \in Frames(t)
  PROVE  /\ Left(t, top, <<>>) = <<>>
         /\ Left(t, top, s) \in Seq(AnEntry)
         /\ Left(t, top, Append(s, fr)) = Rest(t, top, Len(s) + 1, fr) \o Left(t, top, s)
<1> DEFINE n == Len(s)
           r == Append(s, fr)
           f == [j \in 1..n + 1 |-> Rest(t, top, (n + 2) - j, r[(n + 2) - j])]
           g == [j \in 1..n |-> Rest(t, top, (n + 1) - j, s[(n + 1) - j])]
<1>1. /\ n \in Nat /\ n + 1 <= Limit /\ Limit \in Nat
      /\ Len(r) = n + 1 /\ r[n + 1] = fr /\ \A i \in 1..n : r[i] = s[i]
      /\ \A i \in 1..n + 1 : r[i] \in Frames(t)
  <2>1. Limit \in Nat
    BY DepthAssumption DEF Limit
  <2> QED
    BY <2>1
<1> HIDE DEF r
<1>2. \A j \in 1..n + 1 : /\ (n + 2) - j \in 1..n + 1 /\ (n + 2) - j \in 1..Limit
  BY <1>1
<1>3. \A j \in 1..n + 1 : f[j] \in Seq(AnEntry)
  <2>1. \A j \in 1..n + 1 : Rest(t, top, (n + 2) - j, r[(n + 2) - j]) \in Seq(AnEntry)
    BY <1>1, <1>2, RestTyped
  <2> QED
    BY <2>1
<1>4. /\ Left(t, top, s) = FlattenSeq(g)
  BY DEF Left
<1>5. Left(t, top, r) = FlattenSeq(f)
  <2>1. \A j \in 1..n + 1 : (Len(r) + 1) - j = (n + 2) - j
    BY <1>1
  <2>2. [j \in 1..Len(r) |-> Rest(t, top, (Len(r) + 1) - j, r[(Len(r) + 1) - j])] = f
    BY <1>1, <2>1
  <2> QED
    BY <2>2 DEF Left
<1>6. f = Made(f, n + 1)
  BY DEF Made
<1>7. FlattenSeq(Made(f, n + 1)) = f[1] \o FlattenSeq([j \in 1..n |-> f[j + 1]])
  <2>1. n \in Nat
    BY <1>1
  <2> HIDE DEF f, n
  <2> QED
    BY <1>3, <2>1, FlattenFirst
<1>8. \A j \in 1..n : /\ j + 1 \in 1..n + 1 /\ (n + 2) - (j + 1) = (n + 1) - j
                      /\ (n + 1) - j \in 1..n
  BY <1>1
<1>9. \A j \in 1..n : f[j + 1] = g[j]
  BY <1>1, <1>8
<1>10. f[1] = Rest(t, top, n + 1, fr)
  <2>1. 1 \in 1..n + 1 /\ (n + 2) - 1 = n + 1
    BY <1>1
  <2> QED
    BY <1>1, <2>1
<1>11. g \in Seq(Seq(AnEntry))
  <2>1. \A j \in 1..n : g[j] \in Seq(AnEntry)
    <3>1. \A j \in 1..n : f[j + 1] \in Seq(AnEntry)
      <4> HIDE DEF f
      <4> QED
        BY <1>3, <1>8
    <3> HIDE DEF f, g
    <3> QED
      BY <1>9, <3>1
  <2>2. g = [j \in 1..n |-> g[j]]
    OBVIOUS
  <2>3. n \in Nat
    BY <1>1
  <2> HIDE DEF g, n
  <2>4. g \in [1..n -> Seq(AnEntry)]
    BY <2>1, <2>2
  <2> QED
    BY <2>3, <2>4
<1>12. [j \in 1..n |-> f[j + 1]] = g
  <2>1. g = [j \in 1..n |-> g[j]]
    OBVIOUS
  <2> HIDE DEF f, g
  <2> QED
    BY <1>9, <2>1
<1>13. Left(t, top, <<>>) = <<>>
  <2>1. [j \in 1..Len(<<>>) |->
           Rest(t, top, (Len(<<>>) + 1) - j, <<>>[(Len(<<>>) + 1) - j])] = <<>>
    OBVIOUS
  <2> QED
    BY <2>1, FlattenFacts DEF Left
<1> HIDE DEF f, g
<1>14. Left(t, top, s) \in Seq(AnEntry)
  BY <1>4, <1>11, FlattenFacts
<1> QED
  BY <1>4, <1>5, <1>6, <1>7, <1>10, <1>12, <1>13, <1>14 DEF r

\* A stack is the parsers below the top and the top, which is what is replaced.
LEMMA StackFacts ==
  ASSUME NEW S, NEW s \in Seq(S), s # <<>>, NEW fr \in S
  PROVE  /\ Front(s) \in Seq(S) /\ Len(Front(s)) = Len(s) - 1 /\ Len(s) \in Nat \ {0}
         /\ s[Len(s)] \in S /\ s[1] \in S
         /\ s = Append(Front(s), s[Len(s)])
         /\ [s EXCEPT ![Len(s)] = fr] = Append(Front(s), fr)
         /\ \A i \in 1..Len(Front(s)) : Front(s)[i] = s[i]
<1> DEFINE n == Len(s)
           b == Front(s)
<1>1. n \in Nat \ {0} /\ n \in 1..n /\ 1 \in 1..n /\ \A i \in 1..n : s[i] \in S
  OBVIOUS
<1>2. b \in Seq(S) /\ Len(b) = n - 1 /\ \A i \in 1..n - 1 : b[i] = s[i]
  <2>1. b = SubSeq(s, 1, n - 1)
    BY DEF Front
  <2>2. \A i \in 1..n - 1 : s[i] \in S /\ (1 + i) - 1 = i
    BY <1>1
  <2>3. 1 \in Int /\ n - 1 \in Int /\ ((n - 1) - 1) + 1 = n - 1
    BY <1>1
  <2> HIDE DEF b, n
  <2>4. /\ SubSeq(s, 1, n - 1) \in Seq(S)
        /\ Len(SubSeq(s, 1, n - 1)) = IF 1 <= n - 1 THEN ((n - 1) - 1) + 1 ELSE 0
        /\ \A i \in 1..((n - 1) - 1) + 1 : SubSeq(s, 1, n - 1)[i] = s[(1 + i) - 1]
    BY <2>2, <2>3, SubSeqProperties
  <2>5. \A i \in 1..n - 1 : SubSeq(s, 1, n - 1)[i] = s[i]
    BY <2>2, <2>3, <2>4
  <2>6. Len(SubSeq(s, 1, n - 1)) = n - 1
    BY <1>1, <2>3, <2>4
  <2> QED
    BY <2>1, <2>4, <2>5, <2>6
<1> HIDE DEF b
<1>3. ASSUME NEW e \in S
      PROVE  /\ Append(b, e) \in Seq(S) /\ Len(Append(b, e)) = n
             /\ \A i \in 1..n : Append(b, e)[i] = IF i = n THEN e ELSE s[i]
  <2>1. /\ Append(b, e) \in Seq(S) /\ Len(Append(b, e)) = Len(b) + 1
        /\ \A i \in 1..Len(b) : Append(b, e)[i] = b[i]
        /\ Append(b, e)[Len(b) + 1] = e
    BY <1>2, AppendProperties
  <2>2. Len(b) + 1 = n /\ \A i \in 1..n : i = n \/ i \in 1..n - 1
    BY <1>1, <1>2
  <2> HIDE DEF n
  <2> QED
    BY <1>2, <2>1, <2>2
<1>4. /\ [s EXCEPT ![n] = fr] \in Seq(S) /\ Len([s EXCEPT ![n] = fr]) = n
      /\ \A i \in 1..n : [s EXCEPT ![n] = fr][i] = IF i = n THEN fr ELSE s[i]
  BY <1>1, ExceptSeq
<1>5. s = Append(b, s[n])
  <2>1. s[n] \in S
    BY <1>1
  <2>2. /\ Append(b, s[n]) \in Seq(S) /\ Len(Append(b, s[n])) = n
        /\ \A i \in 1..n : Append(b, s[n])[i] = s[i]
    BY <1>3, <2>1
  <2> QED
    BY <2>2, SeqEqual
<1>6. [s EXCEPT ![n] = fr] = Append(b, fr)
  <2> DEFINE r == [s EXCEPT ![n] = fr]
             a == Append(b, fr)
  <2>1. /\ a \in Seq(S) /\ Len(a) = n
        /\ \A i \in 1..n : a[i] = IF i = n THEN fr ELSE s[i]
    BY <1>3
  <2>2. /\ r \in Seq(S) /\ Len(r) = n
        /\ \A i \in 1..n : r[i] = IF i = n THEN fr ELSE s[i]
    BY <1>4
  <2> HIDE DEF r, a
  <2>3. \A i \in 1..Len(r) : r[i] = a[i]
    BY <2>1, <2>2
  <2>4. r = a
    BY <2>1, <2>2, <2>3, SeqEqual
  <2> QED
    BY <2>4 DEF r, a
<1> QED
  BY <1>1, <1>2, <1>5, <1>6 DEF b

-----------------------------------------------------------------------------
(* ConfigFiles: the invariant.                                             *)

FileOrder == IF purpose = "manager" THEN <<"system", "user">> ELSE <<"user", "system">>

\* Files are read one at a time, in the order they are taken in.
InTurn ==
  /\ purpose \in {"manager", "alias"}
  /\ AllTexts(text)
  /\ pc \in {"env", "files", "jobspec", "default", "done"}
  /\ todo \in {FileOrder, Tail(FileOrder), <<>>}
  /\ pc = "env" => todo = FileOrder /\ stack = <<>>
  /\ pc \in {"jobspec", "default", "done"} => todo = <<>>
  /\ pc \in {"jobspec", "default"} => purpose = "manager"
  /\ stack \in Seq(Frames(text)) /\ Len(stack) <= Limit
  /\ stack # <<>> => pc = "files" /\ todo # <<>> /\ stack[1].file = Head(todo)

\* The lines that have been read are what the settings so far come from, and with those
\* that are left they are the file.
AsRead(c) ==
  /\ ~Fails(c)
  /\ accepting <=> Applies(host, c, Len(c))
  /\ data = Given(host, c)
ReadSoFar ==
  stack # <<>> =>
    \E c \in Seq(AnEntry) :
      AsRead(c) /\ Expanded(text, stack[1].file) = c \o Left(text, stack[1].file, stack)

\* What the files say that have been read to the end, the user's first.
InFiles == CASE todo = <<"user">> -> Contents("system")
             [] todo = <<"system">> -> Contents("user")
             [] todo = <<>> -> Overlay(Contents("user"), Contents("system"))
             [] OTHER -> Nothing

\* What the manager has from elsewhere than the command line,
Base == IF host = NoHost THEN layers["default"]
        ELSE Overlay(layers["host"], layers["default"])

\* and what of that the files lie over.
Beneath == IF pc = "done"
           THEN Overlay(FromAll(wishes.env, "env"), FromAll(Fields, "default"))
           ELSE FromAll(wishes.env, "env")

\* o is f laid over g.
LiesOver(o, f, g) ==
  /\ DOMAIN o = DOMAIN f \cup DOMAIN g
  /\ \A k \in DOMAIN f : o[k] = f[k]
  /\ \A k \in DOMAIN g : k \notin DOMAIN f => o[k] = g[k]

LayersAre ==
  /\ layers = [p \in {"default", "host", "global"} |-> layers[p]]
  /\ wishes \in [env : SUBSET Fields, cli : SUBSET Fields, jobspec : SUBSET Fields]
  /\ pc = "env" => /\ \A p \in {"default", "host", "global"} : layers[p] = Nothing
                   /\ wishes.env = {}
  /\ pc \in {"env", "files"} => wishes.cli = {}
  /\ pc \in {"env", "files", "jobspec"} => wishes.jobspec = {}
  /\ LiesOver(layers["global"], FromAll(wishes.jobspec, "jobspec"), FromAll(wishes.cli, "cli"))
  /\ purpose = "manager" => LiesOver(Base, InFiles, Beneath)

\* What an alias lookup has found in the files it has read.
FoundIs ==
  purpose = "alias" =>
    found = IF Lookup \in DOMAIN InFiles THEN InFiles[Lookup] ELSE From("nowhere")
FoundEnds == purpose = "alias" /\ todo # <<>> => Lookup \notin DOMAIN InFiles

ConfigInv == InTurn /\ ReadSoFar /\ LayersAre /\ FoundIs /\ FoundEnds

\* The file at the bottom, what the files say that the one at the top includes, and the
\* parsers below the top.
Bottom == stack[1].file
Under == Expansion(text, Bottom)[Limit - Len(stack)]
Others == Front(stack)

\* The parser on top and the others.
LEMMA AtTop ==
  ASSUME InTurn, stack # <<>>
  PROVE  /\ AllTexts(text) /\ Bottom \in Files /\ Under \in Below
         /\ Len(stack) \in 1..Limit /\ Limit \in Nat
         /\ Top \in Frames(text)
         /\ Others \in Seq(Frames(text)) /\ Len(Others) = Len(stack) - 1
         /\ stack = Append(Others, Top)
         /\ Left(text, Bottom, Others) \in Seq(AnEntry)
         /\ Left(text, Bottom, stack)
              = Rest(text, Bottom, Len(stack), Top) \o Left(text, Bottom, Others)
<1>1. /\ stack \in Seq(Frames(text)) /\ Len(stack) <= Limit /\ AllTexts(text)
  BY DEF InTurn
<1>2. Limit \in Nat
  BY DepthAssumption DEF Limit
<1>3. \A fr \in Frames(text) : fr.file \in Files
  BY DEF Frames
<1>4. /\ Len(stack) \in 1..Limit
      /\ Top \in Frames(text) /\ Bottom \in Files
  <2>1. stack[Len(stack)] \in Frames(text) /\ stack[1] \in Frames(text)
    BY <1>1, StackFacts
  <2>2. Len(stack) \in Nat \ {0}
    BY <1>1
  <2> QED
    BY <1>1, <1>2, <1>3, <2>1, <2>2 DEF Top, Bottom
<1>5. /\ Others \in Seq(Frames(text)) /\ Len(Others) = Len(stack) - 1
      /\ stack = Append(Others, Top)
  BY <1>1, <1>4, StackFacts DEF Others, Top
<1>6. Under \in Below
  BY <1>1, <1>4, RestTyped DEF Under
<1>7. Len(Others) < Limit /\ Len(Others) + 1 = Len(stack)
  BY <1>2, <1>4, <1>5
<1>8. /\ Left(text, Bottom, Others) \in Seq(AnEntry)
      /\ Left(text, Bottom, Append(Others, Top))
           = Rest(text, Bottom, Len(Others) + 1, Top) \o Left(text, Bottom, Others)
  BY <1>1, <1>4, <1>5, <1>7, LeftFacts
<1> QED
  BY <1>1, <1>2, <1>4, <1>5, <1>6, <1>7, <1>8

\* The top may be replaced by another.
LEMMA AtTopReplaced ==
  ASSUME InTurn, stack # <<>>, NEW fr \in Frames(text), fr.file = Top.file
  PROVE  /\ Replace(fr) = Append(Others, fr)
         /\ Replace(fr) \in Seq(Frames(text)) /\ Len(Replace(fr)) = Len(stack)
         /\ Replace(fr) # <<>>
         /\ Replace(fr)[1].file = Bottom
         /\ Left(text, Bottom, Replace(fr))
              = Rest(text, Bottom, Len(stack), fr) \o Left(text, Bottom, Others)
<1>1. stack \in Seq(Frames(text)) /\ AllTexts(text)
  BY DEF InTurn
<1>2. Replace(fr) = Append(Others, fr) /\ \A i \in 1..Len(Others) : Others[i] = stack[i]
  BY <1>1, StackFacts DEF Replace, Others
<1>3. /\ Append(Others, fr) \in Seq(Frames(text)) /\ Len(Append(Others, fr)) = Len(Others) + 1
      /\ \A i \in 1..Len(Others) : Append(Others, fr)[i] = Others[i]
      /\ Append(Others, fr)[Len(Others) + 1] = fr /\ Append(Others, fr) # <<>>
  BY AtTop, AppendProperties
<1>4. Len(Others) + 1 = Len(stack) /\ Len(stack) \in Nat \ {0} /\ Len(Others) < Limit
  BY AtTop
<1>5. Append(Others, fr)[1].file = Bottom
  <2>1. CASE Len(stack) = 1
    <3>1. Append(Others, fr)[1] = fr /\ stack[1] = Top
      BY <1>3, <1>4, <2>1 DEF Top
    <3> QED
      BY <3>1 DEF Bottom
  <2>2. CASE Len(stack) # 1
    <3>1. 1 \in 1..Len(Others)
      BY <1>4, <2>2
    <3> QED
      BY <1>2, <1>3, <3>1 DEF Bottom
  <2> QED
    BY <2>1, <2>2
<1>6. Others \in Seq(Frames(text))
  BY AtTop
<1>7. Left(text, Bottom, Append(Others, fr))
        = Rest(text, Bottom, Len(Others) + 1, fr) \o Left(text, Bottom, Others)
  BY <1>1, <1>4, <1>6, LeftFacts
<1> QED
  BY <1>2, <1>3, <1>4, <1>5, <1>7

Further == [Top EXCEPT !.line = @ + 1]
NextStands == Stands(text, Bottom, Under, Top.file, Top.line + 1)

\* The next line comes first.
LEMMA AtLine ==
  ASSUME InTurn, Reading, ~AtEnd
  PROVE  /\ Line \in AnyLine
         /\ Further \in Frames(text) /\ Further.file = Top.file
         /\ Further.pending = <<>> /\ Further.line = Top.line + 1
         /\ NextStands \in Seq(AnEntry)
         /\ LinesAfter(text, Bottom, Under, Top.file, Top.line + 1) \in Seq(AnEntry)
         /\ Left(text, Bottom, stack)
              = NextStands \o (LinesAfter(text, Bottom, Under, Top.file, Top.line + 1)
                                 \o Left(text, Bottom, Others))
<1>0. stack # <<>> /\ Top.pending = <<>> /\ Top.line # Len(text[Top.file])
  BY DEF Reading, AtEnd
<1>1. /\ Top \in Frames(text) /\ Under \in Below /\ Left(text, Bottom, Others) \in Seq(AnEntry)
      /\ Left(text, Bottom, stack)
           = Rest(text, Bottom, Len(stack), Top) \o Left(text, Bottom, Others)
  BY <1>0, AtTop
<1>2. /\ Top.file \in Files /\ text[Top.file] \in Seq(AnyLine)
      /\ text[Top.file] \notin {Absent, Unreadable} /\ Top.line \in Nat
      /\ Top.line <= Len(text[Top.file]) /\ Len(text[Top.file]) \in Nat
      /\ Top = [file |-> Top.file, line |-> Top.line, pending |-> Top.pending]
  BY <1>1 DEF Frames
<1>3. /\ Top.line \in 0..Len(text[Top.file]) /\ Top.line + 1 \in 0..Len(text[Top.file])
      /\ Top.line + 1 \in 1..Len(text[Top.file])
  BY <1>0, <1>2
<1>4. Line \in AnyLine
  BY <1>2, <1>3 DEF Line
<1>5. Further = [file |-> Top.file, line |-> Top.line + 1, pending |-> Top.pending]
  BY <1>2 DEF Further
<1>6. Further \in Frames(text)
  <2>1. <<>> \in Seq(Existing(text))
    OBVIOUS
  <2>2. Further \in [file : Files, line : Nat, pending : Seq(Existing(text))]
    BY <1>0, <1>2, <1>5, <2>1
  <2> QED
    BY <1>2, <1>3, <1>5, <2>2 DEF Frames
<1>7. /\ NextStands \in Seq(AnEntry)
      /\ LinesAfter(text, Bottom, Under, Top.file, Top.line + 1) \in Seq(AnEntry)
      /\ LinesAfter(text, Bottom, Under, Top.file, Top.line)
           = NextStands \o LinesAfter(text, Bottom, Under, Top.file, Top.line + 1)
  <2>1. NextStands \in Seq(AnEntry)
    BY <1>1, <1>2, <1>3, StandsTyped DEF NextStands
  <2>2. LinesAfter(text, Bottom, Under, Top.file, Top.line + 1) \in Seq(AnEntry)
    BY <1>1, <1>2, <1>3, LinesAfterFacts
  <2>3. LinesAfter(text, Bottom, Under, Top.file, Top.line)
          = Stands(text, Bottom, Under, Top.file, Top.line + 1)
              \o LinesAfter(text, Bottom, Under, Top.file, Top.line + 1)
    <3> DEFINE n == Top.line
               f == Top.file
    <3>1. /\ f \in Files /\ text[f] \in Seq(AnyLine) /\ n \in 0..Len(text[f])
          /\ n # Len(text[f]) /\ Under \in Below
      BY <1>0, <1>1, <1>2, <1>3
    <3> HIDE DEF n, f
    <3>2. LinesAfter(text, Bottom, Under, f, n)
            = Stands(text, Bottom, Under, f, n + 1)
                \o LinesAfter(text, Bottom, Under, f, n + 1)
      BY <3>1, LinesAfterFacts
    <3> QED
      BY <3>2 DEF n, f
  <2> QED
    BY <2>1, <2>2, <2>3 DEF NextStands
<1>8. Rest(text, Bottom, Len(stack), Top)
        = LinesAfter(text, Bottom, Under, Top.file, Top.line)
  <2>1. Rest(text, Bottom, Len(stack), Top)
          = AllOf(Under, Top.pending) \o LinesAfter(text, Bottom, Under, Top.file, Top.line)
    BY DEF Rest, Under
  <2>3. AllOf(Under, Top.pending) = <<>>
    BY <1>0, <1>1, NoNames
  <2>4. LinesAfter(text, Bottom, Under, Top.file, Top.line) \in Seq(AnEntry)
    BY <1>1, <1>2, <1>3, LinesAfterFacts
  <2> QED
    BY <2>1, <2>3, <2>4, ConcatFacts
<1>9. Left(text, Bottom, stack)
        = NextStands \o (LinesAfter(text, Bottom, Under, Top.file, Top.line + 1)
                           \o Left(text, Bottom, Others))
  <2>1. \A a, b, c \in Seq(AnEntry) : (a \o b) \o c = a \o (b \o c)
    BY Grouping, Zenon
  <2>2. Left(text, Bottom, stack)
          = (NextStands \o LinesAfter(text, Bottom, Under, Top.file, Top.line + 1))
              \o Left(text, Bottom, Others)
    BY <1>1, <1>7, <1>8
  <2> QED
    BY <1>1, <1>7, <2>1, <2>2, Zenon
<1> QED
  BY <1>0, <1>4, <1>5, <1>6, <1>7, <1>9

-----------------------------------------------------------------------------
(* ConfigFiles: the steps of the parser.                                   *)

\* While a file is being read nothing is settled.
LEMMA NothingSettled ==
  UNCHANGED <<text, purpose, host, wishes, todo, layers, found, pc>>
    => /\ FileOrder' = FileOrder
       /\ LayersAre' <=> LayersAre
       /\ FoundIs' <=> FoundIs
       /\ FoundEnds' <=> FoundEnds
<1> SUFFICES ASSUME UNCHANGED <<text, purpose, host, wishes, todo, layers, found, pc>>
             PROVE  /\ FileOrder' = FileOrder
                    /\ LayersAre' <=> LayersAre
                    /\ FoundIs' <=> FoundIs
                    /\ FoundEnds' <=> FoundEnds
  OBVIOUS
<1>1. InFiles' = InFiles
  BY DEF InFiles, Contents
<1>2. Base' = Base /\ Beneath' = Beneath
  BY DEF Base, Beneath
<1>3. FileOrder' = FileOrder
  BY DEF FileOrder
<1> QED
  BY <1>1, <1>2, <1>3 DEF LayersAre, FoundIs, FoundEnds

\* c has been read of the file at the bottom and the stack s has the rest of it left.
ReadUpTo(c, s) ==
  /\ c \in Seq(AnEntry) /\ ~Fails(c)
  /\ s \in Seq(Frames(text)) /\ Len(s) <= Limit /\ s # <<>> /\ s[1].file = Bottom
  /\ Expanded(text, Bottom) = c \o Left(text, Bottom, s)

\* If that is so after a step of the parser, the step keeps the invariant.
LEMMA StillReading ==
  ASSUME ConfigInv, stack # <<>>, NEW c, NEW s, ReadUpTo(c, s)
  PROVE  /\ UNCHANGED <<text, purpose, host, wishes, todo, layers, found, pc>>
         /\ stack' = s
         /\ accepting' <=> Applies(host, c, Len(c))
         /\ data' = Given(host, c)
         => ConfigInv'
<1> SUFFICES ASSUME /\ UNCHANGED <<text, purpose, host, wishes, todo, layers, found, pc>>
                    /\ stack' = s
                    /\ accepting' <=> Applies(host, c, Len(c))
                    /\ data' = Given(host, c)
             PROVE  ConfigInv'
  OBVIOUS
<1>1. LayersAre' /\ FoundIs' /\ FoundEnds' /\ FileOrder' = FileOrder
  BY NothingSettled DEF ConfigInv
<1>2. InTurn'
  BY <1>1 DEF ConfigInv, InTurn, ReadUpTo, Bottom
<1>3. ReadSoFar'
  <2>1. s[1].file = Bottom
    BY DEF ReadUpTo
  <2>2. AsRead(c)'
    BY DEF AsRead, ReadUpTo
  <2>3. /\ c \in Seq(AnEntry)
        /\ Expanded(text, s[1].file) = c \o Left(text, s[1].file, s)
    BY <2>1 DEF ReadUpTo
  <2> QED
    BY <2>2, <2>3 DEF ReadSoFar
<1> QED
  BY <1>1, <1>2, <1>3 DEF ConfigInv

\* What has been read of a file.
LEMMA HasRead ==
  ASSUME ConfigInv, stack # <<>>
  PROVE  \E c \in Seq(AnEntry) :
           /\ AsRead(c)
           /\ Expanded(text, Bottom) = c \o Left(text, Bottom, stack)
           /\ ReadUpTo(c, stack)
<1>1. PICK c \in Seq(AnEntry) :
        AsRead(c) /\ Expanded(text, Bottom) = c \o Left(text, Bottom, stack)
  BY DEF ConfigInv, ReadSoFar, Bottom
<1> QED
  BY <1>1 DEF ConfigInv, InTurn, ReadUpTo, AsRead, Bottom

\* One line has been read, which stands for itself.
LEMMA OneLineRead ==
  ASSUME ConfigInv, Reading, ~AtEnd, Line.kind \in {"idle", "host", "setting"},
         NEW c \in Seq(AnEntry), AsRead(c), ReadUpTo(c, stack)
  PROVE  LET x == Entry(text, Top.file, Top.line + 1)
         IN /\ x \in AnEntry /\ x.what = Line
            /\ ReadUpTo(Append(c, x), Replace(Further))
<1> DEFINE x == Entry(text, Top.file, Top.line + 1)
           rest == LinesAfter(text, Bottom, Under, Top.file, Top.line + 1)
           low == Left(text, Bottom, Others)
<1>0. InTurn /\ stack # <<>> /\ Top.pending = <<>>
  BY DEF ConfigInv, Reading
<1>1. /\ Line \in AnyLine /\ Further \in Frames(text) /\ Further.file = Top.file
      /\ Further.pending = <<>> /\ Further.line = Top.line + 1
      /\ NextStands \in Seq(AnEntry) /\ rest \in Seq(AnEntry)
      /\ Left(text, Bottom, stack) = NextStands \o (rest \o low)
  BY <1>0, AtLine
<1>2. x.what = Line /\ x.file = Top.file /\ x.line = Top.line + 1
      /\ x = [file |-> Top.file, line |-> Top.line + 1, what |-> Line]
  BY DEF Entry, Line
<1>3. x \in AnEntry
  <2>1. Further.file \in Files /\ Further.line \in Nat
    BY <1>1 DEF Frames
  <2> QED
    BY <1>1, <1>2, <2>1 DEF AnEntry
<1>4. NextStands = <<x>>
  <2>1. text[Top.file][Top.line + 1].kind \notin {"home", "include"}
    BY DEF Line
  <2> QED
    BY <2>1 DEF NextStands, Stands
<1> HIDE DEF x
<1>5. low \in Seq(AnEntry) /\ Under \in Below
  BY <1>0, AtTop
<1>6. /\ Replace(Further) \in Seq(Frames(text)) /\ Len(Replace(Further)) = Len(stack)
      /\ Replace(Further) # <<>> /\ Replace(Further)[1].file = Bottom
      /\ Left(text, Bottom, Replace(Further))
           = Rest(text, Bottom, Len(stack), Further) \o low
  BY <1>0, <1>1, AtTopReplaced
<1>7. Rest(text, Bottom, Len(stack), Further) = rest
  <2>2. AllOf(Under, Further.pending) = <<>>
    BY <1>1, <1>5, NoNames
  <2>3. Rest(text, Bottom, Len(stack), Further) = AllOf(Under, Further.pending) \o rest
    BY <1>1 DEF Rest, Under
  <2> QED
    BY <1>1, <2>2, <2>3, ConcatFacts
<1> HIDE DEF rest, low
<1>8. c \o Left(text, Bottom, stack) = Append(c, x) \o Left(text, Bottom, Replace(Further))
  <2>1. <<x>> \in Seq(AnEntry) /\ rest \o low \in Seq(AnEntry)
    BY <1>1, <1>3, <1>5, ConcatFacts
  <2>2. Append(c, x) = c \o <<x>>
    BY <1>3
  <2>3. \A a, b, d \in Seq(AnEntry) : (a \o b) \o d = a \o (b \o d)
    BY Grouping, Zenon
  <2>4. (c \o <<x>>) \o (rest \o low) = c \o (<<x>> \o (rest \o low))
    BY <2>1, <2>3, Zenon
  <2> QED
    BY <1>1, <1>4, <1>6, <1>7, <2>2, <2>4
<1>9. Append(c, x) \in Seq(AnEntry) /\ ~Fails(Append(c, x))
  <2>1. ~Fails(c) /\ x.what.kind # "bad"
    BY <1>2 DEF AsRead
  <2>2. Append(c, x) \in Seq(AnEntry)
    BY <1>3
  <2>3. Fails(Append(c, x)) <=> Fails(c) \/ x.what.kind = "bad"
    BY <1>3, OneLineMore
  <2> QED
    BY <2>1, <2>2, <2>3
<1>10. Expanded(text, Bottom) = Append(c, x) \o Left(text, Bottom, Replace(Further))
  BY <1>8 DEF ReadUpTo
<1>11. Len(stack) <= Limit
  BY DEF ReadUpTo
<1>12. ReadUpTo(Append(c, x), Replace(Further))
  BY <1>6, <1>9, <1>10, <1>11 DEF ReadUpTo
<1> QED
  BY <1>2, <1>3, <1>12 DEF x

\* A line is read that stands for itself: accepting and data are what they are to be.
LEMMA OneLineKept ==
  ASSUME ConfigInv, Reading, ~AtEnd, Line.kind \in {"idle", "host", "setting"}
  PROVE  /\ UNCHANGED <<text, purpose, host, wishes, todo, layers, found, pc>>
         /\ stack' = Replace(Further)
         /\ accepting' <=> IF Line.kind = "host" THEN EvaluateHostMatch(host, Line.hosts)
                           ELSE accepting
         /\ data' = IF Line.kind = "setting" /\ accepting
                    THEN Overlay(data, [k \in {Line.key} |->
                                          [from |-> Top.file, line |-> Top.line + 1]])
                    ELSE data
         => ConfigInv'
<1> DEFINE x == Entry(text, Top.file, Top.line + 1)
<1>0. stack # <<>>
  BY DEF Reading
<1>1. PICK c \in Seq(AnEntry) : AsRead(c) /\ ReadUpTo(c, stack)
  BY <1>0, HasRead
<1>2. /\ x \in AnEntry /\ x.what = Line
      /\ ReadUpTo(Append(c, x), Replace(Further))
  BY <1>1, OneLineRead
<1>3. PlaceOf(x) = [from |-> Top.file, line |-> Top.line + 1]
  BY DEF PlaceOf, Entry
<1> DEFINE d == Append(c, x)
<1> HIDE DEF x
<1>4. /\ Applies(host, d, Len(d))
           <=> IF Line.kind = "host" THEN EvaluateHostMatch(host, Line.hosts) ELSE accepting
      /\ Given(host, d)
           = IF Line.kind = "setting" /\ accepting
             THEN Overlay(data, [k \in {Line.key} |-> PlaceOf(x)])
             ELSE data
  <2>1. (accepting <=> Applies(host, c, Len(c))) /\ data = Given(host, c)
    BY <1>1 DEF AsRead
  <2>2. /\ Applies(host, d, Len(d))
             <=> IF Line.kind = "host" THEN EvaluateHostMatch(host, Line.hosts)
                 ELSE Applies(host, c, Len(c))
        /\ Given(host, d)
             = IF Line.kind = "setting" /\ Applies(host, c, Len(c))
               THEN Overlay(Given(host, c), [k \in {Line.key} |-> PlaceOf(x)])
               ELSE Given(host, c)
    BY <1>2, OneLineMore
  <2> HIDE DEF d
  <2> QED
    BY <2>1, <2>2
<1> SUFFICES ASSUME UNCHANGED <<text, purpose, host, wishes, todo, layers, found, pc>>,
                    stack' = Replace(Further),
                    accepting' <=> IF Line.kind = "host"
                                   THEN EvaluateHostMatch(host, Line.hosts) ELSE accepting,
                    data' = IF Line.kind = "setting" /\ accepting
                            THEN Overlay(data, [k \in {Line.key} |->
                                                  [from |-> Top.file, line |-> Top.line + 1]])
                            ELSE data
             PROVE  ConfigInv'
  OBVIOUS
<1>5. ReadUpTo(d, stack')
  BY <1>2
<1>6. (accepting' <=> Applies(host, d, Len(d))) /\ data' = Given(host, d)
  BY <1>3, <1>4
<1> HIDE DEF d
<1> QED
  BY <1>0, <1>5, <1>6, StillReading

\* Each step of the parser in turn: an idle line changes nothing,
LEMMA IdleKeeps == ConfigInv /\ ReadIdle => ConfigInv'
<1> SUFFICES ASSUME ConfigInv, ReadIdle
             PROVE  ConfigInv'
  OBVIOUS
<1>1. /\ Reading /\ ~AtEnd /\ Line.kind = "idle"
      /\ UNCHANGED <<text, purpose, host, wishes, todo, layers, found, pc>>
      /\ stack' = Replace(Further) /\ UNCHANGED <<accepting, data>>
  BY DEF ReadIdle, ReadLine, Advance, Further
<1> QED
  BY <1>1, OneLineKept

\* a Host line decides whether the lines below it apply,
LEMMA HostKeeps == ConfigInv /\ ReadHost => ConfigInv'
<1> SUFFICES ASSUME ConfigInv, ReadHost
             PROVE  ConfigInv'
  OBVIOUS
<1>1. /\ Reading /\ ~AtEnd /\ Line.kind = "host"
      /\ UNCHANGED <<text, purpose, host, wishes, todo, layers, found, pc>>
      /\ stack' = Replace(Further) /\ UNCHANGED data
      /\ accepting' = EvaluateHostMatch(host, Line.hosts)
  BY DEF ReadHost, ReadLine, Advance, Further
<1> QED
  BY <1>1, OneLineKept

\* a setting is taken if it applies and is the first,
LEMMA SettingKeeps == ConfigInv /\ ReadSetting => ConfigInv'
<1> SUFFICES ASSUME ConfigInv, ReadSetting
             PROVE  ConfigInv'
  OBVIOUS
<1>1. /\ Reading /\ ~AtEnd /\ Line.kind = "setting"
      /\ UNCHANGED <<text, purpose, host, wishes, todo, layers, found, pc>>
      /\ stack' = Replace(Further) /\ UNCHANGED accepting
      /\ data' = IF accepting
                 THEN Overlay(data, [k \in {Line.key} |->
                                       [from |-> Top.file, line |-> Top.line + 1]])
                 ELSE data
  BY DEF ReadSetting, ReadLine, Advance, Further
<1> QED
  BY <1>1, OneLineKept

\* At any depth, a file that does not exist says nothing.
LEMMA AbsentIsEmpty ==
  ASSUME NEW t, AllTexts(t), NEW top, NEW d \in 0..Limit, NEW f \in Files, t[f] = Absent
  PROVE  Expansion(t, top)[d][f] = <<>>
<1>1. CASE d = 0
  BY <1>1, Says
<1>2. CASE d # 0
  <2>1. d \in 1..Limit
    BY <1>2, DepthAssumption DEF Limit
  <2>2. Expansion(t, top)[d][f] = WholeFile(t, top, Expansion(t, top)[d - 1], f)
    BY <2>1, Says
  <2>3. Absent # Unreadable
    <3>1. Absent[1].kind = "absent" /\ Unreadable[1].kind = "unreadable"
      BY DEF Absent, Unreadable
    <3> QED
      BY <3>1
  <2> QED
    BY <2>2, <2>3 DEF WholeFile
<1> QED
  BY <1>1, <1>2

\* A parser of which the line and what is pending are replaced.
LEMMA FrameExcept ==
  ASSUME NEW fr, NEW f, NEW n, NEW q, fr = [file |-> f, line |-> n, pending |-> q]
  PROVE  /\ \A r : [fr EXCEPT !.line = @ + 1, !.pending = r]
                    = [file |-> f, line |-> n + 1, pending |-> r]
         /\ \A r : [fr EXCEPT !.pending = r] = [file |-> f, line |-> n, pending |-> r]
         /\ fr.file = f /\ fr.line = n /\ fr.pending = q
<1>1. ASSUME NEW r
      PROVE  [fr EXCEPT !.line = @ + 1, !.pending = r]
               = [file |-> f, line |-> n + 1, pending |-> r]
  <2> DEFINE m == n + 1
             e == [fr EXCEPT !.line = @ + 1, !.pending = r]
  <2>1. e = [x \in {"file", "line", "pending"} |-> e[x]]
    OBVIOUS
  <2>2. e.file = f /\ e.line = m /\ e.pending = r
    OBVIOUS
  <2> HIDE DEF e, m
  <2>3. [file |-> f, line |-> m, pending |-> r]
          = [x \in {"file", "line", "pending"} |-> e[x]]
    BY <2>2
  <2>4. e = [file |-> f, line |-> m, pending |-> r]
    BY <2>1, <2>3
  <2> QED
    BY <2>4 DEF e, m
<1>2. /\ \A r : [fr EXCEPT !.pending = r] = [file |-> f, line |-> n, pending |-> r]
      /\ fr.file = f /\ fr.line = n /\ fr.pending = q
  OBVIOUS
<1> QED
  BY <1>1, <1>2

\* an Include stands for the files it names, those that exist,
LEMMA IncludeKeeps == ConfigInv /\ ReadInclude => ConfigInv'
<1> SUFFICES ASSUME ConfigInv, ReadInclude
             PROVE  ConfigInv'
  OBVIOUS
<1> DEFINE fr == [Top EXCEPT !.line = @ + 1, !.pending = Present(Line.files)]
           rest == LinesAfter(text, Bottom, Under, Top.file, Top.line + 1)
           low == Left(text, Bottom, Others)
<1>1. /\ Reading /\ ~AtEnd /\ stack # <<>>
      /\ Line.kind = "include" \/ (Line.kind = "home" /\ Bottom = "user")
      /\ UNCHANGED <<text, purpose, host, wishes, todo, layers, found, pc>>
      /\ stack' = Replace(fr) /\ UNCHANGED <<accepting, data>>
  BY DEF ReadInclude, ReadLine, Reading, IsUser, Bottom
<1>2. InTurn /\ AllTexts(text)
  BY DEF ConfigInv, InTurn
<1>3. /\ Line \in AnyLine /\ Further \in Frames(text) /\ Further.file = Top.file
      /\ Further.pending = <<>> /\ Further.line = Top.line + 1
      /\ NextStands \in Seq(AnEntry) /\ rest \in Seq(AnEntry)
      /\ Left(text, Bottom, stack) = NextStands \o (rest \o low)
  BY <1>1, <1>2, AtLine
<1>4. /\ low \in Seq(AnEntry) /\ Under \in Below /\ Top \in Frames(text)
      /\ Len(stack) \in 1..Limit /\ Limit \in Nat
  BY <1>1, <1>2, AtTop
<1>5. Line.files \in Seq(Files)
  BY <1>1, <1>3, LineFacts
<1>6. \A f \in Files : text[f] = Absent => Under[f] = <<>>
  <2>1. Limit - Len(stack) \in 0..Limit
    BY <1>4
  <2> QED
    BY <1>2, <2>1, AbsentIsEmpty DEF Under
<1>7. /\ Present(Line.files) \in Seq(Existing(text))
      /\ AllOf(Under, Present(Line.files)) = AllOf(Under, Line.files)
  BY <1>4, <1>5, <1>6, PresentFacts
<1>8. NextStands = AllOf(Under, Line.files)
  BY <1>1 DEF NextStands, Stands, Line
<1>9. fr = [file |-> Top.file, line |-> Top.line + 1, pending |-> Present(Line.files)]
  <2>1. Top = [file |-> Top.file, line |-> Top.line, pending |-> Top.pending]
    BY <1>4 DEF Frames
  <2> QED
    BY <2>1, FrameExcept
<1> HIDE DEF fr
<1>10. fr \in Frames(text) /\ fr.file = Top.file
  <2>1. /\ Top.file \in Files /\ Top.line + 1 \in Nat
        /\ text[Top.file] \in Seq(AnyLine) /\ text[Top.file] \notin {Absent, Unreadable}
        /\ Top.line + 1 <= Len(text[Top.file])
    BY <1>3 DEF Frames
  <2> QED
    BY <1>7, <1>9, <2>1 DEF Frames
<1>11. /\ Replace(fr) \in Seq(Frames(text)) /\ Len(Replace(fr)) = Len(stack)
       /\ Replace(fr) # <<>> /\ Replace(fr)[1].file = Bottom
       /\ Left(text, Bottom, Replace(fr)) = Rest(text, Bottom, Len(stack), fr) \o low
  BY <1>1, <1>2, <1>10, AtTopReplaced
<1>12. Rest(text, Bottom, Len(stack), fr) = NextStands \o rest
  BY <1>7, <1>8, <1>9 DEF Rest, Under
<1> HIDE DEF rest, low
<1>13. Left(text, Bottom, Replace(fr)) = Left(text, Bottom, stack)
  <2>1. \A a, b, d \in Seq(AnEntry) : (a \o b) \o d = a \o (b \o d)
    BY Grouping, Zenon
  <2>2. (NextStands \o rest) \o low = NextStands \o (rest \o low)
    BY <1>3, <1>4, <2>1, Zenon
  <2> QED
    BY <1>3, <1>11, <1>12, <2>2
<1>14. PICK c \in Seq(AnEntry) : AsRead(c) /\ ReadUpTo(c, stack)
  BY <1>1, HasRead
<1>15. ReadUpTo(c, Replace(fr))
  BY <1>11, <1>13, <1>14 DEF ReadUpTo
<1>16. (accepting' <=> Applies(host, c, Len(c))) /\ data' = Given(host, c)
  BY <1>1, <1>14 DEF AsRead
<1> QED
  BY <1>1, <1>15, <1>16, StillReading

\* each of which is read by a parser of its own,
LEMMA OpenIncludedKeeps == ConfigInv /\ OpenIncluded => ConfigInv'
<1> SUFFICES ASSUME ConfigInv, OpenIncluded
             PROVE  ConfigInv'
  OBVIOUS
<1> DEFINE fr == [Top EXCEPT !.pending = Tail(@)]
           g == Head(Top.pending)
           after == LinesAfter(text, Bottom, Under, Top.file, Top.line)
           low == Left(text, Bottom, Others)
           more == AllOf(Under, Tail(Top.pending))
           s == Append(Replace(fr), Parser(g))
<1>1. /\ stack # <<>> /\ Top.pending # <<>> /\ IsText(g) /\ Len(stack) < Limit
      /\ UNCHANGED <<text, purpose, host, wishes, todo, layers, found, pc>>
      /\ stack' = s /\ UNCHANGED <<accepting, data>>
  BY DEF OpenIncluded, Limit
<1>2. InTurn /\ AllTexts(text)
  BY DEF ConfigInv, InTurn
<1>3. /\ low \in Seq(AnEntry) /\ Under \in Below /\ Top \in Frames(text)
      /\ Len(stack) \in 1..Limit /\ Limit \in Nat /\ Bottom \in Files
      /\ Left(text, Bottom, stack) = Rest(text, Bottom, Len(stack), Top) \o low
  BY <1>1, <1>2, AtTop
<1>4. /\ Top.pending \in Seq(Existing(text)) /\ Top.pending \in Seq(Files)
      /\ Tail(Top.pending) \in Seq(Existing(text)) /\ Tail(Top.pending) \in Seq(Files)
      /\ g \in Files
  <2>1. Top.pending \in Seq(Existing(text)) /\ Existing(text) \subseteq Files
    BY <1>3 DEF Frames, Existing
  <2> QED
    BY <1>1, <2>1
<1>5. /\ more \in Seq(AnEntry)
      /\ AllOf(Under, Top.pending) = Under[g] \o more
  BY <1>1, <1>3, <1>4, AllOfFacts DEF Below
<1>6. after \in Seq(AnEntry) /\ Under[g] \in Seq(AnEntry)
  <2>1. after \in Seq(AnEntry)
    BY <1>2, <1>3, RestTyped DEF Under
  <2> QED
    BY <1>3, <1>4, <2>1 DEF Below
<1>7. Rest(text, Bottom, Len(stack), Top) = (Under[g] \o more) \o after
  BY <1>5 DEF Rest, Under
<1>8. fr = [file |-> Top.file, line |-> Top.line, pending |-> Tail(Top.pending)]
  <2>1. Top = [file |-> Top.file, line |-> Top.line, pending |-> Top.pending]
    BY <1>3 DEF Frames
  <2> QED
    BY <2>1, FrameExcept
<1>9. fr \in Frames(text) /\ fr.file = Top.file
  <2>1. /\ Top.file \in Files /\ Top.line \in Nat
        /\ text[Top.file] \in Seq(AnyLine) /\ text[Top.file] \notin {Absent, Unreadable}
        /\ Top.line <= Len(text[Top.file])
    BY <1>3 DEF Frames
  <2> HIDE DEF fr
  <2> QED
    BY <1>4, <1>8, <2>1 DEF Frames
<1> HIDE DEF fr
<1>10. /\ Replace(fr) \in Seq(Frames(text)) /\ Len(Replace(fr)) = Len(stack)
       /\ Replace(fr) # <<>> /\ Replace(fr)[1].file = Bottom
       /\ Left(text, Bottom, Replace(fr)) = Rest(text, Bottom, Len(stack), fr) \o low
  BY <1>1, <1>2, <1>9, AtTopReplaced
<1>11. Rest(text, Bottom, Len(stack), fr) = more \o after
  BY <1>8 DEF Rest, Under
<1>12. Parser(g) \in Frames(text)
  <2>1. Parser(g) = [file |-> g, line |-> 0, pending |-> <<>>]
    BY DEF Parser
  <2>2. text[g] \in Seq(AnyLine) /\ text[g] \notin {Absent, Unreadable}
    BY <1>1, <1>2, <1>4 DEF AllTexts, IsText
  <2>3. <<>> \in Seq(Existing(text)) /\ 0 <= Len(text[g])
    BY <2>2
  <2> HIDE DEF g
  <2> QED
    BY <1>4, <2>1, <2>2, <2>3 DEF Frames
<1>13. Left(text, Bottom, s)
         = Rest(text, Bottom, Len(stack) + 1, Parser(g)) \o Left(text, Bottom, Replace(fr))
  <2> HIDE DEF g
  <2> QED
    BY <1>1, <1>2, <1>10, <1>12, LeftFacts
<1>14. Rest(text, Bottom, Len(stack) + 1, Parser(g)) = Under[g]
  <2> DEFINE below == Expansion(text, Bottom)[Limit - (Len(stack) + 1)]
  <2>1. /\ Limit - Len(stack) \in 1..Limit /\ Limit - (Len(stack) + 1) \in 0..Limit
        /\ (Limit - Len(stack)) - 1 = Limit - (Len(stack) + 1)
        /\ Len(stack) + 1 \in 1..Limit
    BY <1>1, <1>3
  <2>2. below \in Below
    BY <1>2, <2>1, Says
  <2>3. Under[g] = WholeFile(text, Bottom, below, g)
    BY <1>2, <1>4, <2>1, Says DEF Under
  <2> HIDE DEF below, g
  <2>4. Under[g] = LinesAfter(text, Bottom, below, g, 0)
    BY <1>1, <2>3 DEF WholeFile, IsText
  <2>5. Parser(g).pending = <<>> /\ Parser(g).file = g /\ Parser(g).line = 0
    BY DEF Parser
  <2>6. Rest(text, Bottom, Len(stack) + 1, Parser(g))
          = AllOf(below, <<>>) \o LinesAfter(text, Bottom, below, g, 0)
    BY <2>5 DEF Rest, below
  <2>7. AllOf(below, <<>>) = <<>>
    BY <2>2, NoNames
  <2>8. LinesAfter(text, Bottom, below, g, 0) \in Seq(AnEntry)
    BY <1>6, <2>4 DEF g
  <2> QED
    BY <2>4, <2>6, <2>7, <2>8, ConcatFacts
<1> DEFINE said == Under[g]
<1> HIDE DEF after, low, more, s, g, said
<1>15. Left(text, Bottom, s) = Left(text, Bottom, stack)
  <2>1. /\ said \in Seq(AnEntry) /\ more \in Seq(AnEntry) /\ after \in Seq(AnEntry)
        /\ low \in Seq(AnEntry)
    BY <1>3, <1>5, <1>6 DEF said
  <2>2. Regrouped(said, more, after, low)
    BY <2>1, GroupingOfFour
  <2>3. ((said \o more) \o after) \o low = said \o ((more \o after) \o low)
    BY <2>2, Zenon DEF Regrouped
  <2> QED
    BY <1>3, <1>7, <1>10, <1>11, <1>13, <1>14, <2>3 DEF said
<1>16. PICK c \in Seq(AnEntry) : AsRead(c) /\ ReadUpTo(c, stack)
  BY <1>1, HasRead
<1>17. /\ s \in Seq(Frames(text)) /\ Len(s) = Len(stack) + 1 /\ s # <<>>
       /\ s[1].file = Bottom
  <2> DEFINE q == Replace(fr)
             p == Parser(g)
  <2>1. q \in Seq(Frames(text)) /\ p \in Frames(text) /\ q[1].file = Bottom
    BY <1>10, <1>12
  <2>2. 1 \in 1..Len(q) /\ Len(q) = Len(stack)
    BY <1>3, <1>10
  <2> HIDE DEF q, p
  <2>3. /\ Append(q, p) \in Seq(Frames(text)) /\ Len(Append(q, p)) = Len(q) + 1
        /\ Append(q, p) # <<>> /\ \A i \in 1..Len(q) : Append(q, p)[i] = q[i]
    BY <2>1, AppendProperties
  <2> QED
    BY <2>1, <2>2, <2>3 DEF s, q, p
<1>18. ReadUpTo(c, s)
  <2>1. Len(s) <= Limit
    BY <1>1, <1>3, <1>17
  <2> QED
    BY <1>15, <1>16, <1>17, <2>1 DEF ReadUpTo
<1>19. (accepting' <=> Applies(host, c, Len(c))) /\ data' = Given(host, c)
  BY <1>1, <1>16 DEF AsRead
<1> QED
  BY <1>1, <1>18, <1>19, StillReading

\* At its end a parser has nothing left.
LEMMA NothingLeft ==
  ASSUME InTurn, AtEnd
  PROVE  Left(text, Bottom, stack) = Left(text, Bottom, Others)
<1>1. stack # <<>> /\ Top.pending = <<>> /\ Top.line = Len(text[Top.file])
  BY DEF AtEnd, Reading
<1>2. /\ Left(text, Bottom, Others) \in Seq(AnEntry) /\ Under \in Below /\ Top \in Frames(text)
      /\ Left(text, Bottom, stack)
           = Rest(text, Bottom, Len(stack), Top) \o Left(text, Bottom, Others)
  BY <1>1, AtTop
<1>3. /\ Top.file \in Files /\ text[Top.file] \in Seq(AnyLine)
      /\ Top.line \in 0..Len(text[Top.file])
  BY <1>2 DEF Frames
<1>4. LinesAfter(text, Bottom, Under, Top.file, Top.line) = <<>>
  BY <1>1, <1>2, <1>3, LinesAfterFacts
<1>5. AllOf(Under, Top.pending) = <<>>
  BY <1>1, <1>2, NoNames
<1>6. Rest(text, Bottom, Len(stack), Top) = <<>> \o <<>>
  BY <1>4, <1>5 DEF Rest, Under
<1>7. <<>> \in Seq(AnEntry)
  OBVIOUS
<1> QED
  BY <1>2, <1>6, <1>7, ConcatFacts

\* which has nothing left when it gives way to the one below.
LEMMA EndIncludedKeeps == ConfigInv /\ EndIncluded => ConfigInv'
<1> SUFFICES ASSUME ConfigInv, EndIncluded
             PROVE  ConfigInv'
  OBVIOUS
<1>1. /\ AtEnd /\ stack # <<>> /\ Len(stack) > 1
      /\ UNCHANGED <<text, purpose, host, wishes, todo, layers, found, pc>>
      /\ stack' = Others /\ UNCHANGED <<accepting, data>>
  BY DEF EndIncluded, AtEnd, Reading, Others
<1>2. InTurn /\ stack \in Seq(Frames(text))
  BY DEF ConfigInv, InTurn
<1>3. Left(text, Bottom, Others) = Left(text, Bottom, stack)
  BY <1>1, <1>2, NothingLeft
<1>4. /\ Others \in Seq(Frames(text)) /\ Len(Others) = Len(stack) - 1
      /\ Len(stack) \in 1..Limit /\ Limit \in Nat
  BY <1>1, <1>2, AtTop
<1>5. \A i \in 1..Len(Others) : Others[i] = stack[i]
  <2>1. stack[1] \in Frames(text)
    BY <1>1, <1>2, StackFacts
  <2> QED
    BY <1>1, <1>2, <2>1, StackFacts DEF Others
<1>6. Len(Others) <= Limit /\ Others # <<>> /\ Others[1].file = Bottom
  <2>1. 1 \in 1..Len(Others)
    BY <1>1, <1>4
  <2>2. Others[1] = stack[1]
    BY <1>5, <2>1
  <2>3. Others # <<>>
    BY <1>1, <1>4
  <2> QED
    BY <1>4, <2>2, <2>3 DEF Bottom
<1>7. PICK c \in Seq(AnEntry) : AsRead(c) /\ ReadUpTo(c, stack)
  BY <1>1, HasRead
<1>8. ReadUpTo(c, Others)
  BY <1>3, <1>4, <1>6, <1>7 DEF ReadUpTo
<1>9. (accepting' <=> Applies(host, c, Len(c))) /\ data' = Given(host, c)
  BY <1>1, <1>7 DEF AsRead
<1> QED
  BY <1>1, <1>8, <1>9, StillReading

-----------------------------------------------------------------------------
(* ConfigFiles: one file after the other.                                  *)

\* Where the program is in the order of its files.
LEMMA TodoFacts ==
  ASSUME InTurn, todo # <<>>
  PROVE  /\ Head(todo) \in Files
         /\ Tail(todo) \in {Tail(FileOrder), <<>>}
         /\ purpose = "manager" =>
              \/ todo = <<"system", "user">> /\ Tail(todo) = <<"user">>
              \/ todo = <<"user">> /\ Tail(todo) = <<>>
         /\ purpose = "alias" =>
              \/ todo = <<"user", "system">> /\ Tail(todo) = <<"system">>
              \/ todo = <<"system">> /\ Tail(todo) = <<>>
<1>1. \A a, b : Tail(<<a, b>>) = <<b>> /\ Head(<<a, b>>) = a
                /\ Tail(<<b>>) = <<>> /\ Head(<<b>>) = b
  OBVIOUS
<1>2. todo \in {FileOrder, Tail(FileOrder)} /\ purpose \in {"manager", "alias"}
  BY DEF InTurn
<1>3. CASE purpose = "manager"
  <2>1. FileOrder = <<"system", "user">>
    BY <1>3 DEF FileOrder
  <2>2. CASE todo = FileOrder
    <3>1. Head(todo) = "system" /\ Tail(todo) = <<"user">> /\ Tail(todo) = Tail(FileOrder)
      BY <1>1, <2>1, <2>2
    <3> QED
      BY <1>3, <2>1, <2>2, <3>1 DEF Files
  <2>3. CASE todo = Tail(FileOrder)
    <3>1. todo = <<"user">> /\ Head(todo) = "user" /\ Tail(todo) = <<>>
      BY <1>1, <2>1, <2>3
    <3> QED
      BY <1>3, <2>1, <2>3, <3>1 DEF Files
  <2> QED
    BY <1>2, <2>2, <2>3
<1>4. CASE purpose = "alias"
  <2>1. FileOrder = <<"user", "system">>
    BY <1>4 DEF FileOrder
  <2>2. CASE todo = FileOrder
    <3>1. Head(todo) = "user" /\ Tail(todo) = <<"system">> /\ Tail(todo) = Tail(FileOrder)
      BY <1>1, <2>1, <2>2
    <3> QED
      BY <1>4, <2>1, <2>2, <3>1 DEF Files
  <2>3. CASE todo = Tail(FileOrder)
    <3>1. todo = <<"system">> /\ Head(todo) = "system" /\ Tail(todo) = <<>>
      BY <1>1, <2>1, <2>3
    <3> QED
      BY <1>4, <2>1, <2>3, <3>1 DEF Files
  <2> QED
    BY <1>2, <2>2, <2>3
<1> QED
  BY <1>2, <1>3, <1>4

AFunction(f) == f = [k \in DOMAIN f |-> f[k]]

\* Of no lines nothing is given, and no line fails.
LEMMA NoLines ==
  ASSUME NEW h
  PROVE  /\ <<>> \in Seq(AnEntry) /\ Len(<<>>) = 0 /\ ~Fails(<<>>)
         /\ Applies(h, <<>>, 0) /\ Given(h, <<>>) = Nothing
<1>1. <<>> \in Seq(AnEntry) /\ Len(<<>>) = 0
  OBVIOUS
<1>2. ~Fails(<<>>) /\ Applies(h, <<>>, 0)
  BY <1>1 DEF Fails, Applies
<1>3. IsGiven(Given(h, <<>>), h, <<>>, 0)
  BY <1>1, GivenIs
<1>4. Given(h, <<>>) = [k \in DOMAIN Given(h, <<>>) |-> Given(h, <<>>)[k]]
      /\ DOMAIN Given(h, <<>>) = {}
  BY <1>3 DEF IsGiven
<1>5. Given(h, <<>>) = [k \in {} |-> k]
  BY <1>4
<1> QED
  BY <1>1, <1>2, <1>5 DEF Nothing

\* What a file says is a function, and nothing if it is not a text.
LEMMA ContentsFacts ==
  ASSUME AllTexts(text), NEW f \in Files
  PROVE  /\ Expanded(text, f) \in Seq(AnEntry)
         /\ AFunction(Contents(f))
         /\ ~IsText(f) => Contents(f) = Nothing
<1>1. Limit \in 0..Limit /\ Limit \in 1..Limit /\ Limit \in Nat
  BY DepthAssumption DEF Limit
<1>2. Expanded(text, f) \in Seq(AnEntry)
  BY <1>1, Says DEF Expanded, Below, Limit
<1>3. AFunction(Contents(f))
  <2>1. AFunction(Nothing)
    BY DEF Nothing, AFunction
  <2>2. AFunction(Given(host, Expanded(text, f)))
    BY <1>2, GivenIs DEF IsGiven, AFunction
  <2> QED
    BY <2>1, <2>2 DEF Contents
<1>4. ASSUME ~IsText(f)
      PROVE  Contents(f) = Nothing
  <2>1. Expanded(text, f) = WholeFile(text, f, Expansion(text, f)[Limit - 1], f)
    BY <1>1, Says DEF Expanded, Limit
  <2>2. CASE text[f] = Absent
    <3>1. Expanded(text, f) = <<>>
      BY <1>1, <2>2, AbsentIsEmpty DEF Expanded, Limit
    <3> QED
      BY <3>1, NoLines DEF Contents
  <2>3. CASE text[f] # Absent
    <3>1. text[f] = Unreadable
      BY <1>4, <2>3 DEF IsText
    <3>2. Expanded(text, f) = <<Failure>>
      BY <2>1, <2>3, <3>1 DEF WholeFile
    <3>3. <<Failure>>[1] = Failure /\ 1 \in 1..Len(<<Failure>>)
      OBVIOUS
    <3>4. Fails(<<Failure>>)
      BY <3>3, FailureTyped DEF Fails
    <3> QED
      BY <3>2, <3>4 DEF Contents
  <2> QED
    BY <2>2, <2>3
<1> QED
  BY <1>2, <1>3, <1>4

\* A file has been passed, and what the files say is what it says and they did.
LEMMA FilePassed ==
  ASSUME InTurn, todo # <<>>
  PROVE  /\ UNCHANGED <<text, purpose, host>>
         /\ todo' = Tail(todo)
         => /\ purpose = "manager" => InFiles' = Overlay(Contents(Head(todo)), InFiles)
            /\ purpose = "alias" => InFiles' = Overlay(InFiles, Contents(Head(todo)))
<1> SUFFICES ASSUME UNCHANGED <<text, purpose, host>>, todo' = Tail(todo)
             PROVE  /\ purpose = "manager" =>
                         InFiles' = Overlay(Contents(Head(todo)), InFiles)
                    /\ purpose = "alias" =>
                         InFiles' = Overlay(InFiles, Contents(Head(todo)))
  OBVIOUS
<1>1. \A f \in Files : Contents(f)' = Contents(f)
  BY DEF Contents
<1>2. \A a, b, x, y : /\ <<a, b>> # <<x>> /\ <<a, b>> # <<>> /\ <<x>> # <<>>
                      /\ x # y => <<x>> # <<y>>
                      /\ Head(<<a, b>>) = a /\ Head(<<x>>) = x
  OBVIOUS
<1>3. \A f \in Files : AFunction(Contents(f))
  BY ContentsFacts DEF InTurn
<1>4. \A f : AFunction(f) => Overlay(f, Nothing) = f /\ Overlay(Nothing, f) = f
  BY DEF AFunction, Overlay, Nothing
<1>5. "user" \in Files /\ "system" \in Files /\ "user" # "system"
  BY DEF Files
<1>6. CASE purpose = "manager"
  <2>1. CASE todo = <<"system", "user">> /\ Tail(todo) = <<"user">>
    <3>1. InFiles = Nothing
      BY <1>2, <2>1 DEF InFiles
    <3>2. InFiles' = Contents("system")'
      BY <1>2, <1>5, <2>1 DEF InFiles
    <3>3. Head(todo) = "system"
      BY <1>2, <2>1
    <3> QED
      BY <1>1, <1>3, <1>4, <1>5, <1>6, <3>1, <3>2, <3>3
  <2>2. CASE todo = <<"user">> /\ Tail(todo) = <<>>
    <3>1. InFiles = Contents("system")
      BY <1>2, <1>5, <2>2 DEF InFiles
    <3>2. InFiles' = Overlay(Contents("user")', Contents("system")')
      BY <1>2, <2>2 DEF InFiles
    <3>3. Head(todo) = "user"
      BY <1>2, <2>2
    <3> QED
      BY <1>1, <1>5, <1>6, <3>1, <3>2, <3>3
  <2> QED
    BY <1>6, <2>1, <2>2, TodoFacts
<1>7. CASE purpose = "alias"
  <2>1. CASE todo = <<"user", "system">> /\ Tail(todo) = <<"system">>
    <3>1. InFiles = Nothing
      BY <1>2, <2>1 DEF InFiles
    <3>2. InFiles' = Contents("user")'
      BY <1>2, <1>5, <2>1 DEF InFiles
    <3>3. Head(todo) = "user"
      BY <1>2, <2>1
    <3> QED
      BY <1>1, <1>3, <1>4, <1>5, <1>7, <3>1, <3>2, <3>3
  <2>2. CASE todo = <<"system">> /\ Tail(todo) = <<>>
    <3>1. InFiles = Contents("user")
      BY <1>2, <1>5, <2>2 DEF InFiles
    <3>2. InFiles' = Overlay(Contents("user")', Contents("system")')
      BY <1>2, <2>2 DEF InFiles
    <3>3. Head(todo) = "system"
      BY <1>2, <2>2
    <3> QED
      BY <1>1, <1>5, <1>7, <3>1, <3>2, <3>3
  <2> QED
    BY <1>7, <2>1, <2>2, TodoFacts
<1> QED
  BY <1>6, <1>7

\* The bottom of the stack is the file that is to be read next.
LEMMA BottomIsNext ==
  ASSUME InTurn, stack # <<>>
  PROVE  Bottom = Head(todo) /\ todo # <<>> /\ pc = "files" /\ Bottom \in Files
<1>1. stack[1].file = Head(todo) /\ todo # <<>> /\ pc = "files"
  BY DEF InTurn
<1> QED
  BY <1>1, TodoFacts DEF Bottom

\* FirstMatchWins, in one state: a file read to its end has been understood.
LEMMA ReadToTheEnd ==
  ASSUME ConfigInv, AtEnd, Len(stack) = 1
  PROVE  /\ ~Fails(Expanded(text, Bottom)) /\ data = Contents(Bottom)
         /\ Bottom = Head(todo) /\ todo # <<>> /\ pc = "files"
<1>1. InTurn /\ stack # <<>>
  BY DEF ConfigInv, AtEnd, Reading
<1>2. PICK c \in Seq(AnEntry) :
        AsRead(c) /\ Expanded(text, Bottom) = c \o Left(text, Bottom, stack)
  BY <1>1, HasRead
<1>3. Left(text, Bottom, stack) = <<>>
  <2>1. /\ Others \in Seq(Frames(text)) /\ Len(Others) = 0
        /\ Top \in Frames(text) /\ AllTexts(text) /\ Limit \in Nat
        /\ Len(stack) \in 1..Limit
    BY <1>1, AtTop
  <2>2. Others = <<>> /\ Len(Others) < Limit
    BY <2>1
  <2>3. Left(text, Bottom, <<>>) = <<>>
    BY <2>1, <2>2, LeftFacts
  <2> QED
    BY <1>1, <2>2, <2>3, NothingLeft
<1>4. Expanded(text, Bottom) = c
  BY <1>2, <1>3
<1> QED
  BY <1>1, <1>2, <1>4, BottomIsNext DEF AsRead, Contents

\* A file that fails on its way says nothing.
LEMMA FailsOnTheWay ==
  ASSUME ConfigInv, Broken
  PROVE  /\ Contents(Bottom) = Nothing
         /\ stack # <<>> /\ Bottom = Head(todo) /\ todo # <<>> /\ pc = "files"
<1>1. InTurn /\ stack # <<>> /\ AllTexts(text)
  BY DEF ConfigInv, InTurn, Broken, Reading
<1>2. PICK c \in Seq(AnEntry) :
        AsRead(c) /\ Expanded(text, Bottom) = c \o Left(text, Bottom, stack)
  BY <1>1, HasRead
<1>3. /\ Under \in Below /\ Top \in Frames(text) /\ Len(stack) \in 1..Limit /\ Limit \in Nat
      /\ Left(text, Bottom, Others) \in Seq(AnEntry)
      /\ Left(text, Bottom, stack)
           = Rest(text, Bottom, Len(stack), Top) \o Left(text, Bottom, Others)
  BY <1>1, AtTop
<1>4. \E x, r : /\ x \in AnEntry /\ r \in Seq(AnEntry) /\ x.what.kind = "bad"
                /\ Left(text, Bottom, stack) = <<x>> \o r
  <2>1. CASE Reading /\ ~AtEnd /\ (Line.kind = "bad" \/ (Line.kind = "home" /\ ~IsUser))
    <3> DEFINE x == Entry(text, Top.file, Top.line + 1)
               rest == LinesAfter(text, Bottom, Under, Top.file, Top.line + 1)
               low == Left(text, Bottom, Others)
    <3>1. /\ Line \in AnyLine /\ Further \in Frames(text) /\ Further.file = Top.file
          /\ Further.line = Top.line + 1
          /\ rest \in Seq(AnEntry) /\ Left(text, Bottom, stack) = NextStands \o (rest \o low)
      BY <1>1, <2>1, AtLine
    <3>2. rest \o low \in Seq(AnEntry)
      BY <1>3, <3>1, ConcatFacts
    <3>3. CASE Line.kind = "bad"
      <4>1. NextStands = <<x>>
        BY <3>3 DEF NextStands, Stands, Line
      <4>2. x \in AnEntry /\ x.what.kind = "bad"
        <5>1. Further.file \in Files /\ Further.line \in Nat
          BY <3>1 DEF Frames
        <5> QED
          BY <3>1, <3>3, <5>1 DEF Entry, AnEntry, Line
      <4> QED
        BY <3>1, <3>2, <4>1, <4>2
    <3>4. CASE Line.kind = "home" /\ ~IsUser
      <4>1. NextStands = <<Failure>>
        BY <3>4 DEF NextStands, Stands, Line, IsUser, Bottom
      <4> QED
        BY <3>1, <3>2, <4>1, FailureTyped
    <3> QED
      BY <2>1, <3>3, <3>4
  <2>2. CASE /\ Top.pending # <<>>
             /\ IsText(Head(Top.pending)) => Len(stack) = IncludeDepthLimit
    <3> DEFINE g == Head(Top.pending)
               more == AllOf(Under, Tail(Top.pending))
               after == LinesAfter(text, Bottom, Under, Top.file, Top.line)
               low == Left(text, Bottom, Others)
    <3>1. /\ Top.pending \in Seq(Files) /\ Top.pending \in Seq(Existing(text))
          /\ g \in Files /\ text[g] # Absent /\ Tail(Top.pending) \in Seq(Files)
      <4>1. Top.pending \in Seq(Existing(text)) /\ Existing(text) \subseteq Files
        BY <1>3 DEF Frames, Existing
      <4>2. g \in Existing(text)
        BY <2>2, <4>1
      <4> QED
        BY <2>2, <4>1, <4>2 DEF Existing
    <3>2. more \in Seq(AnEntry) /\ AllOf(Under, Top.pending) = Under[g] \o more
      BY <1>3, <2>2, <3>1, AllOfFacts DEF Below
    <3>3. after \in Seq(AnEntry)
      BY <1>1, <1>3, RestTyped DEF Under
    <3>4. Left(text, Bottom, stack) = ((Under[g] \o more) \o after) \o low
      BY <1>3, <3>2 DEF Rest, Under
    <3> HIDE DEF g
    <3>5. Under[g] = <<Failure>>
      <4>1. CASE IsText(g)
        <5>1. Limit - Len(stack) = 0
          BY <1>3, <2>2, <4>1 DEF Limit, g
        <5> QED
          BY <1>1, <3>1, <5>1, Says DEF Under
      <4>2. CASE ~IsText(g)
        <5>1. text[g] = Unreadable
          BY <3>1, <4>2 DEF IsText
        <5>2. CASE Limit - Len(stack) = 0
          BY <1>1, <3>1, <5>2, Says DEF Under
        <5>3. CASE Limit - Len(stack) # 0
          <6>1. Limit - Len(stack) \in 1..Limit
            BY <1>3, <5>3
          <6>2. Under[g] = WholeFile(text, Bottom,
                             Expansion(text, Bottom)[(Limit - Len(stack)) - 1], g)
            BY <1>1, <3>1, <6>1, Says DEF Under
          <6> QED
            BY <3>1, <5>1, <6>2 DEF WholeFile
        <5> QED
          BY <5>2, <5>3
      <4> QED
        BY <4>1, <4>2
    <3> HIDE DEF more, after, low
    <3>6. /\ <<Failure>> \in Seq(AnEntry) /\ more \in Seq(AnEntry)
          /\ after \in Seq(AnEntry) /\ low \in Seq(AnEntry)
      BY <1>3, <3>2, <3>3, FailureTyped DEF low
    <3>7. Regrouped(<<Failure>>, more, after, low)
      BY <3>6, GroupingOfFour
    <3> DEFINE bad == <<Failure>>
    <3> HIDE DEF bad
    <3>8. Left(text, Bottom, stack) = bad \o ((more \o after) \o low)
      BY <3>4, <3>5, <3>7 DEF Regrouped, bad
    <3>9. (more \o after) \o low \in Seq(AnEntry)
      BY <3>7 DEF Regrouped
    <3> QED
      BY <3>8, <3>9, FailureTyped DEF bad
  <2> QED
    BY <2>1, <2>2 DEF Broken
<1>5. Fails(Expanded(text, Bottom))
  <2>1. PICK x, r : /\ x \in AnEntry /\ r \in Seq(AnEntry) /\ x.what.kind = "bad"
                    /\ Left(text, Bottom, stack) = <<x>> \o r
    BY <1>4
  <2> DEFINE e == c \o (<<x>> \o r)
  <2>2. e[Len(c) + 1] = x /\ Len(c) + 1 \in 1..Len(e)
    BY <2>1
  <2>3. Expanded(text, Bottom) = e
    BY <1>2, <2>1
  <2> HIDE DEF e
  <2> QED
    BY <2>1, <2>2, <2>3 DEF Fails
<1> QED
  BY <1>1, <1>5, BottomIsNext DEF Contents

\* Going over to the next file leaves the order of the files as it is.
LEMMA NextInTurn ==
  ASSUME ConfigInv, todo # <<>>, pc = "files"
  PROVE  /\ UNCHANGED <<text, purpose, host, wishes, pc>>
         /\ stack' = <<>> /\ todo' \in {Tail(todo), <<>>}
         => InTurn' /\ ReadSoFar'
<1> SUFFICES ASSUME UNCHANGED <<text, purpose, host, wishes, pc>>,
                    stack' = <<>>, todo' \in {Tail(todo), <<>>}
             PROVE  InTurn' /\ ReadSoFar'
  OBVIOUS
<1>1. InTurn
  BY DEF ConfigInv
<1>2. FileOrder' = FileOrder
  BY DEF FileOrder
<1>3. todo' \in {Tail(FileOrder), <<>>}
  BY <1>1, TodoFacts
<1>4. <<>> \in Seq(Frames(text)) /\ Len(<<>>) = 0 /\ 0 <= Limit
  BY DepthAssumption DEF Limit
<1>5. InTurn'
  BY <1>1, <1>2, <1>3, <1>4 DEF InTurn
<1>6. ReadSoFar'
  BY DEF ReadSoFar
<1> QED
  BY <1>5, <1>6

\* A file that says nothing is passed over.
LEMMA PassedOver ==
  ASSUME ConfigInv, todo # <<>>, pc = "files", Contents(Head(todo)) = Nothing
  PROVE  /\ UNCHANGED <<text, purpose, host, wishes, layers, found, pc>>
         /\ stack' = <<>> /\ todo' = Tail(todo)
         => ConfigInv'
<1> SUFFICES ASSUME UNCHANGED <<text, purpose, host, wishes, layers, found, pc>>,
                    stack' = <<>>, todo' = Tail(todo)
             PROVE  ConfigInv'
  OBVIOUS
<1>1. InTurn /\ purpose \in {"manager", "alias"}
  BY DEF ConfigInv, InTurn
<1>2. InTurn' /\ ReadSoFar'
  BY NextInTurn
<1>3. /\ DOMAIN InFiles' = DOMAIN InFiles
      /\ \A k \in DOMAIN InFiles : InFiles'[k] = InFiles[k]
  <2>1. InFiles' = Overlay(Nothing, InFiles) \/ InFiles' = Overlay(InFiles, Nothing)
    BY <1>1, FilePassed
  <2>2. \A f : LET u == Overlay(Nothing, f)
                   v == Overlay(f, Nothing)
               IN /\ DOMAIN u = DOMAIN f /\ \A k \in DOMAIN f : u[k] = f[k]
                  /\ DOMAIN v = DOMAIN f /\ \A k \in DOMAIN f : v[k] = f[k]
    BY DEF Overlay, Nothing
  <2> QED
    BY <2>1, <2>2
<1>4. Base' = Base /\ Beneath' = Beneath
  BY DEF Base, Beneath
<1>5. LayersAre'
  <2>1. LayersAre
    BY DEF ConfigInv
  <2>2. purpose = "manager" => LiesOver(Base', InFiles', Beneath')
    BY <1>3, <1>4, <2>1 DEF LayersAre, LiesOver
  <2> QED
    BY <2>1, <2>2 DEF LayersAre
<1>6. FoundIs' /\ FoundEnds'
  <2>1. FoundIs'
    BY <1>3 DEF ConfigInv, FoundIs
  <2>2. FoundEnds'
    BY <1>3 DEF ConfigInv, FoundEnds
  <2> QED
    BY <2>1, <2>2
<1> QED
  BY <1>2, <1>5, <1>6 DEF ConfigInv

\* A file that fails is dropped, with all that it included.
LEMMA DropKeeps == ConfigInv /\ Drop => ConfigInv'
<1> SUFFICES ASSUME ConfigInv, Drop
             PROVE  ConfigInv'
  OBVIOUS
<1>1. Broken /\ stack' = <<>> /\ todo' = Tail(todo)
      /\ UNCHANGED <<text, purpose, host, wishes, layers, found, pc>>
  BY DEF Drop
<1>2. Contents(Head(todo)) = Nothing /\ todo # <<>> /\ pc = "files"
  BY <1>1, FailsOnTheWay
<1> QED
  BY <1>1, <1>2, PassedOver

\* A file that is opened is all still to be read.
LEMMA OpenFileKeeps == ConfigInv /\ OpenFile => ConfigInv'
<1> SUFFICES ASSUME ConfigInv, OpenFile
             PROVE  ConfigInv'
  OBVIOUS
<1> DEFINE f == Head(todo)
<1>1. /\ pc = "files" /\ stack = <<>> /\ todo # <<>>
      /\ UNCHANGED <<text, purpose, host, wishes, layers, found, pc>>
  BY DEF OpenFile
<1>2. InTurn /\ AllTexts(text) /\ f \in Files
  BY <1>1, TodoFacts DEF ConfigInv, InTurn
<1>3. CASE ~IsText(f)
  <2>1. Contents(f) = Nothing
    BY <1>2, <1>3, ContentsFacts
  <2>2. stack' = <<>> /\ todo' = Tail(todo)
    BY <1>1, <1>3 DEF OpenFile
  <2> QED
    BY <1>1, <2>1, <2>2, PassedOver
<1>4. CASE IsText(f)
  <2> DEFINE fr == Parser(f)
             below == Expansion(text, f)[Limit - 1]
  <2>1. /\ stack' = <<fr>> /\ accepting' = TRUE /\ data' = Nothing
        /\ UNCHANGED <<text, purpose, host, wishes, todo, layers, found, pc>>
    BY <1>1, <1>4 DEF OpenFile
  <2>2. /\ fr.pending = <<>> /\ fr.file = f /\ fr.line = 0
        /\ fr = [file |-> f, line |-> 0, pending |-> <<>>]
    BY DEF Parser
  <2>3. /\ Limit - 1 \in 0..Limit /\ Limit \in 1..Limit /\ Limit \in Nat /\ 1 \in 1..Limit
        /\ 0 < Limit
    BY DepthAssumption DEF Limit
  <2>4. text[f] \in Seq(AnyLine) /\ text[f] \notin {Absent, Unreadable}
    BY <1>2, <1>4 DEF AllTexts, IsText
  <2> HIDE DEF f
  <2>5. fr \in Frames(text)
    <3>1. <<>> \in Seq(Existing(text)) /\ 0 <= Len(text[f])
      BY <2>4
    <3> HIDE DEF fr
    <3> QED
      BY <1>2, <2>2, <2>4, <3>1 DEF Frames
  <2>6. below \in Below
    BY <1>2, <2>3, Says
  <2>7. Expanded(text, f) = LinesAfter(text, f, below, f, 0)
    <3>1. Expanded(text, f) = WholeFile(text, f, below, f)
      BY <1>2, <2>3, Says DEF Expanded, Limit
    <3> HIDE DEF below
    <3> QED
      BY <2>4, <3>1 DEF WholeFile
  <2> HIDE DEF below
  <2>8. LinesAfter(text, f, below, f, 0) \in Seq(AnEntry)
    BY <1>2, <2>7, ContentsFacts
  <2>9. Rest(text, f, 1, fr) = AllOf(below, <<>>) \o LinesAfter(text, f, below, f, 0)
    BY <2>2 DEF Rest, below
  <2>10. AllOf(below, <<>>) = <<>>
    BY <2>6, NoNames
  <2>11. Rest(text, f, 1, fr) = Expanded(text, f) /\ Expanded(text, f) \in Seq(AnEntry)
    BY <2>7, <2>8, <2>9, <2>10, ConcatFacts
  <2> HIDE DEF fr
  <2>12. Left(text, f, <<fr>>) = Expanded(text, f)
    <3>1. <<>> \in Seq(Frames(text)) /\ Len(<<>>) = 0 /\ Append(<<>>, fr) = <<fr>> /\ 0 + 1 = 1
      OBVIOUS
    <3>2. /\ Left(text, f, <<>>) = <<>>
          /\ Left(text, f, Append(<<>>, fr))
               = Rest(text, f, Len(<<>>) + 1, fr) \o Left(text, f, <<>>)
      BY <1>2, <2>3, <2>5, <3>1, LeftFacts
    <3>3. Left(text, f, <<fr>>) = Expanded(text, f) \o <<>>
      BY <2>11, <3>1, <3>2
    <3> QED
      BY <2>11, <3>3, ConcatFacts
  <2>13. LayersAre' /\ FoundIs' /\ FoundEnds' /\ FileOrder' = FileOrder
    BY <2>1, NothingSettled DEF ConfigInv
  <2>14. <<fr>> \in Seq(Frames(text)) /\ Len(<<fr>>) = 1 /\ <<fr>>[1] = fr /\ <<fr>> # <<>>
    BY <2>5
  <2>15. InTurn'
    <3>1. stack' \in Seq(Frames(text)) /\ Len(stack') <= Limit /\ stack'[1].file = Head(todo)
      BY <2>1, <2>2, <2>3, <2>14 DEF f
    <3> QED
      BY <1>1, <1>2, <2>1, <2>13, <3>1 DEF InTurn
  <2>16. ReadSoFar'
    <3>1. AsRead(<<>>)'
      BY <2>1, NoLines DEF AsRead
    <3>2. Expanded(text, f) = <<>> \o Left(text, f, <<fr>>)
      BY <2>11, <2>12, ConcatFacts
    <3>3. stack'[1].file = f /\ stack' = <<fr>> /\ text' = text
      BY <2>1, <2>2, <2>14
    <3>4. Expanded(text', stack'[1].file) = <<>> \o Left(text', stack'[1].file, stack')
      BY <3>2, <3>3
    <3>5. <<>> \in Seq(AnEntry)
      OBVIOUS
    <3> QED
      BY <3>1, <3>4, <3>5 DEF ReadSoFar
  <2> QED
    BY <2>13, <2>15, <2>16 DEF ConfigInv
<1> QED
  BY <1>3, <1>4

\* That is what Overlay does,
LEMMA OverlayIs ==
  \A f, g : LiesOver(Overlay(f, g), f, g)
  BY DEF Overlay, LiesOver

\* and a layer over two others lies over both of them put together.
LEMMA OverBoth ==
  ASSUME NEW o, NEW f, NEW m, NEW b, NEW top, NEW mid,
         LiesOver(o, f, m), LiesOver(m, mid, b), LiesOver(top, f, mid)
  PROVE  LiesOver(o, top, b)
  BY DEF LiesOver

\* Two layers one over the other are all that they are.
LEMMA OverlaySame ==
  ASSUME NEW o, NEW f, NEW g, LiesOver(o, f, g), o = [k \in DOMAIN o |-> o[k]]
  PROVE  o = Overlay(f, g)
<1>1. LiesOver(Overlay(f, g), f, g)
  BY OverlayIs
<1>2. Overlay(f, g) = [k \in DOMAIN Overlay(f, g) |-> Overlay(f, g)[k]]
  BY DEF Overlay
<1> DEFINE q == Overlay(f, g)
<1> HIDE DEF q
<1>3. DOMAIN o = DOMAIN q /\ \A k \in DOMAIN o : o[k] = q[k]
  BY <1>1 DEF LiesOver, q
<1>4. o = q
  BY <1>2, <1>3 DEF q
<1> QED
  BY <1>4 DEF q

\* Merging into the profile of the host lays what is merged over all that is there.
LEMMA MergeIs ==
  ASSUME LayersAre, NEW dict
  PROVE  UNCHANGED host /\ layers' = Merge(Profile, dict)
         => /\ layers' = [p \in {"default", "host", "global"} |-> layers'[p]]
            /\ layers'["global"] = layers["global"]
            /\ LiesOver(Base', dict, Base)
<1> SUFFICES ASSUME UNCHANGED host, layers' = Merge(Profile, dict)
             PROVE  /\ layers' = [p \in {"default", "host", "global"} |-> layers'[p]]
                    /\ layers'["global"] = layers["global"]
                    /\ LiesOver(Base', dict, Base)
  OBVIOUS
<1>1. layers = [p \in {"default", "host", "global"} |-> layers[p]]
  BY DEF LayersAre
<1>2. /\ Profile \in {"default", "host"}
      /\ layers' = [layers EXCEPT ![Profile] = Overlay(dict, layers[Profile])]
  BY DEF Merge, Profile
<1> DEFINE o == Overlay(dict, layers[Profile])
<1> HIDE DEF o
<1>3. layers' = [layers EXCEPT ![Profile] = o]
  BY <1>2 DEF o
<1>4. /\ layers' = [p \in {"default", "host", "global"} |-> layers'[p]]
      /\ layers'["global"] = layers["global"] /\ layers'[Profile] = o
      /\ host # NoHost => layers'["default"] = layers["default"]
  BY <1>1, <1>2, <1>3 DEF Profile
<1>5. CASE host = NoHost
  <2>1. Base = layers["default"] /\ Base' = o /\ o = Overlay(dict, Base)
    BY <1>4, <1>5 DEF Base, o, Profile
  <2> QED
    BY <1>4, <2>1, OverlayIs
<1>6. CASE host # NoHost
  <2>1. /\ Base = Overlay(layers["host"], layers["default"])
        /\ Base' = Overlay(o, layers["default"]) /\ o = Overlay(dict, layers["host"])
    BY <1>4, <1>6 DEF Base, o, Profile
  <2> DEFINE a == layers["host"]
             b == layers["default"]
  <2> HIDE DEF a, b
  <2>2. Base = Overlay(a, b) /\ Base' = Overlay(o, b) /\ o = Overlay(dict, a)
    BY <2>1 DEF a, b
  <2>3. LiesOver(o, dict, a) /\ LiesOver(Base', o, b) /\ LiesOver(Base, a, b)
    BY <2>2, OverlayIs
  <2>4. LiesOver(Base', dict, Base)
    BY <2>3 DEF LiesOver
  <2> QED
    BY <1>4, <2>4
<1> QED
  BY <1>5, <1>6

\* Manager: the user's file is laid over the system's, and both over the environment.
LEMMA MergeFileKeeps == ConfigInv /\ MergeFile => ConfigInv'
<1> SUFFICES ASSUME ConfigInv, MergeFile
             PROVE  ConfigInv'
  OBVIOUS
<1>1. /\ AtEnd /\ Len(stack) = 1 /\ purpose = "manager"
      /\ layers' = Merge(Profile, data)
      /\ stack' = <<>> /\ todo' = Tail(todo)
      /\ UNCHANGED <<text, purpose, host, wishes, found, pc>>
  BY DEF MergeFile
<1>2. data = Contents(Head(todo)) /\ todo # <<>> /\ pc = "files"
  BY <1>1, ReadToTheEnd
<1>3. InTurn' /\ ReadSoFar'
  BY <1>1, <1>2, NextInTurn
<1>4. InTurn /\ LayersAre
  BY DEF ConfigInv
<1>5. InFiles' = Overlay(data, InFiles)
  BY <1>1, <1>2, <1>4, FilePassed
<1>6. /\ layers' = [p \in {"default", "host", "global"} |-> layers'[p]]
      /\ layers'["global"] = layers["global"]
      /\ LiesOver(Base', data, Base)
  BY <1>1, <1>4, MergeIs
<1>7. LiesOver(InFiles', data, InFiles)
  BY <1>5, OverlayIs
<1>8. LiesOver(Base, InFiles, Beneath) /\ Beneath' = Beneath
  BY <1>1, <1>4 DEF LayersAre, Beneath
<1>9. LiesOver(Base', InFiles', Beneath')
  BY <1>6, <1>7, <1>8, OverBoth
<1>10. LayersAre'
  BY <1>1, <1>2, <1>4, <1>6, <1>9 DEF LayersAre
<1>11. FoundIs' /\ FoundEnds'
  BY <1>1 DEF FoundIs, FoundEnds
<1> QED
  BY <1>3, <1>10, <1>11 DEF ConfigInv

\* SshConfigFiles::get: the first file that has the key has its value.
LEMMA LookupInFileKeeps == ConfigInv /\ LookupInFile => ConfigInv'
<1> SUFFICES ASSUME ConfigInv, LookupInFile
             PROVE  ConfigInv'
  OBVIOUS
<1>1. /\ AtEnd /\ Len(stack) = 1 /\ purpose = "alias" /\ stack' = <<>>
      /\ \/ Lookup \in DOMAIN data /\ found' = data[Lookup] /\ todo' = <<>>
         \/ Lookup \notin DOMAIN data /\ found' = found /\ todo' = Tail(todo)
      /\ UNCHANGED <<text, purpose, host, wishes, layers, pc>>
  BY DEF LookupInFile
<1>2. data = Contents(Head(todo)) /\ todo # <<>> /\ pc = "files"
  BY <1>1, ReadToTheEnd
<1>3. InTurn' /\ ReadSoFar'
  BY <1>1, <1>2, NextInTurn
<1>4. InTurn /\ LayersAre /\ FoundIs /\ FoundEnds
  BY DEF ConfigInv
<1>5. LayersAre'
  BY <1>1, <1>2, <1>4 DEF LayersAre
<1>6. Lookup \notin DOMAIN InFiles /\ found = From("nowhere")
  BY <1>1, <1>2, <1>4 DEF FoundIs, FoundEnds
<1>7. CASE Lookup \notin DOMAIN data
  <2>1. InFiles' = Overlay(InFiles, data)
    BY <1>1, <1>2, <1>4, <1>7, FilePassed
  <2>2. DOMAIN InFiles' = DOMAIN InFiles \cup DOMAIN data
    BY <2>1, OverlayIs DEF LiesOver
  <2>3. FoundIs'
    BY <1>1, <1>6, <1>7, <2>2 DEF FoundIs
  <2>4. FoundEnds'
    BY <1>6, <1>7, <2>2 DEF FoundEnds
  <2> QED
    BY <1>3, <1>5, <2>3, <2>4 DEF ConfigInv
<1>8. CASE Lookup \in DOMAIN data
  <2>1. found' = data[Lookup] /\ todo' = <<>>
    BY <1>1, <1>8
  <2>2. InFiles' = Overlay(Contents("user"), Contents("system"))
    <3>1. Contents("user")' = Contents("user") /\ Contents("system")' = Contents("system")
      BY <1>1 DEF Contents
    <3>2. todo' # <<"user">> /\ todo' # <<"system">>
      BY <2>1
    <3> QED
      BY <2>1, <3>1, <3>2 DEF InFiles
  <2>3. \A a, b, x : /\ Head(<<a, b>>) = a /\ Head(<<x>>) = x /\ <<x>> # <<>>
                     /\ x # a => <<x>> # <<a>>
    OBVIOUS
  <2> DEFINE u == Contents("user")
             y == Contents("system")
  <2>4. LiesOver(InFiles', u, y)
    BY <2>2, OverlayIs
  <2> HIDE DEF u, y
  <2>5. Lookup \in DOMAIN InFiles' /\ InFiles'[Lookup] = data[Lookup]
    <3>1. CASE todo = <<"user", "system">>
      <4>1. data = Contents("user")
        BY <1>2, <2>3, <3>1
      <4> QED
        BY <1>8, <2>4, <4>1 DEF LiesOver, u
    <3>2. CASE todo = <<"system">>
      <4>1. data = Contents("system")
        BY <1>2, <2>3, <3>2
      <4>2. InFiles = Contents("user")
        <5>1. "user" # "system"
          OBVIOUS
        <5> QED
          BY <2>3, <3>2, <5>1 DEF InFiles
      <4> QED
        BY <1>6, <1>8, <2>4, <4>1, <4>2 DEF LiesOver, u, y
    <3> QED
      BY <1>1, <1>2, <1>4, <3>1, <3>2, TodoFacts
  <2>6. FoundIs'
    BY <1>1, <2>1, <2>5 DEF FoundIs
  <2>7. FoundEnds'
    BY <2>1 DEF FoundEnds
  <2> QED
    BY <1>3, <1>5, <2>6, <2>7 DEF ConfigInv
<1> QED
  BY <1>7, <1>8

\* Before the files and after them only the layers change.
LEMMA OnlyLayers ==
  ASSUME ConfigInv, stack = <<>>
  PROVE  /\ UNCHANGED <<text, purpose, host, todo, stack, found>>
         /\ pc' \in {"files", "jobspec", "default", "done"}
         /\ pc' # "files" => todo = <<>>
         /\ pc' \in {"jobspec", "default"} => purpose = "manager"
         => /\ InTurn' /\ ReadSoFar' /\ FoundIs' /\ FoundEnds'
            /\ InFiles' = InFiles /\ FileOrder' = FileOrder
<1> SUFFICES ASSUME UNCHANGED <<text, purpose, host, todo, stack, found>>,
                    pc' \in {"files", "jobspec", "default", "done"},
                    pc' # "files" => todo = <<>>,
                    pc' \in {"jobspec", "default"} => purpose = "manager"
             PROVE  /\ InTurn' /\ ReadSoFar' /\ FoundIs' /\ FoundEnds'
                    /\ InFiles' = InFiles /\ FileOrder' = FileOrder
  OBVIOUS
<1>1. InFiles' = InFiles
  BY DEF InFiles, Contents
<1>2. FileOrder' = FileOrder
  BY DEF FileOrder
<1>3. InTurn'
  BY <1>2 DEF ConfigInv, InTurn
<1>4. ReadSoFar'
  BY DEF ReadSoFar
<1>5. FoundIs' /\ FoundEnds'
  BY <1>1 DEF ConfigInv, FoundIs, FoundEnds
<1> QED
  BY <1>1, <1>2, <1>3, <1>4, <1>5

\* The environment comes first, where every file lies over it.
LEMMA EnvironmentKeeps == ConfigInv /\ Environment => ConfigInv'
<1> SUFFICES ASSUME ConfigInv, Environment
             PROVE  ConfigInv'
  OBVIOUS
<1>1. PICK set \in SUBSET {EnvKey} :
        IF purpose = "manager"
        THEN /\ layers' = Merge("default", FromAll(set, "env"))
             /\ wishes' = [wishes EXCEPT !.env = set]
        ELSE UNCHANGED <<layers, wishes>>
  BY DEF Environment
<1>2. /\ pc = "env" /\ pc' = "files"
      /\ UNCHANGED <<text, purpose, host, todo, stack, accepting, data, found>>
  BY DEF Environment
<1>3. InTurn /\ LayersAre /\ stack = <<>> /\ todo = FileOrder
  BY <1>2 DEF ConfigInv, InTurn
<1>4. InTurn' /\ ReadSoFar' /\ FoundIs' /\ FoundEnds' /\ InFiles' = InFiles
  BY <1>2, <1>3, OnlyLayers
<1>5. LayersAre'
  <2>1. /\ layers = [p \in {"default", "host", "global"} |-> layers[p]]
        /\ \A p \in {"default", "host", "global"} : layers[p] = Nothing
        /\ DOMAIN Nothing = {} /\ wishes.cli = {} /\ wishes.jobspec = {}
        /\ wishes \in [env : SUBSET Fields, cli : SUBSET Fields, jobspec : SUBSET Fields]
    BY <1>2, <1>3 DEF LayersAre, Nothing
  <2>2. CASE purpose # "manager"
    BY <1>1, <1>2, <1>3, <2>1, <2>2 DEF LayersAre
  <2>3. CASE purpose = "manager"
    <3> DEFINE dict == FromAll(set, "env")
               o == Overlay(dict, Nothing)
    <3>1. /\ layers' = [p \in {"default", "host", "global"} |-> layers'[p]]
          /\ layers'["global"] = Nothing /\ layers'["host"] = Nothing
          /\ layers'["default"] = o
      <4>1. layers' = [layers EXCEPT !["default"] = Overlay(dict, layers["default"])]
        BY <1>1, <2>3 DEF Merge
      <4>2. layers' = [layers EXCEPT !["default"] = o]
        BY <2>1, <4>1
      <4> HIDE DEF o, dict
      <4> QED
        BY <2>1, <4>2
    <3>2. /\ wishes' \in [env : SUBSET Fields, cli : SUBSET Fields, jobspec : SUBSET Fields]
          /\ wishes'.env = set /\ wishes'.cli = {} /\ wishes'.jobspec = {}
      BY <1>1, <2>1, <2>3, FieldsAssumption
    <3>3. Beneath' = dict
      BY <1>2, <3>2 DEF Beneath
    <3>4. LiesOver(o, dict, Nothing)
      BY OverlayIs
    <3> HIDE DEF dict, o
    <3>5. LiesOver(Base', Nothing, dict)
      <4>1. LiesOver(o, Nothing, dict)
        BY <2>1, <3>4 DEF LiesOver
      <4>2. CASE host = NoHost
        BY <1>2, <3>1, <4>1, <4>2 DEF Base
      <4>3. CASE host # NoHost
        <5>1. Base' = Overlay(Nothing, o)
          BY <1>2, <3>1, <4>3 DEF Base
        <5>2. LiesOver(Base', Nothing, o)
          BY <5>1, OverlayIs
        <5> QED
          BY <2>1, <4>1, <5>2 DEF LiesOver
      <4> QED
        BY <4>2, <4>3
    <3>6. InFiles = Nothing
      <4>1. \A a, b, x : <<a, b>> # <<x>> /\ <<a, b>> # <<>>
        OBVIOUS
      <4>2. todo = <<"system", "user">>
        BY <1>3, <2>3 DEF FileOrder
      <4> QED
        BY <4>1, <4>2 DEF InFiles
    <3>7. LiesOver(Base', InFiles', Beneath')
      BY <1>4, <3>3, <3>5, <3>6
    <3>8. LiesOver(layers'["global"], FromAll({}, "jobspec"), FromAll({}, "cli"))
      BY <2>1, <3>1 DEF LiesOver, FromAll
    <3> QED
      BY <1>2, <3>1, <3>2, <3>7, <3>8 DEF LayersAre
  <2> QED
    BY <2>2, <2>3
<1> QED
  BY <1>4, <1>5 DEF ConfigInv

\* What the command line gives is laid over what it has given, and nothing else changes.
LEMMA GlobalKeeps ==
  ASSUME ConfigInv, todo = <<>>, purpose = "manager", NEW dict
  PROVE  /\ UNCHANGED host
         /\ InFiles' = InFiles
         /\ pc # "done" /\ pc' # "done" /\ wishes'.env = wishes.env
         /\ layers' = Merge("global", dict)
         => /\ layers' = [p \in {"default", "host", "global"} |-> layers'[p]]
            /\ LiesOver(layers'["global"], dict, layers["global"])
            /\ LiesOver(Base', InFiles', Beneath')
<1> SUFFICES ASSUME UNCHANGED host, InFiles' = InFiles, pc # "done", pc' # "done",
                    wishes'.env = wishes.env, layers' = Merge("global", dict)
             PROVE  /\ layers' = [p \in {"default", "host", "global"} |-> layers'[p]]
                    /\ LiesOver(layers'["global"], dict, layers["global"])
                    /\ LiesOver(Base', InFiles', Beneath')
  OBVIOUS
<1> DEFINE o == Overlay(dict, layers["global"])
<1>1. /\ layers = [p \in {"default", "host", "global"} |-> layers[p]]
      /\ LiesOver(Base, InFiles, Beneath)
  BY DEF ConfigInv, LayersAre
<1>2. layers' = [layers EXCEPT !["global"] = o]
  BY DEF Merge
<1>3. LiesOver(o, dict, layers["global"])
  BY OverlayIs
<1> HIDE DEF o
<1>4. /\ layers' = [p \in {"default", "host", "global"} |-> layers'[p]]
      /\ layers'["default"] = layers["default"] /\ layers'["host"] = layers["host"]
      /\ layers'["global"] = o
  BY <1>1, <1>2
<1>5. Base' = Base /\ Beneath' = Beneath
  BY <1>4 DEF Base, Beneath
<1> QED
  BY <1>1, <1>3, <1>4, <1>5

\* The command line goes on top, its options first
LEMMA CommandLineKeeps == ConfigInv /\ CommandLine => ConfigInv'
<1> SUFFICES ASSUME ConfigInv, CommandLine
             PROVE  ConfigInv'
  OBVIOUS
<1>1. PICK opts \in {{}, {EnvKey, UserKey}} :
        /\ layers' = Merge("global", FromAll(opts, "cli"))
        /\ wishes' = [wishes EXCEPT !.cli = opts]
  BY DEF CommandLine
<1>2. /\ pc = "files" /\ todo = <<>> /\ purpose = "manager" /\ pc' = "jobspec"
      /\ UNCHANGED <<text, purpose, host, todo, stack, accepting, data, found>>
  BY DEF CommandLine
<1>3. stack = <<>>
  BY <1>2 DEF ConfigInv, InTurn
<1>4. InTurn' /\ ReadSoFar' /\ FoundIs' /\ FoundEnds' /\ InFiles' = InFiles
  BY <1>2, <1>3, OnlyLayers
<1>5. LayersAre'
  <2> DEFINE dict == FromAll(opts, "cli")
  <2>1. /\ wishes \in [env : SUBSET Fields, cli : SUBSET Fields, jobspec : SUBSET Fields]
        /\ wishes.cli = {} /\ wishes.jobspec = {}
        /\ LiesOver(layers["global"], FromAll({}, "jobspec"), FromAll({}, "cli"))
    BY <1>2 DEF ConfigInv, LayersAre
  <2>2. /\ wishes' \in [env : SUBSET Fields, cli : SUBSET Fields, jobspec : SUBSET Fields]
        /\ wishes'.env = wishes.env /\ wishes'.cli = opts /\ wishes'.jobspec = {}
    BY <1>1, <2>1, FieldsAssumption
  <2>3. layers' = Merge("global", dict)
    BY <1>1
  <2> HIDE DEF dict
  <2>4. /\ layers' = [p \in {"default", "host", "global"} |-> layers'[p]]
        /\ LiesOver(layers'["global"], dict, layers["global"])
        /\ LiesOver(Base', InFiles', Beneath')
    BY <1>2, <1>4, <2>2, <2>3, GlobalKeeps
  <2>5. DOMAIN FromAll({}, "jobspec") = {} /\ DOMAIN FromAll({}, "cli") = {}
    BY DEF FromAll
  <2>6. LiesOver(layers'["global"], FromAll({}, "jobspec"), dict)
    BY <2>1, <2>4, <2>5 DEF LiesOver
  <2> QED
    BY <1>2, <2>2, <2>4, <2>6 DEF LayersAre, dict
<1> QED
  BY <1>4, <1>5 DEF ConfigInv

\* and then the user named with the host.
LEMMA JobspecKeeps == ConfigInv /\ Jobspec => ConfigInv'
<1> SUFFICES ASSUME ConfigInv, Jobspec
             PROVE  ConfigInv'
  OBVIOUS
<1>1. PICK user \in SUBSET {UserKey} :
        /\ layers' = Merge("global", FromAll(user, "jobspec"))
        /\ wishes' = [wishes EXCEPT !.jobspec = user]
  BY DEF Jobspec, Users
<1>2. /\ pc = "jobspec" /\ pc' = "default"
      /\ UNCHANGED <<text, purpose, host, todo, stack, accepting, data, found>>
  BY DEF Jobspec
<1>3. stack = <<>> /\ todo = <<>> /\ purpose = "manager"
  BY <1>2 DEF ConfigInv, InTurn
<1>4. InTurn' /\ ReadSoFar' /\ FoundIs' /\ FoundEnds' /\ InFiles' = InFiles
  BY <1>2, <1>3, OnlyLayers
<1>5. LayersAre'
  <2> DEFINE dict == FromAll(user, "jobspec")
             options == FromAll(wishes.cli, "cli")
  <2>1. /\ wishes \in [env : SUBSET Fields, cli : SUBSET Fields, jobspec : SUBSET Fields]
        /\ wishes.jobspec = {}
        /\ LiesOver(layers["global"], FromAll({}, "jobspec"), options)
    BY <1>2 DEF ConfigInv, LayersAre
  <2>2. /\ wishes' \in [env : SUBSET Fields, cli : SUBSET Fields, jobspec : SUBSET Fields]
        /\ wishes'.env = wishes.env /\ wishes'.cli = wishes.cli /\ wishes'.jobspec = user
    BY <1>1, <2>1, FieldsAssumption
  <2>3. layers' = Merge("global", dict)
    BY <1>1
  <2> HIDE DEF dict, options
  <2>4. /\ layers' = [p \in {"default", "host", "global"} |-> layers'[p]]
        /\ LiesOver(layers'["global"], dict, layers["global"])
        /\ LiesOver(Base', InFiles', Beneath')
    BY <1>2, <1>3, <1>4, <2>2, <2>3, GlobalKeeps
  <2>5. DOMAIN FromAll({}, "jobspec") = {}
    BY DEF FromAll
  <2>6. LiesOver(layers'["global"], dict, options)
    BY <2>1, <2>4, <2>5 DEF LiesOver
  <2> QED
    BY <1>2, <2>2, <2>4, <2>6 DEF LayersAre, dict, options
<1> QED
  BY <1>4, <1>5 DEF ConfigInv

\* The defaults go below everything.
LEMMA DefaultKeeps == ConfigInv /\ ApplySystemDefault => ConfigInv'
<1> SUFFICES ASSUME ConfigInv, ApplySystemDefault
             PROVE  ConfigInv'
  OBVIOUS
<1> DEFINE dict == FromAll(Fields, "default")
           env == FromAll(wishes.env, "env")
           o == Overlay(layers["default"], dict)
<1>1. /\ pc = "default" /\ pc' = "done" /\ layers' = Join("default", dict)
      /\ UNCHANGED <<text, purpose, host, wishes, todo, stack, accepting, data, found>>
  BY DEF ApplySystemDefault
<1>2. stack = <<>> /\ todo = <<>> /\ purpose = "manager"
  BY <1>1 DEF ConfigInv, InTurn
<1>3. InTurn' /\ ReadSoFar' /\ FoundIs' /\ FoundEnds' /\ InFiles' = InFiles
  BY <1>1, <1>2, OnlyLayers
<1>4. LayersAre'
  <2>1. LayersAre /\ layers = [p \in {"default", "host", "global"} |-> layers[p]]
    BY DEF ConfigInv, LayersAre
  <2>2. layers' = [layers EXCEPT !["default"] = o]
    BY <1>1 DEF Join
  <2>3. LiesOver(o, layers["default"], dict)
    BY OverlayIs
  <2>4. Beneath = env /\ Beneath' = Overlay(env, dict)
    BY <1>1 DEF Beneath
  <2>5. LiesOver(Beneath', env, dict)
    BY <2>4, OverlayIs
  <2> HIDE DEF o, dict, env
  <2>6. /\ layers' = [p \in {"default", "host", "global"} |-> layers'[p]]
        /\ layers'["default"] = o /\ layers'["host"] = layers["host"]
        /\ layers'["global"] = layers["global"]
    BY <2>1, <2>2
  <2>7. LiesOver(Base', Base, dict)
    <3>1. CASE host = NoHost
      BY <1>1, <2>3, <2>6, <3>1 DEF Base
    <3>2. CASE host # NoHost
      <4>1. Base' = Overlay(layers["host"], o)
            /\ Base = Overlay(layers["host"], layers["default"])
        BY <1>1, <2>6, <3>2 DEF Base
      <4>2. /\ LiesOver(Base', layers["host"], o)
            /\ LiesOver(Base, layers["host"], layers["default"])
        BY <4>1, OverlayIs
      <4> QED
        BY <2>3, <4>2 DEF LiesOver
    <3> QED
      BY <3>1, <3>2
  <2>8. LiesOver(Base, InFiles, env)
    BY <1>2, <2>1, <2>4 DEF LayersAre
  <2>9. LiesOver(Base', InFiles', Beneath')
    BY <1>3, <2>5, <2>7, <2>8 DEF LiesOver
  <2> QED
    BY <1>1, <2>1, <2>6, <2>9 DEF LayersAre
<1> QED
  BY <1>3, <1>4 DEF ConfigInv

\* An alias lookup ends where its files do.
LEMMA AnswerKeeps == ConfigInv /\ Answer => ConfigInv'
<1> SUFFICES ASSUME ConfigInv, Answer
             PROVE  ConfigInv'
  OBVIOUS
<1>1. /\ pc = "files" /\ todo = <<>> /\ purpose = "alias" /\ pc' = "done"
      /\ UNCHANGED <<text, purpose, host, wishes, todo, stack, accepting, data, layers, found>>
  BY DEF Answer
<1>2. stack = <<>>
  BY <1>1 DEF ConfigInv, InTurn
<1>3. InTurn' /\ ReadSoFar' /\ FoundIs' /\ FoundEnds' /\ InFiles' = InFiles
  BY <1>1, <1>2, OnlyLayers
<1>4. LayersAre'
  BY <1>1 DEF ConfigInv, LayersAre
<1> QED
  BY <1>3, <1>4 DEF ConfigInv

\* A step that changes nothing keeps the invariant.
LEMMA ConfigStutterKeeps == ConfigInv /\ UNCHANGED ConfigVars => ConfigInv'
<1> SUFFICES ASSUME ConfigInv, UNCHANGED ConfigVars
             PROVE  ConfigInv'
  OBVIOUS
<1>1. /\ UNCHANGED <<text, purpose, host, wishes, todo, stack, accepting, data>>
      /\ UNCHANGED <<layers, found, pc>>
  BY DEF ConfigVars
<1>2. FileOrder' = FileOrder /\ LayersAre' /\ FoundIs' /\ FoundEnds'
  BY <1>1, NothingSettled DEF ConfigInv
<1>3. InTurn'
  BY <1>1, <1>2 DEF ConfigInv, InTurn
<1>4. ReadSoFar'
  <2>1. \A c : AsRead(c)' <=> AsRead(c)
    BY <1>1 DEF AsRead
  <2> QED
    BY <1>1, <2>1 DEF ConfigInv, ReadSoFar
<1> QED
  BY <1>2, <1>3, <1>4 DEF ConfigInv

-----------------------------------------------------------------------------
(* ConfigFiles: the theorems.                                              *)

\* It holds before anything is read,
LEMMA ConfigInitKeeps == ConfigInit => ConfigInv
<1> SUFFICES ASSUME ConfigInit
             PROVE  ConfigInv
  OBVIOUS
<1>1. /\ purpose \in {"manager", "alias"} /\ todo = FileOrder
      /\ stack = <<>> /\ data = Nothing /\ pc = "env" /\ found = From("nowhere")
      /\ layers = [p \in {"default", "host", "global"} |-> Nothing]
      /\ wishes = [env |-> {}, cli |-> {}, jobspec |-> {}]
  BY DEF ConfigInit, FileOrder
<1>2. AllTexts(text)
  <2>1. ASSUME NEW lines, lines \subseteq AnyLine, NEW n \in Nat
        PROVE  Texts(lines, n) \subseteq Seq(AnyLine)
    <3>1. \A m \in 0..n : [1..m -> lines] \subseteq Seq(AnyLine)
      BY <2>1
    <3> QED
      BY <3>1 DEF Texts
  <2>2. /\ UserLines \subseteq AnyLine /\ IncludedLines \subseteq AnyLine
        /\ SystemLines \subseteq AnyLine
    BY DEF AnyLine
  <2>3. /\ Texts(UserLines, MaxLines) \subseteq Seq(AnyLine)
        /\ Texts(IncludedLines, MaxLines) \subseteq Seq(AnyLine)
        /\ Texts(SystemLines, 1) \subseteq Seq(AnyLine)
    BY <2>1, <2>2, DepthAssumption
  <2>4. text \in [user : Texts(UserLines, MaxLines) \cup {Absent},
                  included : Texts(IncludedLines, MaxLines) \cup {Absent, Unreadable},
                  system : Texts(SystemLines, 1) \cup {Unreadable}]
    BY DEF ConfigInit
  <2>5. /\ text["user"] \in Seq(AnyLine) \cup {Absent, Unreadable}
        /\ text["included"] \in Seq(AnyLine) \cup {Absent, Unreadable}
        /\ text["system"] \in Seq(AnyLine) \cup {Absent, Unreadable}
    BY <2>3, <2>4
  <2> QED
    BY <2>5 DEF AllTexts, Files
<1>3. InTurn
  <2>1. <<>> \in Seq(Frames(text)) /\ Len(<<>>) <= Limit
    BY DepthAssumption DEF Limit
  <2> QED
    BY <1>1, <1>2, <2>1 DEF InTurn
<1>4. InFiles = Nothing /\ DOMAIN Nothing = {}
  <2>1. \A a, b, x : <<a, b>> # <<x>> /\ <<a, b>> # <<>>
    OBVIOUS
  <2>2. \E a, b : FileOrder = <<a, b>>
    BY DEF FileOrder
  <2> QED
    BY <1>1, <2>1, <2>2 DEF InFiles, Nothing
<1>5. LayersAre
  <2>1. \A p \in {"default", "host", "global"} : layers[p] = Nothing
    BY <1>1
  <2>2. DOMAIN Base = {}
    <3>1. LiesOver(Overlay(Nothing, Nothing), Nothing, Nothing)
      BY OverlayIs
    <3> QED
      BY <1>4, <2>1, <3>1 DEF Base, LiesOver
  <2>3. \A place : DOMAIN FromAll({}, place) = {}
    BY DEF FromAll
  <2>4. /\ LiesOver(Base, InFiles, Beneath)
        /\ LiesOver(layers["global"], FromAll({}, "jobspec"), FromAll({}, "cli"))
    BY <1>1, <1>4, <2>1, <2>2, <2>3 DEF LiesOver, Beneath
  <2> QED
    BY <1>1, <2>1, <2>4 DEF LayersAre
<1>6. ReadSoFar /\ FoundIs /\ FoundEnds
  BY <1>1, <1>4 DEF ReadSoFar, FoundIs, FoundEnds
<1> QED
  BY <1>3, <1>5, <1>6 DEF ConfigInv

\* and every step keeps it.
LEMMA ConfigStepKeeps == ConfigInv /\ [ConfigNext]_ConfigVars => ConfigInv'
  BY EnvironmentKeeps, OpenFileKeeps, IdleKeeps, HostKeeps, SettingKeeps, IncludeKeeps,
     OpenIncludedKeeps, EndIncludedKeeps, DropKeeps, MergeFileKeeps, LookupInFileKeeps,
     CommandLineKeeps, JobspecKeeps, DefaultKeeps, AnswerKeeps, ConfigStutterKeeps
     DEF ConfigNext, Step, Read, Stutter

\* files.rs Parser and manager.rs Manager: what has been read of a file is, with what the
\* parsers on the stack have left, the file with its Includes expanded; and the settings
\* that have been merged so far are those of the files that have been read.
THEOREM ConfigInvariance == ConfigSpec => []ConfigInv
<1>1. ConfigInit => ConfigInv
  BY ConfigInitKeeps
<1>2. ConfigInv /\ [ConfigNext]_ConfigVars => ConfigInv'
  BY ConfigStepKeeps
<1> QED
  BY <1>1, <1>2, PTL DEF ConfigSpec

\* files.rs Parser::parse_file_for: whatever the files hold and however they include each
\* other, a file that is read to its end has given, for each key, the first line of its
\* expanded text that applies to the host.
THEOREM FirstMatchAlwaysWins == ConfigSpec => []FirstMatchWins
<1>1. ConfigInv => FirstMatchWins
  BY ReadToTheEnd DEF FirstMatchWins, Bottom
<1> QED
  BY <1>1, ConfigInvariance, PTL

\* manager.rs Manager and client/ssh.rs SshConfigFiles::get: where a value comes from.
\* The user named with the host goes before the options, these before the user's file,
\* then come the system's, the environment and the defaults.
THEOREM PrecedenceAlwaysKept == ConfigSpec => []PrecedenceKept
<1>1. ConfigInv => PrecedenceKept
  <2> SUFFICES ASSUME ConfigInv, pc = "done"
               PROVE  PrecedenceKept
    BY DEF PrecedenceKept
  <2> DEFINE inFiles == Overlay(Contents("user"), Contents("system"))
             global == layers["global"]
             user == FromAll(wishes.jobspec, "jobspec")
             options == FromAll(wishes.cli, "cli")
             beneath == Overlay(FromAll(wishes.env, "env"), FromAll(Fields, "default"))
  <2>1. todo = <<>> /\ purpose \in {"manager", "alias"}
    BY DEF ConfigInv, InTurn
  <2>2. InFiles = inFiles
    <3>1. todo # <<"user">> /\ todo # <<"system">>
      BY <2>1
    <3> QED
      BY <2>1, <3>1 DEF InFiles
  <2> HIDE DEF inFiles
  <2>3. CASE purpose = "alias"
    BY <2>2, <2>3 DEF ConfigInv, FoundIs, PrecedenceKept, inFiles
  <2>4. CASE purpose = "manager"
    <3>1. LiesOver(global, user, options) /\ LiesOver(Base, inFiles, beneath)
      BY <2>2, <2>4 DEF ConfigInv, LayersAre, Beneath
    <3>2. Extracted = Overlay(global, Base)
      BY DEF Extracted, Base
    <3> DEFINE below == Overlay(inFiles, beneath)
    <3>3. /\ LiesOver(Extracted, global, Base)
          /\ Extracted = [k \in DOMAIN Extracted |-> Extracted[k]]
      <4>1. \A f, g : Overlay(f, g) = [k \in DOMAIN Overlay(f, g) |-> Overlay(f, g)[k]]
        BY DEF Overlay
      <4> QED
        BY <3>2, <4>1, OverlayIs
    <3>4. LiesOver(Overlay(options, below), options, below) /\ LiesOver(below, inFiles, beneath)
      BY OverlayIs
    <3> HIDE DEF global, user, options, beneath, below
    <3>5. LiesOver(Extracted, user, Overlay(options, below))
      BY <3>1, <3>3, <3>4 DEF LiesOver
    <3>6. Extracted = Overlay(user, Overlay(options, below))
      BY <3>3, <3>5, OverlaySame
    <3> QED
      BY <2>4, <3>6 DEF PrecedenceKept, inFiles, below, beneath, user, options
  <2> QED
    BY <2>1, <2>3, <2>4
<1> QED
  BY <1>1, ConfigInvariance, PTL

\* What the invariant does not say of the types.
Typed ==
  /\ host \in Host \cup {NoHost} /\ accepting \in BOOLEAN
  /\ DOMAIN data \subseteq Fields /\ \A k \in DOMAIN data : data[k] \in Source
  /\ found \in Source

\* The types, by the invariant.
LEMMA TypedStep ==
  ConfigInv /\ Typed /\ [ConfigNext]_ConfigVars => Typed'
<1> SUFFICES ASSUME ConfigInv, Typed, [ConfigNext]_ConfigVars
             PROVE  Typed'
  OBVIOUS
<1>1. \A x : From(x) = [from |-> x, line |-> 0]
  BY DEF From
<1>2. CASE UNCHANGED <<host, accepting, data, found>>
  BY <1>2 DEF Typed
<1>3. CASE OpenFile
  <2>1. /\ UNCHANGED <<host, found>>
        /\ \/ accepting' = TRUE /\ data' = Nothing
           \/ UNCHANGED <<accepting, data>>
    BY <1>3 DEF OpenFile
  <2>2. DOMAIN Nothing = {}
    BY DEF Nothing
  <2> QED
    BY <2>1, <2>2 DEF Typed
<1>4. CASE ReadHost
  <2>1. UNCHANGED <<host, data, found>> /\ accepting' = EvaluateHostMatch(host, Line.hosts)
    BY <1>4 DEF ReadHost, ReadLine
  <2>2. EvaluateHostMatch(host, Line.hosts) \in BOOLEAN
    <3>1. (Pat(FALSE, "*") \in Line.hosts) \in BOOLEAN
      OBVIOUS
    <3>2. (\E p \in Line.hosts : MatchOnePattern(host, p)) \in BOOLEAN
      BY Zenon
    <3> QED
      BY <3>1, <3>2, Zenon DEF EvaluateHostMatch
  <2> QED
    BY <2>1, <2>2 DEF Typed
<1>5. CASE ReadSetting
  <2> DEFINE new == [k \in {Line.key} |-> [from |-> Top.file, line |-> Top.line + 1]]
  <2>1. /\ Reading /\ ~AtEnd /\ Line.kind = "setting"
        /\ UNCHANGED <<host, found, accepting>>
        /\ data' = IF accepting THEN Overlay(data, new) ELSE data
    BY <1>5 DEF ReadSetting, ReadLine
  <2>2. /\ Line \in AnyLine /\ Further \in Frames(text) /\ Further.file = Top.file
        /\ Further.line = Top.line + 1
    BY <2>1, AtLine DEF ConfigInv
  <2>3. Line.key \in Fields /\ Top.file \in Files /\ Top.line + 1 \in Nat
    BY <2>1, <2>2, LineFacts DEF Frames
  <2>4. DOMAIN new \subseteq Fields /\ \A k \in DOMAIN new : new[k] \in Source
    BY <2>3 DEF Source
  <2>5. LiesOver(Overlay(data, new), data, new)
    BY OverlayIs
  <2> HIDE DEF new
  <2>6. CASE accepting
    BY <2>1, <2>4, <2>5, <2>6 DEF Typed, LiesOver
  <2>7. CASE ~accepting
    BY <2>1, <2>7 DEF Typed
  <2> QED
    BY <2>6, <2>7 DEF Typed
<1>6. CASE LookupInFile
  <2>1. UNCHANGED <<host, accepting, data>>
        /\ \/ found' = found
           \/ Lookup \in DOMAIN data /\ found' = data[Lookup]
    BY <1>6 DEF LookupInFile
  <2> QED
    BY <2>1 DEF Typed
<1>7. CASE \/ Environment \/ ReadIdle \/ ReadInclude \/ OpenIncluded \/ EndIncluded
           \/ Drop \/ MergeFile \/ CommandLine \/ Jobspec \/ ApplySystemDefault \/ Answer
           \/ Stutter \/ UNCHANGED ConfigVars
  <2>1. UNCHANGED <<host, accepting, data, found>>
    BY <1>7 DEF Environment, ReadIdle, ReadInclude, ReadLine, OpenIncluded, EndIncluded, Drop,
       MergeFile, CommandLine, Jobspec, ApplySystemDefault, Answer, Stutter, ConfigVars
  <2> QED
    BY <1>2, <2>1
<1> QED
  BY <1>3, <1>4, <1>5, <1>6, <1>7 DEF ConfigNext, Step, Read

\* The types of the variables, and the parsers' place in their files.
THEOREM ConfigTypeCorrect == ConfigSpec => []ConfigTypeOK
<1>1. ConfigInit => Typed
  <2>1. From("nowhere") \in Source /\ DOMAIN Nothing = {}
    BY DEF From, Source, Nothing
  <2> QED
    BY <2>1 DEF ConfigInit, Typed
<1>2. ConfigInv /\ Typed => ConfigTypeOK
  <2> SUFFICES ASSUME ConfigInv, Typed
               PROVE  ConfigTypeOK
    OBVIOUS
  <2>1. /\ purpose \in {"manager", "alias"}
        /\ pc \in {"env", "files", "jobspec", "default", "done"}
        /\ todo \in {FileOrder, Tail(FileOrder), <<>>}
        /\ stack \in Seq(Frames(text)) /\ Len(stack) <= IncludeDepthLimit
    BY DEF ConfigInv, InTurn, Limit
  <2>2. Len(todo) <= 2
    <3>1. \A a, b : Len(<<a, b>>) = 2 /\ Len(Tail(<<a, b>>)) = 1
      OBVIOUS
    <3>2. Len(FileOrder) = 2 /\ Len(Tail(FileOrder)) = 1
      BY <3>1 DEF FileOrder
    <3>3. Len(<<>>) = 0
      OBVIOUS
    <3>4. Len(todo) \in {0, 1, 2}
      <4>1. CASE todo = FileOrder
        BY <3>2, <4>1
      <4>2. CASE todo = Tail(FileOrder)
        BY <3>2, <4>2
      <4>3. CASE todo = <<>>
        BY <3>3, <4>3
      <4> QED
        BY <2>1, <4>1, <4>2, <4>3
    <3>5. \A n \in {0, 1, 2} : n <= 2
      OBVIOUS
    <3> QED
      BY <3>4, <3>5, Zenon
  <2>3. ASSUME NEW i \in 1..Len(stack)
        PROVE  IsText(stack[i].file) /\ stack[i].line \in 0..Len(text[stack[i].file])
    <3>1. stack[i] \in Frames(text)
      BY <2>1
    <3> QED
      BY <3>1 DEF Frames, IsText
  <2>4. /\ DOMAIN layers = {"default", "host", "global"}
        /\ wishes \in [env : SUBSET Fields, cli : SUBSET Fields, jobspec : SUBSET Fields]
    BY DEF ConfigInv, LayersAre
  <2> QED
    BY <2>1, <2>2, <2>3, <2>4 DEF ConfigTypeOK, Typed
<1> QED
  BY <1>1, <1>2, TypedStep, ConfigInvariance, PTL DEF ConfigSpec

USE ValuesAssumption

-----------------------------------------------------------------------------
(* Preferences and configurations.                                         *)

\* The settings that are negotiated.
LEMMA KeysAre ==
  Keys = {"rx", "tx", "rtt", "congestion", "initial_congestion_window",
          "port", "timeout"}
BY DEF Keys, SystemDefault

\* The system default is a whole configuration.
LEMMA DefaultIsConfiguration == SystemDefault \in Configuration
<1>1. AnyPort \in PortRange
  BY DEF AnyPort, PortRange
<1> QED
  BY <1>1, DefaultAssumption DEF SystemDefault, Configuration, Algorithm

\* A set of preferences has some of the keys, each with a value of its kind.
LEMMA PartialHas ==
  ASSUME NEW p, PartialConfig(p)
  PROVE  /\ DOMAIN p \subseteq Keys
         /\ \A k \in {"rx", "tx", "rtt", "initial_congestion_window", "timeout"} :
              k \in DOMAIN p => p[k] \in Nat
         /\ "congestion" \in DOMAIN p => p["congestion"] \in Algorithm
         /\ "port" \in DOMAIN p => p["port"] \in PortRange
BY DEF PartialConfig

\* How to know a set of preferences.
LEMMA PartialIs ==
  ASSUME NEW p, DOMAIN p \subseteq Keys,
         \A k \in {"rx", "tx", "rtt", "initial_congestion_window", "timeout"} :
           k \in DOMAIN p => p[k] \in Nat,
         "congestion" \in DOMAIN p => p["congestion"] \in Algorithm,
         "port" \in DOMAIN p => p["port"] \in PortRange
  PROVE  PartialConfig(p)
BY KeysAre DEF PartialConfig

\* Preferences put over a configuration make a configuration.
LEMMA OverFacts ==
  ASSUME NEW p, PartialConfig(p), NEW c \in Configuration
  PROVE  /\ Over(p, c) \in Configuration
         /\ \A k \in Keys : Over(p, c)[k] = IF k \in DOMAIN p THEN p[k] ELSE c[k]
<1>1. DOMAIN c = Keys
  BY KeysAre DEF Configuration
<1>2. DOMAIN p \cup DOMAIN c = Keys
  BY <1>1, PartialHas
<1>3. Over(p, c) = [k \in Keys |-> IF k \in DOMAIN p THEN p[k] ELSE c[k]]
  BY <1>2 DEF Over
<1>4. \A k \in {"rx", "tx", "rtt", "initial_congestion_window", "timeout"} :
        c[k] \in Nat
  BY DEF Configuration
<1>5. c["congestion"] \in Algorithm /\ c["port"] \in PortRange
  BY DEF Configuration
<1>6. Over(p, c) \in Configuration
  BY <1>3, <1>4, <1>5, KeysAre, PartialHas DEF Configuration
<1> QED
  BY <1>3, <1>6

-----------------------------------------------------------------------------
(* Combination.                                                            *)

\* A range with a preference begins at a port.
LEMMA RangeHasPort ==
  ASSUME NEW r \in PortRange, r # AnyPort
  PROVE  Span(r) # {}
<1>1. /\ r = [begin |-> r.begin, end |-> r.end]
      /\ r.begin \in Port \cup {0} /\ r.end \in Port \cup {0} /\ r.begin <= r.end
      /\ r.begin = 0 => r.end = 0
  BY DEF PortRange
<1>2. r.begin # 0
  BY <1>1 DEF AnyPort
<1>3. r.begin \in Port /\ r.begin \in Nat /\ r.end \in Nat
  BY <1>1, <1>2
<1>4. Span(r) = {p \in Port : r.begin <= p /\ p <= r.end}
  BY DEF Span
<1>5. r.begin \in Span(r)
  BY <1>1, <1>3, <1>4
<1> QED
  BY <1>5

\* Two ranges that have a port in common have a range in common, which has the
\* ports that both have; a range that begins above 0 is not AnyPort.
LEMMA PortFacts ==
  ASSUME NEW a \in PortRange, NEW b \in PortRange, Satisfiable(a, b)
  PROVE  /\ Compromise("port", a, b) \in PortRange
         /\ Span(Compromise("port", a, b)) \subseteq Span(a) \cap Span(b)
         /\ a # AnyPort /\ b # AnyPort =>
              /\ Compromise("port", a, b) # AnyPort
              /\ Span(Compromise("port", a, b)) = Span(a) \cap Span(b)
         /\ Compromise("port", a, b) # AnyPort => Span(Compromise("port", a, b)) # {}
<1>1. Compromise("port", a, b) = IF a = AnyPort THEN b
                                 ELSE IF b = AnyPort THEN a ELSE Intersection(a, b)
  BY DEF Compromise
<1>2. Span(AnyPort) = Port /\ \A r : Span(r) \subseteq Port
  BY DEF Span
<1>3. CASE a = AnyPort \/ b = AnyPort
  BY <1>1, <1>2, <1>3, RangeHasPort
<1>4. CASE a # AnyPort /\ b # AnyPort
  <2>1. /\ a = [begin |-> a.begin, end |-> a.end] /\ b = [begin |-> b.begin, end |-> b.end]
        /\ a.begin \in Port \cup {0} /\ a.end \in Port \cup {0} /\ a.begin <= a.end
        /\ b.begin \in Port \cup {0} /\ b.end \in Port \cup {0} /\ b.begin <= b.end
        /\ a.begin = 0 => a.end = 0
        /\ b.begin = 0 => b.end = 0
    BY DEF PortRange
  <2>2. a.begin # 0 /\ b.begin # 0
    BY <1>4, <2>1 DEF AnyPort
  <2>3. /\ a.begin \in Nat /\ a.end \in Nat /\ b.begin \in Nat /\ b.end \in Nat
        /\ a.begin \in Port /\ b.begin \in Port
    BY <2>1, <2>2
  <2> DEFINE i == Intersection(a, b)
  <2>4. /\ i = [begin |-> i.begin, end |-> i.end]
        /\ i.begin = Higher(a.begin, b.begin) /\ i.end = Lower(a.end, b.end)
    BY DEF Intersection
  <2>5. /\ i.begin \in Port /\ i.begin # 0 /\ i.end \in Port \cup {0}
        /\ i.begin >= a.begin /\ i.begin >= b.begin
        /\ i.end <= a.end /\ i.end <= b.end
    BY <2>1, <2>2, <2>3, <2>4 DEF Higher, Lower
  <2>6. i.begin <= i.end
    BY <1>4 DEF Satisfiable
  <2>7. i \in PortRange /\ i # AnyPort
    <3> HIDE DEF i
    <3>1. i \in [begin : Port \cup {0}, end : Port \cup {0}]
      BY <2>4, <2>5
    <3>2. AnyPort.begin = 0
      BY DEF AnyPort
    <3> QED
      BY <2>5, <2>6, <3>1, <3>2 DEF PortRange
  <2> HIDE DEF i
  <2>8. Span(i) = Span(a) \cap Span(b)
    <3>1. /\ Span(i) = {p \in Port : i.begin <= p /\ p <= i.end}
          /\ Span(a) = {p \in Port : a.begin <= p /\ p <= a.end}
          /\ Span(b) = {p \in Port : b.begin <= p /\ p <= b.end}
      BY <1>4, <2>7 DEF Span
    <3>2. ASSUME NEW p \in Port
          PROVE  (i.begin <= p /\ p <= i.end)
                   <=> (a.begin <= p /\ p <= a.end) /\ (b.begin <= p /\ p <= b.end)
      <4>1. p \in Nat
        OBVIOUS
      <4> QED
        BY <2>3, <2>4, <4>1 DEF Higher, Lower
    <3> QED
      BY <3>1, <3>2
  <2>9. Compromise("port", a, b) = i
    BY <1>1, <1>4 DEF i
  <2> QED
    BY <2>7, <2>8, <2>9, RangeHasPort
<1> QED
  BY <1>3, <1>4

\* What the combination makes of a parameter.
LEMMA CombineAt ==
  ASSUME NEW c, NEW s, PartialConfig(c), PartialConfig(s), Failures(c, s) = {}
  PROVE  /\ Combine(c, s) \in Configuration
         /\ \A k \in Keys :
              Combine(c, s)[k] =
                IF k \in Negotiated(c, s) THEN Compromise(k, c[k], s[k])
                ELSE IF k \in ClientPicks(c, s) THEN c[k]
                ELSE IF k \in DOMAIN s THEN s[k] ELSE SystemDefault[k]
<1> DEFINE neg == [k \in Negotiated(c, s) |-> Compromise(k, c[k], s[k])]
           picks == [k \in ClientPicks(c, s) |-> c[k]]
           ours == Over(s, SystemDefault)
<1>1. PartialConfig(picks)
  <2>1. ClientPicks(c, s) \subseteq DOMAIN c
    BY DEF ClientPicks, Conflicts
  <2> QED
    BY <2>1, PartialHas, PartialIs
<1>2. PartialConfig(neg)
  <2>1. /\ Negotiated(c, s) \subseteq DOMAIN c \cap DOMAIN s
        /\ Negotiated(c, s) \subseteq {"rx", "tx", "port"}
    BY DEF Negotiated, Conflicts
  <2>2. \A k \in {"rx", "tx"} : k \in Negotiated(c, s) => neg[k] \in Nat
    <3> SUFFICES ASSUME NEW k \in {"rx", "tx"}, k \in Negotiated(c, s)
                 PROVE  neg[k] \in Nat
      OBVIOUS
    <3>1. c[k] \in Nat /\ s[k] \in Nat
      BY <2>1, PartialHas
    <3> QED
      BY <3>1 DEF Compromise, Lower
  <2>3. "port" \in Negotiated(c, s) => neg["port"] \in PortRange
    <3> SUFFICES ASSUME "port" \in Negotiated(c, s)
                 PROVE  neg["port"] \in PortRange
      OBVIOUS
    <3>1. c["port"] \in PortRange /\ s["port"] \in PortRange
      BY <2>1, PartialHas
    <3>2. Satisfiable(c["port"], s["port"])
      BY DEF Failures, Negotiated, Conflicts
    <3> QED
      BY <3>1, <3>2, PortFacts
  <2>4. DOMAIN neg = Negotiated(c, s)
    OBVIOUS
  <2> HIDE DEF neg
  <2> QED
    BY <2>1, <2>2, <2>3, <2>4, KeysAre, PartialIs
<1>3. /\ ours \in Configuration
      /\ \A k \in Keys : ours[k] = IF k \in DOMAIN s THEN s[k] ELSE SystemDefault[k]
  BY DefaultIsConfiguration, OverFacts
<1>4. /\ Over(picks, ours) \in Configuration
      /\ \A k \in Keys : Over(picks, ours)[k] =
           IF k \in ClientPicks(c, s) THEN c[k] ELSE ours[k]
  <2>1. /\ DOMAIN picks = ClientPicks(c, s)
        /\ \A k \in ClientPicks(c, s) : picks[k] = c[k]
    OBVIOUS
  <2> HIDE DEF picks, ours
  <2> QED
    BY <1>1, <1>3, <2>1, OverFacts
<1>5. /\ DOMAIN neg = Negotiated(c, s)
      /\ \A k \in Negotiated(c, s) : neg[k] = Compromise(k, c[k], s[k])
  OBVIOUS
<1>6. Combine(c, s) = Over(neg, Over(picks, ours))
  BY DEF Combine
<1> HIDE DEF neg, picks, ours
<1> QED
  BY <1>2, <1>3, <1>4, <1>5, <1>6, OverFacts

\* The table's "least of the values other than zero", of one or two values.
LEMMA LeastFacts ==
  ASSUME NEW a \in Nat, NEW b \in Nat
  PROVE  LeastIgnoringZero({a, b}) =
           IF a = 0 THEN b ELSE IF b = 0 THEN a ELSE Lower(a, b)
<1> DEFINE least == IF a = 0 THEN b ELSE IF b = 0 THEN a ELSE Lower(a, b)
           S == {a, b}
<1>1. CASE a = 0 /\ b = 0
  BY <1>1 DEF LeastIgnoringZero
<1>2. CASE ~(a = 0 /\ b = 0)
  <2>1. LeastIgnoringZero(S) = CHOOSE v \in S \ {0} : \A w \in S \ {0} : v <= w
    BY <1>2 DEF LeastIgnoringZero
  <2>2. least \in S \ {0} /\ \A w \in S \ {0} : least <= w
    BY <1>2 DEF Lower
  <2>3. \A v \in S \ {0} : (\A w \in S \ {0} : v <= w) => v = least
    BY <2>2
  <2> HIDE DEF S, least
  <2>4. LeastIgnoringZero(S) = least
    BY <2>1, <2>2, <2>3
  <2> QED
    BY <2>4 DEF S, least
<1> QED
  BY <1>1, <1>2

\* Of two bandwidths the lower counts, and zero is no opinion.
LEMMA CombineBandwidth ==
  ASSUME NEW c, NEW s, PartialConfig(c), PartialConfig(s), Failures(c, s) = {},
         NEW k \in {"rx", "tx"}
  PROVE  Combine(c, s)[k] =
           IF Said(c, k) \cup Said(s, k) = {} THEN SystemDefault[k]
           ELSE LeastIgnoringZero(Said(c, k) \cup Said(s, k))
<1>1. k \in Keys
  BY KeysAre
<1>2. Combine(c, s)[k] =
        IF k \in Negotiated(c, s) THEN Compromise(k, c[k], s[k])
        ELSE IF k \in ClientPicks(c, s) THEN c[k]
        ELSE IF k \in DOMAIN s THEN s[k] ELSE SystemDefault[k]
  BY <1>1, CombineAt
<1>3. /\ k \in DOMAIN c => c[k] \in Nat
      /\ k \in DOMAIN s => s[k] \in Nat
  BY PartialHas
<1>4. k \in Negotiated(c, s) <=>
        k \in DOMAIN c /\ k \in DOMAIN s /\ c[k] # s[k] /\ c[k] # 0 /\ s[k] # 0
  BY DEF Negotiated, Conflicts
<1>5. k \in ClientPicks(c, s) <=>
        k \in DOMAIN c /\ (k \notin DOMAIN s \/ (c[k] # s[k] /\ c[k] # 0 /\ s[k] = 0))
  BY DEF ClientPicks, Conflicts
<1>6. CASE k \in DOMAIN c /\ k \in DOMAIN s
  <2>1. Said(c, k) \cup Said(s, k) = {c[k], s[k]}
    BY <1>6 DEF Said
  <2>2. LeastIgnoringZero({c[k], s[k]}) =
          IF c[k] = 0 THEN s[k] ELSE IF s[k] = 0 THEN c[k] ELSE Lower(c[k], s[k])
    BY <1>3, <1>6, LeastFacts
  <2>3. c[k] = s[k] => Lower(c[k], s[k]) = s[k]
    BY DEF Lower
  <2>4. Combine(c, s)[k] =
          IF c[k] = 0 THEN s[k] ELSE IF s[k] = 0 THEN c[k] ELSE Lower(c[k], s[k])
    BY <1>2, <1>4, <1>5, <1>6, <2>3 DEF Compromise
  <2> QED
    BY <2>1, <2>2, <2>4
<1>7. CASE k \in DOMAIN c /\ k \notin DOMAIN s
  <2>1. Said(c, k) \cup Said(s, k) = {c[k]} /\ {c[k]} = {c[k], c[k]}
    BY <1>7 DEF Said
  <2>2. LeastIgnoringZero({c[k], c[k]}) = c[k]
    BY <1>3, <1>7, LeastFacts DEF Lower
  <2>3. Combine(c, s)[k] = c[k]
    BY <1>2, <1>4, <1>5, <1>7
  <2> QED
    BY <2>1, <2>2, <2>3
<1>8. CASE k \notin DOMAIN c /\ k \in DOMAIN s
  <2>1. Said(c, k) \cup Said(s, k) = {s[k]} /\ {s[k]} = {s[k], s[k]}
    BY <1>8 DEF Said
  <2>2. LeastIgnoringZero({s[k], s[k]}) = s[k]
    BY <1>3, <1>8, LeastFacts DEF Lower
  <2>3. Combine(c, s)[k] = s[k]
    BY <1>2, <1>4, <1>5, <1>8
  <2> QED
    BY <2>1, <2>2, <2>3
<1>9. CASE k \notin DOMAIN c /\ k \notin DOMAIN s
  BY <1>2, <1>4, <1>5, <1>9 DEF Said
<1> QED
  BY <1>6, <1>7, <1>8, <1>9

\* For the RTT and the timeout the client's wish wins, then the server's.
LEMMA CombineTimes ==
  ASSUME NEW c, NEW s, PartialConfig(c), PartialConfig(s), Failures(c, s) = {},
         NEW k \in {"rtt", "timeout"}
  PROVE  Combine(c, s)[k] = Over(c, Over(s, SystemDefault))[k]
<1>1. k \in Keys
  BY KeysAre
<1>2. Combine(c, s)[k] =
        IF k \in Negotiated(c, s) THEN Compromise(k, c[k], s[k])
        ELSE IF k \in ClientPicks(c, s) THEN c[k]
        ELSE IF k \in DOMAIN s THEN s[k] ELSE SystemDefault[k]
  BY <1>1, CombineAt
<1>3. k \notin Negotiated(c, s)
  BY DEF Negotiated
<1>4. k \in ClientPicks(c, s) <=>
        k \in DOMAIN c /\ (k \notin DOMAIN s \/ c[k] # s[k])
  BY DEF ClientPicks, Conflicts
<1>5. /\ Over(s, SystemDefault) \in Configuration
      /\ Over(s, SystemDefault)[k] = IF k \in DOMAIN s THEN s[k] ELSE SystemDefault[k]
  BY <1>1, DefaultIsConfiguration, OverFacts
<1>6. Over(c, Over(s, SystemDefault))[k] =
        IF k \in DOMAIN c THEN c[k] ELSE Over(s, SystemDefault)[k]
  BY <1>1, <1>5, OverFacts
<1> QED
  BY <1>2, <1>3, <1>4, <1>5, <1>6

\* A congestion controller is asked for or is the default, and who asked for
\* one has it: there is no compromise.
LEMMA CombineCongestion ==
  ASSUME NEW c, NEW s, PartialConfig(c), PartialConfig(s), Failures(c, s) = {}
  PROVE  /\ "congestion" \in DOMAIN c => Combine(c, s)["congestion"] = c["congestion"]
         /\ "congestion" \in DOMAIN s => Combine(c, s)["congestion"] = s["congestion"]
         /\ "congestion" \notin DOMAIN c /\ "congestion" \notin DOMAIN s =>
              Combine(c, s)["congestion"] = SystemDefault["congestion"]
<1> DEFINE k == "congestion"
<1>1. k \in Keys
  BY KeysAre
<1>2. Combine(c, s)[k] =
        IF k \in Negotiated(c, s) THEN Compromise(k, c[k], s[k])
        ELSE IF k \in ClientPicks(c, s) THEN c[k]
        ELSE IF k \in DOMAIN s THEN s[k] ELSE SystemDefault[k]
  BY <1>1, CombineAt
<1>3. k \notin Negotiated(c, s)
  BY DEF Negotiated
<1>4. k \notin Conflicts(c, s)
  BY DEF Failures
<1>5. k \in DOMAIN c /\ k \in DOMAIN s => c[k] = s[k]
  BY <1>4 DEF Conflicts
<1>6. k \in ClientPicks(c, s) <=> k \in DOMAIN c /\ k \notin DOMAIN s
  BY <1>4 DEF ClientPicks
<1> QED
  BY <1>2, <1>3, <1>5, <1>6

\* The initial congestion window is one that was asked for, or the default.
LEMMA CombineWindow ==
  ASSUME NEW c, NEW s, PartialConfig(c), PartialConfig(s), Failures(c, s) = {}
  PROVE  Combine(c, s)["initial_congestion_window"] \in
           IF Said(c, "initial_congestion_window")
                \cup Said(s, "initial_congestion_window") = {}
           THEN {SystemDefault["initial_congestion_window"]}
           ELSE Said(c, "initial_congestion_window")
                  \cup Said(s, "initial_congestion_window")
<1> DEFINE k == "initial_congestion_window"
<1>1. k \in Keys
  BY KeysAre
<1>2. Combine(c, s)[k] =
        IF k \in Negotiated(c, s) THEN Compromise(k, c[k], s[k])
        ELSE IF k \in ClientPicks(c, s) THEN c[k]
        ELSE IF k \in DOMAIN s THEN s[k] ELSE SystemDefault[k]
  BY <1>1, CombineAt
<1>3. k \notin Negotiated(c, s)
  BY DEF Negotiated
<1>4. k \in ClientPicks(c, s) <=> k \in DOMAIN c /\ k \notin DOMAIN s
  BY DEF ClientPicks, Conflicts
<1> QED
  BY <1>2, <1>3, <1>4 DEF Said

\* The ports are those that the range of each side has that gave one, and there
\* are some.
LEMMA CombinePort ==
  ASSUME NEW c, NEW s, PartialConfig(c), PartialConfig(s), Failures(c, s) = {}
  PROVE  LET ranges == (Said(c, "port") \cup Said(s, "port")) \ {AnyPort}
             port == Combine(c, s)["port"]
         IN IF ranges = {} THEN port = AnyPort
            ELSE /\ port # AnyPort
                 /\ Span(port) = {p \in Port : \A r \in ranges : p \in Span(r)}
                 /\ Span(port) # {}
<1> DEFINE k == "port"
           port == Combine(c, s)[k]
           ranges == (Said(c, k) \cup Said(s, k)) \ {AnyPort}
<1>1. k \in Keys
  BY KeysAre
<1>2. port = IF k \in Negotiated(c, s) THEN Compromise(k, c[k], s[k])
             ELSE IF k \in ClientPicks(c, s) THEN c[k]
             ELSE IF k \in DOMAIN s THEN s[k] ELSE SystemDefault[k]
  BY <1>1, CombineAt
<1>3. k \in Negotiated(c, s) <=> k \in DOMAIN c /\ k \in DOMAIN s /\ c[k] # s[k]
  BY DEF Negotiated, Conflicts
<1>4. k \in ClientPicks(c, s) <=> k \in DOMAIN c /\ k \notin DOMAIN s
  BY DEF ClientPicks, Conflicts
<1>5. \A r : Span(r) \subseteq Port
  BY DEF Span
<1>6. /\ k \in DOMAIN c => c[k] \in PortRange
      /\ k \in DOMAIN s => s[k] \in PortRange
  BY PartialHas
<1> SUFFICES IF ranges = {} THEN port = AnyPort
             ELSE /\ port # AnyPort
                  /\ Span(port) = {p \in Port : \A r \in ranges : p \in Span(r)}
                  /\ Span(port) # {}
  OBVIOUS
<1>7. ASSUME NEW r \in PortRange, port = r,
             ranges = {r} \/ (ranges = {} /\ r = AnyPort), AnyPort \notin ranges
      PROVE  IF ranges = {} THEN port = AnyPort
             ELSE /\ port # AnyPort
                  /\ Span(port) = {p \in Port : \A q \in ranges : p \in Span(q)}
                  /\ Span(port) # {}
  <2> HIDE DEF port, ranges
  <2>1. CASE ranges = {}
    BY <1>7, <2>1
  <2>2. CASE ranges = {r}
    <3>1. r # AnyPort /\ Span(r) # {}
      BY <1>7, <2>2, RangeHasPort
    <3> QED
      BY <1>5, <1>7, <2>2, <3>1
  <2> QED
    BY <1>7, <2>1, <2>2
<1>8. AnyPort \notin ranges
  OBVIOUS
<1>9. CASE k \in Negotiated(c, s)
  <2>1. c[k] \in PortRange /\ s[k] \in PortRange
    BY <1>3, <1>6, <1>9
  <2>2. Satisfiable(c[k], s[k])
    BY <1>3, <1>9 DEF Failures, Conflicts
  <2>3. port = Compromise(k, c[k], s[k]) /\ ranges = {c[k], s[k]} \ {AnyPort}
    BY <1>2, <1>3, <1>9 DEF Said
  <2>4. CASE c[k] # AnyPort /\ s[k] # AnyPort
    <3>1. /\ port # AnyPort /\ Span(port) = Span(c[k]) \cap Span(s[k])
          /\ Span(port) # {}
      BY <2>1, <2>2, <2>3, <2>4, PortFacts
    <3>2. ranges = {c[k], s[k]}
      BY <2>3, <2>4
    <3> HIDE DEF port, ranges
    <3> QED
      BY <1>5, <3>1, <3>2
  <2>5. CASE c[k] = AnyPort
    <3>1. port = s[k] /\ ranges = {s[k]}
      BY <1>3, <1>9, <2>3, <2>5 DEF Compromise
    <3> QED
      BY <1>7, <1>8, <2>1, <3>1
  <2>6. CASE s[k] = AnyPort
    <3>1. port = c[k] /\ ranges = {c[k]}
      BY <1>3, <1>9, <2>3, <2>6 DEF Compromise
    <3> QED
      BY <1>7, <1>8, <2>1, <3>1
  <2> QED
    BY <2>4, <2>5, <2>6
<1>10. CASE k \notin Negotiated(c, s) /\ (k \in DOMAIN c \/ k \in DOMAIN s)
  <2>1. port \in PortRange /\ Said(c, k) \cup Said(s, k) = {port}
    BY <1>2, <1>3, <1>4, <1>6, <1>10 DEF Said
  <2>2. ranges = {port} \/ (ranges = {} /\ port = AnyPort)
    BY <2>1
  <2> QED
    BY <1>7, <1>8, <2>1, <2>2
<1>11. CASE k \notin DOMAIN c /\ k \notin DOMAIN s
  BY <1>2, <1>3, <1>4, <1>11 DEF Said, SystemDefault
<1> QED
  BY <1>9, <1>10, <1>11

-----------------------------------------------------------------------------
(* The messages.                                                           *)

\* The client message says what the preferences say, the two bandwidths
\* exchanged; of the congestion controller it says the same.
LEMMA ClientMessageFacts ==
  ASSUME NEW l, NEW p, PartialConfig(p)
  PROVE  /\ PartialConfig(ClientMessage(l, p))
         /\ "congestion" \in DOMAIN p =>
              /\ "congestion" \in DOMAIN ClientMessage(l, p)
              /\ ClientMessage(l, p)["congestion"] = p["congestion"]
<1> DEFINE m == ClientMessage(l, p)
<1>1. /\ \A v \in BandwidthToServer(l, p) : v \in Nat
      /\ "rx" \in DOMAIN p => p["rx"] \in Nat
  BY PartialHas DEF BandwidthToServer
<1>2. /\ DOMAIN m \subseteq DOMAIN p \cup {"rx", "tx"}
      /\ DOMAIN p \ {"rx", "tx"} \subseteq DOMAIN m
      /\ "rx" \in DOMAIN m <=> BandwidthToServer(l, p) # {}
      /\ "tx" \in DOMAIN m <=> "rx" \in DOMAIN p
  BY DEF ClientMessage
<1>3. "rx" \in DOMAIN m => m["rx"] \in Nat
  <2>1. "rx" \in DOMAIN m => m["rx"] = CHOOSE v \in BandwidthToServer(l, p) : TRUE
    BY DEF ClientMessage
  <2>2. BandwidthToServer(l, p) # {} =>
          (CHOOSE v \in BandwidthToServer(l, p) : TRUE) \in BandwidthToServer(l, p)
    OBVIOUS
  <2> QED
    BY <1>1, <1>2, <2>1, <2>2
<1>4. "tx" \in DOMAIN m => m["tx"] \in Nat
  <2>1. "rx" \in DOMAIN p => (CHOOSE v \in {p["rx"]} : TRUE) = p["rx"]
    OBVIOUS
  <2>2. "tx" \in DOMAIN m => m["tx"] = CHOOSE v \in {p["rx"]} : TRUE
    BY DEF ClientMessage
  <2> QED
    BY <1>1, <1>2, <2>1, <2>2
<1>5. \A k \in DOMAIN m : k \notin {"rx", "tx"} => k \in DOMAIN p /\ m[k] = p[k]
  BY DEF ClientMessage
<1> HIDE DEF m
<1>6. PartialConfig(m)
  <2>1. DOMAIN m \subseteq Keys
    BY <1>2, KeysAre, PartialHas
  <2>2. \A k \in {"rx", "tx", "rtt", "initial_congestion_window", "timeout"} :
          k \in DOMAIN m => m[k] \in Nat
    BY <1>3, <1>4, <1>5, PartialHas
  <2>3. /\ "congestion" \in DOMAIN m => m["congestion"] \in Algorithm
        /\ "port" \in DOMAIN m => m["port"] \in PortRange
    BY <1>5, PartialHas
  <2> QED
    BY <2>1, <2>2, <2>3, PartialIs
<1>7. "congestion" \in DOMAIN p =>
        "congestion" \in DOMAIN m /\ m["congestion"] = p["congestion"]
  BY <1>2, <1>5
<1> QED
  BY <1>6, <1>7 DEF m

\* The server message: the client's tx is the server's rx, and the client's
\* rx the server's tx, never 0 for "the same as rx".
LEMMA ServerMessageFacts ==
  ASSUME NEW l \in Nat, NEW c \in Configuration
  PROVE  /\ PartialConfig(ServerMessage(l, c))
         /\ {"rx", "tx", "rtt"} \subseteq DOMAIN ServerMessage(l, c)
         /\ ServerMessage(l, c)["tx"] = c.rx
         /\ ServerMessage(l, c)["rx"] = Tx(c)
         /\ ServerMessage(l, c)["rtt"] = c.rtt
         /\ "congestion" \in DOMAIN ServerMessage(l, c) =>
              ServerMessage(l, c)["congestion"] = c.congestion
         /\ "congestion" \notin DOMAIN ServerMessage(l, c) =>
              c.congestion = "cubic"
<1> DEFINE m == ServerMessage(l, c)
<1>1. /\ c.rx \in Nat /\ c.tx \in Nat /\ c.rtt \in Nat /\ c.timeout \in Nat
      /\ c.initial_congestion_window \in Nat /\ c.congestion \in Algorithm
  BY DEF Configuration
<1>2. Tx(c) \in Nat
  BY <1>1 DEF Tx
<1>3. /\ DOMAIN m = MessageKeys(l, c)
      /\ \A k \in DOMAIN m : m[k] = CASE k = "tx" -> c.rx
                                      [] k = "rx" -> Tx(c)
                                      [] OTHER -> c[k]
  BY DEF ServerMessage
<1> HIDE DEF m
<1>4. /\ {"rx", "tx", "rtt"} \subseteq DOMAIN m
      /\ DOMAIN m \subseteq {"rx", "tx", "rtt", "congestion",
                             "initial_congestion_window", "timeout"}
      /\ "congestion" \notin DOMAIN m => c.congestion = "cubic"
  BY <1>3 DEF MessageKeys
<1>5. m["tx"] = c.rx /\ m["rx"] = Tx(c)
      /\ \A k \in DOMAIN m : k \notin {"rx", "tx"} => m[k] = c[k]
  BY <1>3, <1>4
<1>6. PartialConfig(m)
  <2>1. DOMAIN m \subseteq Keys /\ "port" \notin DOMAIN m
    BY <1>4, KeysAre
  <2>2. \A k \in {"rx", "tx", "rtt", "initial_congestion_window", "timeout"} :
          k \in DOMAIN m => m[k] \in Nat
    BY <1>1, <1>2, <1>5
  <2>3. "congestion" \in DOMAIN m => m["congestion"] \in Algorithm
    BY <1>1, <1>5
  <2> QED
    BY <2>1, <2>2, <2>3, PartialIs
<1> QED
  BY <1>4, <1>5, <1>6 DEF m

-----------------------------------------------------------------------------
(* The steps.                                                              *)

\* What a user can write down is a set of preferences.
LEMMA PreferencesArePartial ==
  ASSUME NEW p \in Preferences
  PROVE  PartialConfig(p)
<1>1. PICK K \in SUBSET Keys,
           full \in [rx : Bandwidth, tx : Bandwidth, rtt : Rtt,
                     congestion : Algorithm, initial_congestion_window : Window,
                     port : PortRange, timeout : Timeout] :
        p = [k \in K |-> full[k]]
  BY DEF Preferences
<1>2. DOMAIN p = K /\ \A k \in K : p[k] = full[k]
  BY <1>1
<1>3. /\ full["rx"] \in Nat /\ full["tx"] \in Nat /\ full["rtt"] \in Nat
      /\ full["initial_congestion_window"] \in Nat /\ full["timeout"] \in Nat
      /\ full["congestion"] \in Algorithm /\ full["port"] \in PortRange
  OBVIOUS
<1> QED
  BY <1>2, <1>3, PartialIs

\* What the client offers is made from a valid configuration.
LEMMA InitInv == Init => Inv
<1> SUFFICES ASSUME Init PROVE Inv
  OBVIOUS
<1>1. PartialConfig(client) /\ PartialConfig(server)
  BY PreferencesArePartial DEF Init
<1>2. PartialConfig(request)
  <2>1. DOMAIN request = {}
    BY DEF Init
  <2> QED
    BY <2>1, PartialIs
<1>3. TypeOK
  BY <1>1, <1>2, DefaultIsConfiguration DEF Init, TypeOK
<1>4. Asked /\ Settled /\ Served /\ Merged
  BY DEF Init, Asked, Settled, Served, Merged
<1>5. Answered
  BY DEF Init, Answered, NoReply
<1> QED
  BY <1>3, <1>4, <1>5 DEF Inv

\* The client offers what ClientMessage makes of its preferences.
LEMMA CSendKeeps ==
  ASSUME Inv, CSend
  PROVE  Inv'
<1>1. /\ cpc = "send" /\ cpc' = "wait" /\ request' = ClientMessage(level, client)
      /\ UNCHANGED <<level, client, server, spc, sconf, taken, bound, warning,
                     reply, cconf, warned>>
  BY DEF CSend
<1>2. spc = "read" /\ TypeOK
  BY <1>1 DEF Inv, Asked
<1>3. PartialConfig(request')
  BY <1>1, <1>2, ClientMessageFacts DEF TypeOK
<1>4. TypeOK'
  BY <1>1, <1>2, <1>3 DEF TypeOK, PartialConfig
<1>5. Asked' /\ Settled' /\ Served' /\ Answered' /\ Merged'
  BY <1>1, <1>2 DEF Inv, Asked, Settled, Served, Answered, Merged
<1> QED
  BY <1>4, <1>5 DEF Inv

\* Either side gives up; what it has told the other stays as it is.
LEMMA FailureKeeps ==
  ASSUME Inv, CRefuses \/ SNoMessage \/ SRefuses \/ SBindFails \/ CFails
  PROVE  Inv'
<1>1. /\ UNCHANGED <<level, client, server, request, sconf, bound, warning,
                     cconf, warned>>
      /\ \/ cpc \in {"send", "wait"} /\ cpc' = "failed" /\ UNCHANGED <<spc, reply, taken>>
         \/ /\ spc' = "failed" /\ spc # "serving" /\ cpc' = cpc
            /\ cpc # "send"
            /\ \E why \in {"malformed", "negotiation", "endpoint"} : reply' = Refusal(why)
            /\ taken' \subseteq Port
  <2>1. \A r : Span(r) \subseteq Port
    BY DEF Span
  <2>2. CASE SBindFails
    BY <2>1, <2>2 DEF SBindFails, Inv, Asked
  <2>3. CASE CRefuses \/ SNoMessage \/ SRefuses \/ CFails
    BY <2>3 DEF CRefuses, SNoMessage, SRefuses, CFails, Inv, TypeOK
  <2> QED
    BY <2>2, <2>3
<1>2. \A why : /\ Refusal(why).kind = "failure"
               /\ why \in {"malformed", "negotiation", "endpoint"} =>
                    Refusal(why) \in [kind : {"failure"},
                                      why : {"malformed", "negotiation", "endpoint"}]
  BY DEF Refusal
<1>3. TypeOK'
  BY <1>1, <1>2 DEF Inv, TypeOK, PartialConfig
<1>4. spc # "serving" => reply.kind # "message"
  BY DEF Inv, Answered
<1>5. cpc = "done" => spc = "serving"
  BY DEF Inv, Merged, Answered
<1>6. cpc' = "failed" => spc \notin {"bind", "serving"}
  BY DEF CRefuses, SNoMessage, SRefuses, SBindFails, CFails, Inv, Settled, Answered, Asked
<1>7. Asked' /\ Settled' /\ Served' /\ Merged'
  BY <1>1, <1>5, <1>6 DEF Inv, Asked, Settled, Served, Merged
<1>8. Answered'
  BY <1>1, <1>2 DEF Inv, Answered
<1> QED
  BY <1>3, <1>7, <1>8 DEF Inv

\* What the server settles on is valid and without failures.
LEMMA SCombineKeeps ==
  ASSUME Inv, SCombine
  PROVE  Inv'
<1>1. /\ spc = "read" /\ cpc = "wait" /\ spc' = "bind"
      /\ Failures(request, server) = {} /\ Valid(Combine(request, server))
      /\ sconf' = Combine(request, server)
      /\ UNCHANGED <<level, client, server, cpc, request, taken, bound, warning,
                     reply, cconf, warned>>
  BY DEF SCombine
<1>2. sconf' \in Configuration
  BY <1>1, CombineAt DEF Inv, TypeOK
<1>3. TypeOK'
  BY <1>1, <1>2 DEF Inv, TypeOK, PartialConfig
<1>4. Asked' /\ Settled' /\ Served' /\ Answered' /\ Merged'
  BY <1>1 DEF Inv, Asked, Settled, Served, Answered, Merged
<1> QED
  BY <1>3, <1>4 DEF Inv

\* The port that is bound is one of the range.
LEMMA ChoicesFacts ==
  ASSUME NEW r \in PortRange, NEW busy, NEW p \in PortChoices(r, busy)
  PROVE  p \in Span(r) /\ p \in Port
<1>1. p \in Tried(r)
  BY DEF PortChoices
<1>2. CASE r.begin = r.end
  BY <1>1, <1>2 DEF Tried, Span
<1>3. CASE r.begin # r.end
  <2>1. p \in Port /\ r.begin <= p /\ p < r.end
    BY <1>1, <1>3 DEF Tried
  <2>2. r # AnyPort
    BY <1>3 DEF AnyPort
  <2>3. r.end \in Nat /\ p \in Nat
    <3>1. r \in [begin : Port \cup {0}, end : Port \cup {0}]
      BY DEF PortRange
    <3>2. r.end \in Port \cup {0}
      BY <3>1
    <3>3. \A q \in Port \cup {0} : q \in Nat
      OBVIOUS
    <3> QED
      BY <2>1, <3>2, <3>3
  <2>4. p <= r.end
    BY <2>1, <2>3
  <2> QED
    BY <2>1, <2>2, <2>4 DEF Span
<1> QED
  BY <1>2, <1>3

\* The server binds a port of the range settled on and answers.
LEMMA SBindKeeps ==
  ASSUME Inv, SBind
  PROVE  Inv'
<1>1. /\ spc = "bind" /\ spc' = "serving"
      /\ UNCHANGED <<level, client, server, cpc, request, sconf, cconf, warned>>
  BY DEF SBind
<1>2. PICK busy \in SUBSET Span(sconf.port), w \in BOOLEAN :
        \E p \in PortChoices(sconf.port, busy) :
          /\ taken' = busy /\ bound' = p /\ warning' = w
          /\ reply' = Result(level, sconf, p, w)
  BY DEF SBind
<1>3. PICK p \in PortChoices(sconf.port, busy) :
        /\ taken' = busy /\ bound' = p /\ warning' = w
        /\ reply' = Result(level, sconf, p, w)
  BY <1>2
<1>4. p \in Span(sconf.port) /\ p \in Port /\ Span(sconf.port) \subseteq Port
  <2>1. sconf.port \in PortRange
    BY DEF Inv, TypeOK, Configuration
  <2> QED
    BY <1>3, <2>1, ChoicesFacts DEF Span
<1>5. PartialConfig(ServerMessage(level, sconf))
  BY ServerMessageFacts DEF Inv, TypeOK
<1>6. /\ reply'.kind = "message" /\ reply'.config = ServerMessage(level, sconf)
      /\ reply'.port = p /\ reply'.warning \in BOOLEAN
  BY <1>3 DEF Result, CarriesWarning
<1>7. TypeOK'
  <2>1. PartialConfig(reply'.config)
    BY <1>5, <1>6
  <2>2. \/ reply' = NoReply
        \/ reply' \in [kind : {"failure"},
                       why : {"malformed", "negotiation", "endpoint"}]
        \/ /\ reply'.kind = "message" /\ PartialConfig(reply'.config)
           /\ reply'.port \in Port /\ reply'.warning \in BOOLEAN
    BY <1>4, <1>6, <2>1
  <2>3. taken' \subseteq Port /\ bound' \in Port \cup {0} /\ warning' \in BOOLEAN
    BY <1>3, <1>4
  <2> QED
    BY <1>1, <2>2, <2>3 DEF Inv, TypeOK, PartialConfig
<1>8. Asked' /\ Settled' /\ Merged'
  <2>1. cpc # "done"
    BY <1>1 DEF Inv, Merged, Answered
  <2> QED
    BY <1>1, <2>1 DEF Inv, Asked, Settled, Merged
<1>9. Served' /\ Answered'
  BY <1>1, <1>3, <1>4, <1>6 DEF Served, Answered
<1> QED
  BY <1>7, <1>8, <1>9 DEF Inv

\* The client merges the answer over its own configuration.
LEMMA CMergeKeeps ==
  ASSUME Inv, CMerge
  PROVE  Inv'
<1>1. /\ cpc = "wait" /\ cpc' = "done" /\ reply.kind = "message"
      /\ cconf' = Over(reply.config, Over(client, SystemDefault))
      /\ warned' = reply.warning
      /\ UNCHANGED <<level, client, server, spc, request, sconf, taken, bound,
                     warning, reply>>
  BY DEF CMerge
<1>2. PartialConfig(reply.config) /\ reply.warning \in BOOLEAN
  BY <1>1 DEF Inv, TypeOK, NoReply
<1>3. cconf' \in Configuration
  BY <1>1, <1>2, DefaultIsConfiguration, OverFacts DEF Inv, TypeOK
<1>4. TypeOK'
  BY <1>1, <1>2, <1>3 DEF Inv, TypeOK, PartialConfig
<1>5. Asked' /\ Settled' /\ Served' /\ Answered' /\ Merged'
  BY <1>1 DEF Inv, Asked, Settled, Served, Answered, Merged
<1> QED
  BY <1>4, <1>5 DEF Inv

\* No step of either side leaves the invariant.
LEMMA Inductive == Inv /\ [Next]_vars => Inv'
<1> SUFFICES ASSUME Inv, [Next]_vars PROVE Inv'
  OBVIOUS
<1>1. CASE CSend
  BY <1>1, CSendKeeps
<1>2. CASE CRefuses \/ SNoMessage \/ SRefuses \/ SBindFails \/ CFails
  BY <1>2, FailureKeeps
<1>3. CASE SCombine
  BY <1>3, SCombineKeeps
<1>4. CASE SBind
  BY <1>4, SBindKeeps
<1>5. CASE CMerge
  BY <1>5, CMergeKeeps
<1>6. CASE Ended \/ UNCHANGED vars
  <2>1. UNCHANGED vars
    BY <1>6 DEF Ended
  <2>2. TypeOK'
    BY <2>1 DEF vars, Inv, TypeOK
  <2>3. Asked' /\ Settled' /\ Served'
    BY <2>1 DEF vars, Inv, Asked, Settled, Served
  <2>4. Answered' /\ Merged'
    BY <2>1 DEF vars, Inv, Answered, Merged
  <2> QED
    BY <2>2, <2>3, <2>4 DEF Inv
<1> QED
  BY <1>1, <1>2, <1>3, <1>4, <1>5, <1>6 DEF Next

-----------------------------------------------------------------------------
(* The theorems.                                                           *)

\* The inductive invariant holds at every moment of every negotiation.
THEOREM Invariance == Spec => []Inv
BY InitInv, Inductive, PTL DEF Spec

\* Every message and every configuration is well formed.
THEOREM TypeCorrect == Spec => []TypeOK
<1>1. Inv => TypeOK
  BY DEF Inv
<1> QED
  BY <1>1, Invariance, PTL

\* What the client has when it is done, in terms of what the server has.
LEMMA ClientHas ==
  ASSUME Inv, cpc = "done"
  PROVE  /\ cconf \in Configuration /\ sconf \in Configuration
         /\ cconf.tx = sconf.rx /\ cconf.rx = Tx(sconf) /\ cconf.rtt = sconf.rtt
         /\ cconf.congestion = IF "congestion" \in DOMAIN reply.config
                               THEN sconf.congestion
                               ELSE Over(client, SystemDefault).congestion
<1>1. /\ reply.kind = "message" /\ spc = "serving"
      /\ reply.config = ServerMessage(level, sconf)
      /\ cconf = Over(reply.config, Over(client, SystemDefault))
  BY DEF Inv, Merged, Answered
<1>2. /\ PartialConfig(client) /\ sconf \in Configuration /\ level \in Nat
      /\ cconf \in Configuration
  BY DEF Inv, TypeOK
<1>3. Over(client, SystemDefault) \in Configuration
  BY <1>2, DefaultIsConfiguration, OverFacts
<1>4. PartialConfig(reply.config)
  BY <1>1, <1>2, ServerMessageFacts
<1>5. \A k \in Keys : cconf[k] = IF k \in DOMAIN reply.config THEN reply.config[k]
                                 ELSE Over(client, SystemDefault)[k]
  BY <1>1, <1>3, <1>4, OverFacts
<1>6. /\ {"rx", "tx", "rtt"} \subseteq DOMAIN reply.config
      /\ reply.config["tx"] = sconf.rx /\ reply.config["rx"] = Tx(sconf)
      /\ reply.config["rtt"] = sconf.rtt
      /\ "congestion" \in DOMAIN reply.config =>
           reply.config["congestion"] = sconf.congestion
  BY <1>1, <1>2, ServerMessageFacts
<1>7. {"rx", "tx", "rtt", "congestion"} \subseteq Keys
  BY KeysAre
<1> QED
  BY <1>2, <1>5, <1>6, <1>7

\* Both ends use the same bandwidths, each the other's way round, the same RTT
\* and the same congestion controller (client_msg.rs, server_msg.rs,
\* combine_bandwidth_configurations), at every compatibility level.
THEOREM BothEndsAgree == Spec => []EndsAgree
<1>1. Inv => EndsAgree
  <2> SUFFICES ASSUME Inv, cpc = "done"
               PROVE  /\ cconf.tx = sconf.rx /\ cconf.rx = Tx(sconf)
                      /\ cconf.rtt = sconf.rtt
                      /\ cconf.congestion = sconf.congestion
    BY DEF EndsAgree
  <2>1. CASE "congestion" \in DOMAIN reply.config
    BY <2>1, ClientHas
  <2>2. CASE "congestion" \notin DOMAIN reply.config
    <3>1. /\ reply.config = ServerMessage(level, sconf) /\ spc = "serving"
          /\ request = ClientMessage(level, client)
          /\ Failures(request, server) = {} /\ sconf = Combine(request, server)
      BY DEF Inv, Merged, Answered, Asked, Settled
    <3>2. sconf.congestion = "cubic"
      BY <2>2, <3>1, ServerMessageFacts DEF Inv, TypeOK
    <3>3. PartialConfig(client) /\ PartialConfig(request) /\ PartialConfig(server)
      BY DEF Inv, TypeOK
    <3>4. "congestion" \in DOMAIN client => client["congestion"] = "cubic"
      BY <3>1, <3>2, <3>3, ClientMessageFacts, CombineCongestion
    <3>5. Over(client, SystemDefault).congestion = "cubic"
      <4>1. "congestion" \in Keys /\ SystemDefault["congestion"] = "cubic"
        BY KeysAre DEF SystemDefault
      <4> QED
        BY <3>3, <3>4, <4>1, DefaultIsConfiguration, OverFacts
    <3> QED
      BY <2>2, <3>2, <3>5, ClientHas
  <2> QED
    BY <2>1, <2>2
<1> QED
  BY <1>1, Invariance, PTL

\* The configuration that the client puts together from the server message is
\* valid, though the client does not check it (control/channel.rs run_client).
THEOREM ClientIsValid == Spec => []ClientConfigValid
<1>1. Inv => ClientConfigValid
  <2> SUFFICES ASSUME Inv, cpc = "done" PROVE Valid(cconf)
    BY DEF ClientConfigValid
  <2>1. Valid(sconf)
    BY DEF Inv, Merged, Answered, Settled
  <2>2. /\ cconf.tx = sconf.rx /\ cconf.rx = Tx(sconf) /\ cconf.rtt = sconf.rtt
        /\ sconf.rx \in Nat /\ Tx(sconf) \in Nat
    BY ClientHas DEF Configuration, Tx
  <2>3. sconf.rx # 0
    BY <2>1, <2>2 DEF Valid
  <2>4. Tx(cconf) = sconf.rx
    BY <2>2, <2>3 DEF Tx
  <2> QED
    BY <2>1, <2>2, <2>4 DEF Valid
<1> QED
  BY <1>1, Invariance, PTL

\* The server settles on what the table above combine_bandwidth_configurations
\* promises (transport.rs), row by row.
LEMMA TableHolds == Inv => AgreesWithTable
<1> SUFFICES ASSUME Inv, spc \in {"bind", "serving"}
             PROVE  AgreesWithTable
  BY DEF AgreesWithTable
<1>1. /\ Failures(request, server) = {} /\ sconf = Combine(request, server)
      /\ PartialConfig(request) /\ PartialConfig(server)
  BY DEF Inv, Settled, TypeOK
<1>2. \A k \in {"rx", "tx"} :
        sconf[k] = IF SaidOf(k) = {} THEN SystemDefault[k]
                   ELSE LeastIgnoringZero(SaidOf(k))
  BY <1>1, CombineBandwidth DEF SaidOf
<1>3. \A k \in {"rtt", "timeout"} :
        sconf[k] = Over(request, Over(server, SystemDefault))[k]
  BY <1>1, CombineTimes
<1>4. {sconf.congestion} = IF SaidOf("congestion") = {}
                           THEN {SystemDefault.congestion}
                           ELSE SaidOf("congestion")
  BY <1>1, CombineCongestion DEF SaidOf, Said
<1>5. sconf.initial_congestion_window \in
        IF SaidOf("initial_congestion_window") = {}
        THEN {SystemDefault.initial_congestion_window}
        ELSE SaidOf("initial_congestion_window")
  BY <1>1, CombineWindow DEF SaidOf
<1>6. LET ranges == SaidOf("port") \ {AnyPort}
      IN IF ranges = {} THEN sconf.port = AnyPort
         ELSE /\ sconf.port # AnyPort
              /\ Span(sconf.port) = {p \in Port : \A r \in ranges : p \in Span(r)}
              /\ Span(sconf.port) # {}
  BY <1>1, CombinePort DEF SaidOf
<1> QED
  BY <1>2, <1>3, <1>4, <1>5, <1>6 DEF AgreesWithTable

\* The server settles on what every row of the table above
\* combine_bandwidth_configurations promises (transport.rs), at every moment of
\* every negotiation: bandwidths, times, congestion controller and ports; of
\* the initial congestion window, that one of the two asked for it.
THEOREM TableKept == Spec => []AgreesWithTable
BY TableHolds, Invariance, PTL

\* The server binds a port of both ranges and uses no more bandwidth than
\* either user gave.
THEOREM NothingForced == Spec => []Permitted
<1>1. Inv => Permitted
  <2> SUFFICES ASSUME Inv, spc = "serving"
               PROVE  /\ \A r \in Said(request, "port") \cup Said(server, "port") :
                           bound \in Span(r)
                      /\ \A k \in {"rx", "tx"} :
                           \A v \in (Said(request, k) \cup Said(server, k)) \ {0} :
                             (IF k = "rx" THEN sconf.rx ELSE Tx(sconf)) <= v
    BY DEF Permitted
  <2>1. /\ Failures(request, server) = {} /\ sconf = Combine(request, server)
        /\ PartialConfig(request) /\ PartialConfig(server) /\ bound \in Span(sconf.port)
    BY DEF Inv, Settled, Served, TypeOK
  <2>2. \A r \in Said(request, "port") \cup Said(server, "port") : bound \in Span(r)
    <3>1. bound \in Port /\ Span(AnyPort) = Port
      BY <2>1 DEF Span
    <3>2. ASSUME NEW r \in (Said(request, "port") \cup Said(server, "port")) \ {AnyPort}
          PROVE  bound \in Span(r)
      BY <2>1, CombinePort
    <3> QED
      BY <3>1, <3>2
  <2>3. ASSUME NEW k \in {"rx", "tx"},
               NEW v \in (Said(request, k) \cup Said(server, k)) \ {0}
        PROVE  (IF k = "rx" THEN sconf.rx ELSE Tx(sconf)) <= v
    <3> DEFINE said == Said(request, k) \cup Said(server, k)
    <3>1. sconf[k] = LeastIgnoringZero(said)
      BY <2>1, <2>3, CombineBandwidth
    <3>2. PICK a \in Nat, b \in Nat : said = {a, b}
      BY <2>1, <2>3, PartialHas DEF Said
    <3>3. v \in Nat /\ sconf[k] # 0 /\ sconf[k] <= v
      BY <2>3, <3>1, <3>2, LeastFacts DEF Lower
    <3> QED
      BY <3>3 DEF Tx
  <2> QED
    BY <2>2, <2>3
<1> QED
  BY <1>1, Invariance, PTL

===============================================================================
