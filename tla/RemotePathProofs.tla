--------------------------- MODULE RemotePathProofs ---------------------------
(***************************************************************************)
(* What the operators of RemotePath do to every path, however long: which  *)
(* components normalize_remote_directory() keeps, that it changes nothing  *)
(* when it is applied again, and that it leaves a path's meaning alone.    *)
(*                                                                         *)
(* Kept is a recursive function on the numbers up to the length of a path. *)
(* What is said of it is proved by induction on sets of numbers.           *)
(***************************************************************************)
EXTENDS RemotePath, SequenceTheorems, WellFoundedInduction, TLAPS

LEMMA LessIsWellFounded == IsWellFoundedOn({r \in Nat \X Nat : r[1] < r[2]}, Nat)
BY NatLessThanWellFounded, Zenon DEF OpToRel

\* Induction, on a set: if it does not hold all the numbers, there is a smallest one
\* that it does not hold.
LEMMA SetInduction ==
    ASSUME NEW S, 0 \in S, \A n \in Nat : n \in S => n + 1 \in S
    PROVE  Nat \subseteq S
<1> DEFINE R == {r \in Nat \X Nat : r[1] < r[2]}
<1>1. SUFFICES ASSUME Nat \ S # {} PROVE FALSE
  OBVIOUS
<1>2. PICK m \in Nat \ S : \A y \in Nat \ S : <<y, m>> \notin R
  BY <1>1, LessIsWellFounded, WFMin
<1>3. m # 0 /\ m - 1 \in Nat /\ m - 1 \notin S
  BY <1>2
<1>4. <<m - 1, m>> \in R
  BY <1>3
<1>5. QED
  BY <1>2, <1>3, <1>4

-----------------------------------------------------------------------------
(* The components that are kept.                                            *)

\* A turn of the loop in normalize_remote_directory().
Turn(s, n, before) ==
    IF s[n] \in {"", "."} THEN before ELSE Append(before, s[n])

\* The loop computes something: Kept is defined by its turns.
LEMMA KeptIsDefined ==
    ASSUME NEW C, NEW s \in Seq(C)
    PROVE  Kept(s) = [n \in 0..Len(s) |->
                         IF n = 0 THEN <<>> ELSE Turn(s, n, Kept(s)[n - 1])]
<1> DEFINE Fits(f, k) ==
               f = [n \in 0..k |-> IF n = 0 THEN <<>> ELSE Turn(s, n, f[n - 1])]
<1> DEFINE S == {k \in Nat : \E f : Fits(f, k)}
<1>1. 0 \in S
  <2>1. Fits([n \in 0..0 |-> <<>>], 0)
    OBVIOUS
  <2>2. QED
    BY <2>1
<1>2. ASSUME NEW k \in Nat, k \in S
      PROVE  k + 1 \in S
  <2>1. PICK f : Fits(f, k)
    BY <1>2
  <2> DEFINE g == [n \in 0..k + 1 |-> IF n = k + 1 THEN Turn(s, n, f[k]) ELSE f[n]]
  <2>2. ASSUME NEW n \in 0..k + 1
        PROVE  g[n] = IF n = 0 THEN <<>> ELSE Turn(s, n, g[n - 1])
    <3>1. CASE n = 0
      BY <2>1, <3>1
    <3>2. CASE n # 0 /\ n # k + 1
      <4>1. n \in 0..k /\ n - 1 \in 0..k
        BY <3>2
      <4>2. g[n] = f[n] /\ g[n - 1] = f[n - 1]
        BY <3>2, <4>1
      <4>3. f[n] = Turn(s, n, f[n - 1])
        <5> HIDE DEF g
        <5>1. QED
          BY <2>1, <3>2, <4>1
      <4>4. QED
        BY <3>2, <4>2, <4>3
    <3>3. CASE n = k + 1
      BY <3>3
    <3>4. QED
      BY <3>1, <3>2, <3>3
  <2>3. Fits(g, k + 1)
    BY <2>2
  <2>4. k + 1 \in Nat
    OBVIOUS
  <2> HIDE DEF Fits, g
  <2>5. QED
    BY <2>3, <2>4, Zenon
<1>3. Len(s) \in S
  <2> HIDE DEF S
  <2>1. QED
    BY <1>1, <1>2, SetInduction
<1>4. \E f : Fits(f, Len(s))
  BY <1>3
<1>5. Kept(s) = CHOOSE f : Fits(f, Len(s))
  BY DEF Kept, Turn
<1>6. QED
  BY <1>4, <1>5

\* The same, turn by turn.
LEMMA KeptTurns ==
    ASSUME NEW C, NEW s \in Seq(C)
    PROVE  /\ Kept(s)[0] = <<>>
           /\ \A n \in 1..Len(s) : Kept(s)[n] = Turn(s, n, Kept(s)[n - 1])
<1> DEFINE K == Kept(s)
<1>1. K = [n \in 0..Len(s) |-> IF n = 0 THEN <<>> ELSE Turn(s, n, K[n - 1])]
  BY KeptIsDefined
<1> HIDE DEF K
<1>2. Len(s) \in Nat
  OBVIOUS
<1>3. K[0] = <<>>
  BY <1>1, <1>2
<1>4. \A n \in 1..Len(s) : K[n] = Turn(s, n, K[n - 1])
  BY <1>1, <1>2
<1>5. QED
  BY <1>3, <1>4 DEF K

\* What is kept is among the components that say where to go.
LEMMA KeptAreComponents ==
    ASSUME NEW C, NEW s \in Seq(C), NEW T
    PROVE  (\A i \in 1..Len(s) : s[i] \in {"", "."} \/ s[i] \in T) =>
              \A n \in 0..Len(s) : Kept(s)[n] \in Seq(T)
<1> DEFINE K == Kept(s)
<1> DEFINE S == {k \in Nat : k <= Len(s) => K[k] \in Seq(T)}
<1>1. SUFFICES ASSUME \A i \in 1..Len(s) : s[i] \in {"", "."} \/ s[i] \in T
               PROVE  \A n \in 0..Len(s) : K[n] \in Seq(T)
  OBVIOUS
<1>2. K[0] = <<>> /\ \A n \in 1..Len(s) : K[n] = Turn(s, n, K[n - 1])
  BY KeptTurns
<1> HIDE DEF K
<1>3. 0 \in S
  <2>1. <<>> \in Seq(T)
    OBVIOUS
  <2>2. QED
    BY <1>2, <2>1
<1>4. ASSUME NEW k \in Nat, k \in S
      PROVE  k + 1 \in S
  <2>1. SUFFICES ASSUME k + 1 <= Len(s) PROVE K[k + 1] \in Seq(T)
    OBVIOUS
  <2>2. k + 1 \in 1..Len(s) /\ K[k] \in Seq(T)
    BY <1>4, <2>1
  <2>3. K[k + 1] = Turn(s, k + 1, K[k])
    BY <1>2, <2>2
  <2>4. Turn(s, k + 1, K[k]) \in Seq(T)
    <3>1. CASE s[k + 1] \in {"", "."}
      BY <2>2, <3>1, Zenon DEF Turn
    <3>2. CASE s[k + 1] \notin {"", "."}
      <4>1. s[k + 1] \in T
        BY <1>1, <2>2, <3>2, Zenon
      <4>2. Turn(s, k + 1, K[k]) = Append(K[k], s[k + 1])
        BY <3>2, Zenon DEF Turn
      <4>3. Append(K[k], s[k + 1]) \in Seq(T)
        BY <2>2, <4>1
      <4>4. QED
        BY <4>2, <4>3, Zenon
    <3>3. QED
      BY <3>1, <3>2
  <2>5. QED
    BY <2>3, <2>4
<1>5. Nat \subseteq S
  <2> HIDE DEF S
  <2>1. QED
    BY <1>3, <1>4, SetInduction
<1>6. QED
  BY <1>5

\* The loop ends with a path, and has had one all the time.
LEMMA KeptType ==
    ASSUME NEW C, NEW s \in Seq(C)
    PROVE  \A n \in 0..Len(s) : Kept(s)[n] \in Seq(C)
<1>1. \A i \in 1..Len(s) : s[i] \in C
  BY ElementOfSeq
<1>2. QED
  BY <1>1, KeptAreComponents, Zenon

\* Significant(), of any path.
LEMMA SignificantType ==
    ASSUME NEW C, NEW s \in Seq(C)
    PROVE  /\ Significant(s) \in Seq(C)
           /\ \A i \in 1..Len(Significant(s)) :
                 /\ Significant(s)[i] \notin {"", "."}
                 /\ \E j \in 1..Len(s) : Significant(s)[i] = s[j]
<1> DEFINE T == {t \in C : t \notin {"", "."} /\ \E j \in 1..Len(s) : t = s[j]}
<1>1. \A i \in 1..Len(s) : s[i] \in {"", "."} \/ s[i] \in T
  <2>1. ASSUME NEW i \in 1..Len(s)
        PROVE  s[i] \in C
    OBVIOUS
  <2>2. QED
    BY <2>1, Zenon
<1>2. \A t \in T : t \in C /\ t \notin {"", "."} /\ \E j \in 1..Len(s) : t = s[j]
  BY Zenon
<1> DEFINE r == Significant(s)
<1> HIDE DEF T, r
<1>3. r \in Seq(T)
  <2>1. Len(s) \in 0..Len(s)
    OBVIOUS
  <2>2. Kept(s)[Len(s)] \in Seq(T)
    BY <1>1, <2>1, KeptAreComponents, Zenon
  <2>3. QED
    BY <2>2, Zenon DEF Significant, r
<1>4. \A i \in 1..Len(r) : r[i] \in T
  BY <1>3
<1>5. r \in Seq(C)
  <2>1. \A t \in T : t \in C
    BY <1>2, Zenon
  <2>2. QED
    BY <1>3, <2>1
<1>6. QED
  BY <1>2, <1>4, <1>5, Zenon DEF r

\* A path, and one that goes on from there; the operator gives the provers a name to
\* match.
Joined(a, b) == a \o b

\* A turn looks at one component, and adds at the end.
LEMMA TurnOfJoined ==
    ASSUME NEW C, NEW a \in Seq(C), NEW b \in Seq(C), NEW c, c = Joined(a, b)
    PROVE  /\ \A n \in 1..Len(a) : \A p : Turn(c, n, p) = Turn(a, n, p)
           /\ \A n \in 1..Len(b), p \in Seq(C), q \in Seq(C) :
                 Turn(c, Len(a) + n, Joined(p, q)) = Joined(p, Turn(b, n, q))
<1>1. /\ \A n \in 1..Len(a) : c[n] = a[n]
      /\ \A n \in 1..Len(b) : c[Len(a) + n] = b[n]
  BY DEF Joined
<1>2. \A n \in 1..Len(a) : \A p : Turn(c, n, p) = Turn(a, n, p)
  BY <1>1, Zenon DEF Turn
<1>3. ASSUME NEW n \in 1..Len(b), NEW p \in Seq(C), NEW q \in Seq(C)
      PROVE  Turn(c, Len(a) + n, Joined(p, q)) = Joined(p, Turn(b, n, q))
  <2>1. b[n] \in C
    OBVIOUS
  <2>2. Append(Joined(p, q), b[n]) = Joined(p, Append(q, b[n]))
    <3> DEFINE last == <<b[n]>>
    <3>1. Append(p \o q, b[n]) = (p \o q) \o last /\ Append(q, b[n]) = q \o last
      BY <2>1
    <3>2. last \in Seq(C)
      BY <2>1
    <3> HIDE DEF last
    <3>3. (p \o q) \o last = p \o (q \o last)
      BY <3>2
    <3>4. QED
      BY <3>1, <3>3 DEF Joined
  <2>3. QED
    BY <1>1, <2>2, Zenon DEF Turn
<1>4. QED
  BY <1>2, <1>3, Zenon

\* What is kept of a path and then another is what is kept of each.
LEMMA SignificantOfJoined ==
    ASSUME NEW C, NEW a \in Seq(C), NEW b \in Seq(C), NEW c, c = Joined(a, b)
    PROVE  Significant(c) = Joined(Significant(a), Significant(b))
<1> DEFINE A == Kept(a)
           B == Kept(b)
           K == Kept(c)
           S == {k \in Nat : k <= Len(a) => K[k] = A[k]}
           T == {k \in Nat : k <= Len(b) => K[Len(a) + k] = Joined(A[Len(a)], B[k])}
<1>1. c \in Seq(C) /\ Len(c) = Len(a) + Len(b) /\ Len(a) \in Nat /\ Len(b) \in Nat
  BY DEF Joined
<1>2. A[0] = <<>> /\ B[0] = <<>> /\ K[0] = <<>>
  BY <1>1, KeptTurns
<1>t. /\ \A n \in 1..Len(a) : A[n] = Turn(a, n, A[n - 1])
      /\ \A n \in 1..Len(b) : B[n] = Turn(b, n, B[n - 1])
      /\ \A n \in 1..Len(c) : K[n] = Turn(c, n, K[n - 1])
  BY <1>1, KeptTurns
<1>3. /\ A[Len(a)] \in Seq(C)
      /\ \A n \in 0..Len(b) : B[n] \in Seq(C)
  <2>1. Len(a) \in 0..Len(a)
    OBVIOUS
  <2>2. QED
    BY <2>1, KeptType, Zenon
<1>4. /\ \A n \in 1..Len(a) : \A p : Turn(c, n, p) = Turn(a, n, p)
      /\ \A n \in 1..Len(b), p \in Seq(C), q \in Seq(C) :
            Turn(c, Len(a) + n, Joined(p, q)) = Joined(p, Turn(b, n, q))
  BY TurnOfJoined
<1> HIDE DEF A, B, K
<1>5. Nat \subseteq S
  <2>1. 0 \in S
    BY <1>2, Zenon
  <2>2. ASSUME NEW k \in Nat, k \in S
        PROVE  k + 1 \in S
    <3>1. SUFFICES ASSUME k + 1 <= Len(a) PROVE K[k + 1] = A[k + 1]
      OBVIOUS
    <3>2. k + 1 \in 1..Len(a) /\ k + 1 \in 1..Len(c) /\ (k + 1) - 1 = k /\ k <= Len(a)
      BY <1>1, <3>1
    <3>3. K[k] = A[k]
      BY <2>2, <3>2, Zenon
    <3>4. K[k + 1] = Turn(c, k + 1, K[k]) /\ A[k + 1] = Turn(a, k + 1, A[k])
      BY <1>t, <3>2, Zenon
    <3>5. QED
      BY <1>4, <3>2, <3>3, <3>4, Zenon
  <2>3. QED
    <3> HIDE DEF S
    <3>1. QED
      BY <2>1, <2>2, SetInduction
<1>6. K[Len(a)] = A[Len(a)]
  BY <1>1, <1>5
<1>7. Nat \subseteq T
  <2>1. 0 \in T
    <3>1. Joined(A[Len(a)], <<>>) = A[Len(a)] /\ Len(a) + 0 = Len(a)
      BY <1>1, <1>3 DEF Joined
    <3>2. K[Len(a) + 0] = Joined(A[Len(a)], B[0])
      BY <1>2, <1>6, <3>1, Zenon
    <3>3. QED
      BY <3>2
  <2>2. ASSUME NEW k \in Nat, k \in T
        PROVE  k + 1 \in T
    <3>1. SUFFICES ASSUME k + 1 <= Len(b)
                   PROVE  K[Len(a) + (k + 1)] = Joined(A[Len(a)], B[k + 1])
      <4>1. k + 1 \in Nat
        OBVIOUS
      <4>2. QED
        BY <4>1, Zenon
    <3>2. /\ k + 1 \in 1..Len(b) /\ Len(a) + (k + 1) \in 1..Len(c)
          /\ k \in 0..Len(b) /\ k <= Len(b)
          /\ (k + 1) - 1 = k /\ (Len(a) + (k + 1)) - 1 = Len(a) + k
      BY <1>1, <3>1
    <3>3. K[Len(a) + k] = Joined(A[Len(a)], B[k])
      BY <2>2, <3>2, Zenon
    <3>4. /\ K[Len(a) + (k + 1)] = Turn(c, Len(a) + (k + 1), K[Len(a) + k])
          /\ B[k + 1] = Turn(b, k + 1, B[k])
      BY <1>t, <3>2, Zenon
    <3>5. Turn(c, Len(a) + (k + 1), Joined(A[Len(a)], B[k])) = Joined(A[Len(a)], Turn(b, k + 1, B[k]))
      BY <1>3, <1>4, <3>2, Zenon
    <3>6. QED
      BY <3>3, <3>4, <3>5, Zenon
  <2>3. QED
    <3> HIDE DEF T
    <3>1. QED
      BY <2>1, <2>2, SetInduction
<1>8. K[Len(c)] = Joined(A[Len(a)], B[Len(b)])
  <2>1. Len(b) <= Len(b)
    BY <1>1
  <2>2. QED
    BY <1>1, <1>7, <2>1, Zenon
<1>9. QED
  BY <1>8, Zenon DEF Significant, A, B, K

\* A path of which every component says where to go is kept as it is.
LEMMA SignificantAgain ==
    ASSUME NEW C, NEW s \in Seq(C)
    PROVE  (\A i \in 1..Len(s) : s[i] \notin {"", "."}) => Significant(s) = s
<1> DEFINE K == Kept(s)
           S == {k \in Nat : k <= Len(s) => K[k] = SubSeq(s, 1, k)}
<1>1. SUFFICES ASSUME \A i \in 1..Len(s) : s[i] \notin {"", "."}
               PROVE  Significant(s) = s
  OBVIOUS
<1>2. K[0] = <<>> /\ \A n \in 1..Len(s) : K[n] = Turn(s, n, K[n - 1])
  BY KeptTurns
<1> HIDE DEF K
<1>3. 0 \in S
  <2>1. SubSeq(s, 1, 0) = <<>>
    OBVIOUS
  <2>2. QED
    BY <1>2, <2>1, Zenon
<1>4. ASSUME NEW k \in Nat, k \in S
      PROVE  k + 1 \in S
  <2>1. SUFFICES ASSUME k + 1 <= Len(s) PROVE K[k + 1] = SubSeq(s, 1, k + 1)
    OBVIOUS
  <2>2. k + 1 \in 1..Len(s) /\ (k + 1) - 1 = k /\ k <= Len(s)
    BY <2>1
  <2>a. K[k] = SubSeq(s, 1, k)
    BY <1>4, <2>2, Zenon
  <2>3. K[k + 1] = Turn(s, k + 1, K[k])
    BY <1>2, <2>2, Zenon
  <2>4. Turn(s, k + 1, K[k]) = Append(K[k], s[k + 1])
    BY <1>1, <2>2, Zenon DEF Turn
  <2>5. SubSeq(s, 1, k + 1) = Append(SubSeq(s, 1, k), s[k + 1])
    BY <2>1
  <2>6. QED
    BY <2>a, <2>3, <2>4, <2>5, Zenon
<1>5. Nat \subseteq S
  <2> HIDE DEF S
  <2>1. QED
    BY <1>3, <1>4, SetInduction
<1>6. K[Len(s)] = SubSeq(s, 1, Len(s)) /\ SubSeq(s, 1, Len(s)) = s
  BY <1>5
<1>7. QED
  BY <1>6 DEF Significant, K

LEMMA Single == ASSUME NEW S, NEW e \in S PROVE <<e>> \in Seq(S)
OBVIOUS

\* A root, and a path under it.
LEMMA Rooted ==
    ASSUME NEW S, NEW root \in S, NEW parts \in Seq(S), NEW d, d = <<root>> \o parts
    PROVE  /\ d \in Seq(S) /\ d # <<>> /\ d[1] = root /\ Tail(d) = parts
           /\ \A i \in DOMAIN d : i = 1 \/ (i - 1 \in DOMAIN parts /\ d[i] = parts[i - 1])
OBVIOUS

\* A root alone, with a slash behind it.
LEMMA RootTwice ==
    ASSUME NEW S, NEW e \in S, NEW d, d = <<e, e>>
    PROVE  /\ d \in Seq(S) /\ d # <<>> /\ d[1] = e
           /\ Len(d) = 2 /\ Tail(d) = <<e>> /\ <<e>> \in Seq(S)
           /\ \A i \in DOMAIN d : d[i] = e
           /\ \A i \in DOMAIN <<e>> : <<e>>[i] = e
OBVIOUS

\* A path's first component, and the others.
LEMMA FirstAndTail ==
    ASSUME NEW S, NEW s \in Seq(S), s # <<>>
    PROVE  /\ s[1] \in S /\ 1 \in DOMAIN s /\ Tail(s) \in Seq(S)
           /\ \A i \in DOMAIN Tail(s) : i + 1 \in DOMAIN s /\ Tail(s)[i] = s[i + 1]
           /\ Len(s) \in Nat \ {0} /\ (Len(s) = 1 => Tail(s) = <<>>)
<1>1. /\ s[1] \in S /\ 1 \in DOMAIN s /\ Tail(s) \in Seq(S) /\ Len(s) \in Nat \ {0}
      /\ Len(Tail(s)) = Len(s) - 1
  OBVIOUS
<1>2. \A i \in DOMAIN Tail(s) : i + 1 \in DOMAIN s /\ Tail(s)[i] = s[i + 1]
  OBVIOUS
<1>3. ASSUME Len(s) = 1
      PROVE  Tail(s) = <<>>
  <2>1. Len(Tail(s)) = 0
    BY <1>1, <1>3
  <2>2. QED
    BY <1>1, <2>1, EmptySeq
<1>4. QED
  BY <1>1, <1>2, <1>3

\* One component.
LEMMA SignificantOfOne ==
    ASSUME NEW C, NEW e \in C
    PROVE  Significant(<<e>>) = IF e \in {"", "."} THEN <<>> ELSE <<e>>
<1> DEFINE K == Kept(<<e>>)
<1>1. <<e>> \in Seq(C) /\ Len(<<e>>) = 1 /\ 1 \in 1..Len(<<e>>) /\ 1 - 1 = 0
  <2>1. <<e>> \in Seq(C)
    BY Single
  <2>2. Len(<<e>>) = 1
    OBVIOUS
  <2>3. 1 \in 1..1 /\ 1 - 1 = 0
    OBVIOUS
  <2>4. QED
    BY <2>1, <2>2, <2>3, Zenon
<1>2. K[0] = <<>> /\ K[1] = Turn(<<e>>, 1, K[0])
  BY <1>1, KeptTurns, Zenon
<1>3. <<e>>[1] = e /\ Append(<<>>, e) = <<e>>
  OBVIOUS
<1>4. K[1] = IF e \in {"", "."} THEN <<>> ELSE <<e>>
  BY <1>2, <1>3, Zenon DEF Turn
<1>5. QED
  BY <1>1, <1>4, Zenon DEF Significant

LEMMA SignificantOfNothing == Significant(<<>>) = <<>>
<1>1. <<>> \in Seq({}) /\ Len(<<>>) = 0
  BY EmptySeq
<1>2. QED
  BY <1>1, KeptTurns, Zenon DEF Significant

-----------------------------------------------------------------------------
(* normalize_remote_directory().                                            *)

\* A path that is taken begins with a slash or a tilde, and becomes its root and
\* the components that say where to go.
LEMMA NormalForm ==
    ASSUME NEW C, NEW path \in Seq(C), NormalizeRemoteDirectory(path) # Invalid
    PROVE  /\ path # <<>> /\ path[1] \in {"", "~"}
           /\ ~Among(Controls, path)
           /\ NormalizeRemoteDirectory(path) =
                 IF Significant(Tail(path)) = <<>> /\ path[1] = "" THEN <<"", "">>
                 ELSE <<path[1]>> \o Significant(Tail(path))
           /\ NormalizeRemoteDirectory(path) = <<"~">> \/ ~Among({".."}, Tail(path))
<1>1. ~Among(Controls, path)
  BY Zenon DEF NormalizeRemoteDirectory
<1>2. CASE path = <<"~">>
  <2>1. path # <<>> /\ path[1] = "~" /\ Tail(path) = <<>> /\ <<"~">> \o <<>> = <<"~">>
    BY <1>2
  <2>2. NormalizeRemoteDirectory(path) = <<"~">>
    BY <1>1, <1>2, Zenon DEF NormalizeRemoteDirectory
  <2>3. Significant(Tail(path)) = <<>> /\ "~" # ""
    BY <2>1, SignificantOfNothing, Zenon
  <2>4. <<path[1]>> \o Significant(Tail(path)) = <<"~">>
    BY <2>1, <2>3, Zenon
  <2>5. NormalizeRemoteDirectory(path) =
          IF Significant(Tail(path)) = <<>> /\ path[1] = "" THEN <<"", "">>
          ELSE <<path[1]>> \o Significant(Tail(path))
    BY <2>1, <2>2, <2>3, <2>4, Zenon
  <2>6. QED
    BY <1>1, <2>1, <2>2, <2>5, Zenon
<1>3. CASE path # <<"~">>
  <2>1. ~IsRelative(path) /\ ~Among({".."}, Tail(path))
    BY <1>1, <1>3, Zenon DEF NormalizeRemoteDirectory
  <2>2. path # <<>> /\ path[1] \in {"", "~"}
    <3>1. Len(<<>>) < 2
      OBVIOUS
    <3>2. QED
      BY <2>1, <3>1, Zenon DEF IsRelative
  <2>3. <<"~">> \o <<>> = <<"~">> /\ "~" # ""
    OBVIOUS
  <2>4. NormalizeRemoteDirectory(path) =
          IF Significant(Tail(path)) # <<>> THEN <<path[1]>> \o Significant(Tail(path))
          ELSE IF path[1] = "~" THEN <<"~">> ELSE <<"", "">>
    BY <1>1, <1>3, <2>1, Zenon DEF NormalizeRemoteDirectory
  <2>5. NormalizeRemoteDirectory(path) =
          IF Significant(Tail(path)) = <<>> /\ path[1] = "" THEN <<"", "">>
          ELSE <<path[1]>> \o Significant(Tail(path))
    BY <2>2, <2>3, <2>4, Zenon
  <2>6. QED
    BY <1>1, <2>1, <2>2, <2>5, Zenon
<1>4. QED
  BY <1>2, <1>3

\* What that path is made of.
LEMMA NormalizedType ==
    ASSUME NEW C, NEW path \in Seq(C), NormalizeRemoteDirectory(path) # Invalid
    PROVE  LET d == NormalizeRemoteDirectory(path)
           IN  /\ d \in Seq(C) /\ d # <<>> /\ d[1] = path[1]
               /\ Tail(d) \in Seq(C)
               /\ Significant(Tail(d)) = Significant(Tail(path))
               /\ ~Among(Controls, d)
               /\ d = <<"~">> \/ ~Among({".."}, Tail(d))
<1> DEFINE parts == Significant(Tail(path))
           d == NormalizeRemoteDirectory(path)
<1>1. /\ path # <<>> /\ path[1] \in {"", "~"} /\ ~Among(Controls, path)
      /\ d = IF parts = <<>> /\ path[1] = "" THEN <<"", "">> ELSE <<path[1]>> \o parts
      /\ d = <<"~">> \/ ~Among({".."}, Tail(path))
  BY NormalForm
<1>2. /\ Tail(path) \in Seq(C)
      /\ path[1] \in C /\ 1 \in DOMAIN path
      /\ \A i \in DOMAIN Tail(path) : i + 1 \in DOMAIN path /\ Tail(path)[i] = path[i + 1]
  BY <1>1, FirstAndTail, Zenon
<1>3. /\ parts \in Seq(C)
      /\ \A i \in 1..Len(parts) : /\ parts[i] \notin {"", "."}
                                   /\ \E j \in 1..Len(Tail(path)) : parts[i] = Tail(path)[j]
  BY <1>2, SignificantType, Zenon
<1> HIDE DEF parts, d
<1>4. CASE parts = <<>> /\ path[1] = ""
  <2>1. d = <<"", "">>
    BY <1>1, <1>4, Zenon
  <2>2. /\ d \in Seq(C) /\ d # <<>> /\ d[1] = "" /\ Tail(d) = <<"">>
        /\ <<"">> \in Seq(C)
        /\ \A i \in DOMAIN d : d[i] = ""
        /\ \A i \in DOMAIN Tail(d) : Tail(d)[i] = ""
    <3> DEFINE root == path[1]
    <3>1. root \in C /\ d = <<root, root>>
      BY <1>2, <1>4, <2>1, Zenon
    <3> HIDE DEF root
    <3>2. /\ d \in Seq(C) /\ d # <<>> /\ d[1] = root /\ Tail(d) = <<root>>
          /\ <<root>> \in Seq(C)
          /\ \A i \in DOMAIN d : d[i] = root
          /\ \A i \in DOMAIN <<root>> : <<root>>[i] = root
      BY <3>1, RootTwice, Zenon
    <3>3. QED
      BY <1>4, <3>2, Zenon DEF root
  <2>3. Significant(<<"">>) = <<>>
    <3>1. "" \in C /\ "" \in {"", "."}
      BY <1>2, <1>4, Zenon
    <3>2. QED
      BY <3>1, SignificantOfOne, Zenon
  <2>6. "" \notin {".."}
    OBVIOUS
  <2>7. ~Among(Controls, d)
    BY <1>1, <1>2, <1>4, <2>2, Zenon DEF Among
  <2>8. ~Among({".."}, Tail(d))
    BY <2>2, <2>6, Zenon DEF Among
  <2>9. QED
    BY <1>4, <2>2, <2>3, <2>7, <2>8, Zenon DEF parts, d
<1>5. CASE ~(parts = <<>> /\ path[1] = "")
  <2> DEFINE root == path[1]
  <2>1. d = <<root>> \o parts
    BY <1>1, <1>5, Zenon
  <2>2. root \in C
    BY <1>2
  <2> HIDE DEF root
  <2>3. /\ d \in Seq(C) /\ d # <<>> /\ d[1] = root /\ Tail(d) = parts
        /\ \A i \in DOMAIN d : i = 1 \/ (i - 1 \in DOMAIN parts /\ d[i] = parts[i - 1])
    <3>1. parts \in Seq(C)
      BY <1>3, Zenon
    <3>2. QED
      BY <2>1, <2>2, <3>1, Rooted
  <2>4. Significant(Tail(d)) = parts
    BY <1>3, <2>3, SignificantAgain, Zenon
  <2>6. DOMAIN Tail(path) = 1..Len(Tail(path)) /\ DOMAIN parts = 1..Len(parts)
    BY <1>2, <1>3, LenProperties
  <2>7. ASSUME Among(Controls, d) PROVE FALSE
    <3>1. PICK i \in DOMAIN d : d[i] \in Controls
      BY <2>7, Zenon DEF Among
    <3>2. \E j \in DOMAIN path : d[i] = path[j]
      <4>1. CASE i = 1
        BY <1>2, <2>3, <4>1, Zenon DEF root
      <4>2. CASE i - 1 \in DOMAIN parts /\ d[i] = parts[i - 1]
        <5>1. PICK j \in DOMAIN Tail(path) : d[i] = Tail(path)[j]
          BY <1>3, <2>6, <4>2, Zenon
        <5>2. QED
          BY <1>2, <5>1, Zenon
      <4>3. QED
        BY <2>3, <3>1, <4>1, <4>2, Zenon
    <3>3. QED
      BY <1>1, <3>1, <3>2, Zenon DEF Among
  <2>8. ASSUME Among({".."}, Tail(d)), d # <<"~">> PROVE FALSE
    <3>1. PICK i \in DOMAIN parts : parts[i] \in {".."}
      BY <2>3, <2>8, Zenon DEF Among
    <3>2. \E j \in DOMAIN Tail(path) : Tail(path)[j] \in {".."}
      BY <1>3, <2>6, <3>1, Zenon
    <3>3. QED
      BY <1>1, <2>8, <3>2, Zenon DEF Among
  <2>9. QED
    BY <1>3, <2>3, <2>4, <2>7, <2>8, Zenon DEF parts, d, root
<1>6. QED
  BY <1>4, <1>5

\* normalize_remote_directory(): what it has returned it returns again, so it does not
\* matter that the window and the transport both call it.
THEOREM NormalizedIsNormal ==
    ASSUME NEW C, NEW path \in Seq(C), NormalizeRemoteDirectory(path) # Invalid
    PROVE  NormalizeRemoteDirectory(NormalizeRemoteDirectory(path))
              = NormalizeRemoteDirectory(path)
<1> DEFINE parts == Significant(Tail(path))
           d == NormalizeRemoteDirectory(path)
<1>1. /\ path[1] \in {"", "~"}
      /\ d = IF parts = <<>> /\ path[1] = "" THEN <<"", "">> ELSE <<path[1]>> \o parts
  BY NormalForm
<1>2. /\ d \in Seq(C) /\ d # <<>> /\ d[1] = path[1]
      /\ Significant(Tail(d)) = parts
      /\ ~Among(Controls, d) /\ (d = <<"~">> \/ ~Among({".."}, Tail(d)))
  BY NormalizedType
<1> HIDE DEF d, parts
<1>3. CASE d = <<"~">>
  BY <1>2, <1>3, Zenon DEF NormalizeRemoteDirectory, d
<1>4. CASE d # <<"~">>
  <2>1. Len(d) \in Nat \ {0} /\ (Len(d) = 1 => Tail(d) = <<>>)
    BY <1>2, FirstAndTail, Zenon
  <2>2. ~IsRelative(d)
    <3>1. CASE parts = <<>> /\ path[1] = ""
      <4>1. Len(d) = 2
        BY <1>1, <3>1, RootTwice, Zenon
      <4>2. ~(Len(d) < 2)
        BY <4>1
      <4>3. QED
        BY <1>1, <1>2, <4>2, Zenon DEF IsRelative
    <3>2. CASE ~(parts = <<>> /\ path[1] = "")
      <4>1. Len(d) # 1
        <5>1. SUFFICES ASSUME parts = <<>> PROVE FALSE
          BY <1>2, <2>1, SignificantOfNothing, Zenon
        <5>2. d = <<path[1]>> \o <<>>
          BY <1>1, <3>2, <5>1, Zenon
        <5>3. <<"~">> \o <<>> = <<"~">>
          OBVIOUS
        <5>4. QED
          BY <1>1, <1>4, <3>2, <5>1, <5>2, <5>3, Zenon
      <4>2. ~(Len(d) < 2)
        <5>1. Len(d) \in Nat \ {0}
          BY <2>1, Zenon
        <5>2. \A n \in Nat \ {0} : n # 1 => ~(n < 2)
          OBVIOUS
        <5>3. QED
          BY <4>1, <5>1, <5>2, Zenon
      <4>3. QED
        BY <1>1, <1>2, <4>2, Zenon DEF IsRelative
    <3>3. QED
      BY <3>1, <3>2, Zenon
  <2>3. NormalizeRemoteDirectory(d) =
          IF parts # <<>> THEN <<d[1]>> \o parts
          ELSE IF d[1] = "~" THEN <<"~">> ELSE <<"", "">>
    BY <1>2, <1>4, <2>2, Zenon DEF NormalizeRemoteDirectory
  <2>4. parts = <<>> => d[1] = ""
    <3>1. <<"~">> \o <<>> = <<"~">>
      OBVIOUS
    <3>2. QED
      BY <1>1, <1>2, <1>4, <3>1, Zenon
  <2>5. "" # "~"
    OBVIOUS
  <2>6. NormalizeRemoteDirectory(d) = d
    BY <1>1, <1>2, <2>3, <2>4, <2>5, Zenon
  <2>7. QED
    BY <2>6 DEF d
<1>5. QED
  BY <1>3, <1>4

-----------------------------------------------------------------------------
(* The receiver's side: remote_shell_path() and join_remote().              *)

\* A tilde stands for $HOME; the rest is as it is written.
LEMMA ShellPath ==
    ASSUME NEW C, Home \in Seq(C), NEW s \in Seq(C), s # <<>>
    PROVE  Meaning(s) = IF s[1] = "~"
                          THEN Joined(Significant(Home), Significant(Tail(s)))
                          ELSE Significant(Tail(s))
<1>1. Tail(s) \in Seq(C)
  BY FirstAndTail
<1>2. CASE s[1] = "~"
  <2>1. RemoteShellPath(s) = Joined(Home, Tail(s))
    BY <1>2 DEF RemoteShellPath, Joined
  <2>2. Significant(RemoteShellPath(s)) = Joined(Significant(Home), Significant(Tail(s)))
    BY <1>1, <2>1, SignificantOfJoined
  <2>3. QED
    BY <1>2, <2>2, Zenon DEF Meaning
<1>3. CASE s[1] # "~"
  BY <1>3, Zenon DEF Meaning, RemoteShellPath
<1>4. QED
  BY <1>2, <1>3

\* normalize_remote_directory(): the receiver takes the normalised path for what it
\* would have taken the path for.
THEOREM NormalizedMeansTheSame ==
    ASSUME NEW path \in Seq(STRING), NormalizeRemoteDirectory(path) # Invalid
    PROVE  Meaning(NormalizeRemoteDirectory(path)) = Meaning(path)
<1> DEFINE d == NormalizeRemoteDirectory(path)
<1>1. path # <<>>
  BY NormalForm
<1>2. /\ d \in Seq(STRING) /\ d # <<>> /\ d[1] = path[1]
      /\ Significant(Tail(d)) = Significant(Tail(path))
  BY NormalizedType
<1> HIDE DEF d
<1>3. /\ Meaning(d) = IF d[1] = "~" THEN Joined(Significant(Home), Significant(Tail(d)))
                                    ELSE Significant(Tail(d))
      /\ Meaning(path) = IF path[1] = "~"
                           THEN Joined(Significant(Home), Significant(Tail(path)))
                           ELSE Significant(Tail(path))
  BY <1>1, <1>2, ShellPath, HomeIsAPath, Zenon
<1>4. Meaning(d) = Meaning(path)
  <2>1. CASE path[1] = "~"
    BY <1>2, <1>3, <2>1, Zenon
  <2>2. CASE path[1] # "~"
    BY <1>2, <1>3, <2>2, Zenon
  <2>3. QED
    BY <2>1, <2>2, Zenon
<1>5. QED
  BY <1>4, Zenon DEF d

\* The path j leads where d does, and then to a name.
GoesOn(C, d, j, name) ==
    /\ j \in Seq(C) /\ j # <<>> /\ j[1] = d[1]
    /\ \E front \in Seq(C) : /\ Tail(j) = Joined(front, <<name>>)
                             /\ Significant(Tail(d)) = Significant(front)

\* join_remote(): the name comes after the last component.
LEMMA NameAtTheEnd ==
    ASSUME NEW C, NEW d \in Seq(C), d # <<>>, NEW name \in C
    PROVE  GoesOn(C, d, Append(d, name), name)
<1> DEFINE j == Append(d, name)
<1>1. j \in Seq(C) /\ j # <<>> /\ j[1] = d[1] /\ Tail(d) \in Seq(C)
  OBVIOUS
<1>2. Tail(j) = Joined(Tail(d), <<name>>)
  BY DEF Joined
<1> HIDE DEF j
<1>3. GoesOn(C, d, j, name)
  BY <1>1, <1>2, Zenon DEF GoesOn
<1>4. QED
  BY <1>3 DEF j

\* All but the first component, with the last by itself.
LEMMA TailAndLast ==
    ASSUME NEW S, NEW s \in Seq(S), Len(s) > 1
    PROVE  Tail(s) = Joined(SubSeq(s, 2, Len(s) - 1), <<s[Len(s)]>>)
<1>1. s # <<>> /\ 2 \in 1..Len(s) /\ Len(s) \in 2..Len(s)
  OBVIOUS
<1>2. Tail(s) = SubSeq(s, 2, Len(s))
  BY <1>1, TailIsSubSeq
<1>3. SubSeq(s, 2, Len(s)) = SubSeq(s, 2, Len(s) - 1) \o <<s[Len(s)]>>
  BY <1>1, SubSeqRecursiveSecond
<1>4. QED
  BY <1>2, <1>3 DEF Joined

LEMMA SameFront ==
    ASSUME NEW S, NEW s \in Seq(S), NEW t \in Seq(S), NEW n \in Nat,
           n <= Len(s), n <= Len(t), \A i \in 1..n : s[i] = t[i]
    PROVE  SubSeq(s, 2, n) = SubSeq(t, 2, n)
OBVIOUS

\* join_remote(): or it takes the place of an empty component at the end.
LEMMA NameInTheEnd ==
    ASSUME NEW C, NEW d \in Seq(C), Len(d) > 1, NEW name \in C
    PROVE  d[Len(d)] = "" => GoesOn(C, d, [d EXCEPT ![Len(d)] = name], name)
<1> DEFINE front == SubSeq(d, 2, Len(d) - 1)
           j == [d EXCEPT ![Len(d)] = name]
           last == d[Len(d)]
<1>1. SUFFICES ASSUME last = "" PROVE GoesOn(C, d, j, name)
  OBVIOUS
<1>2. j \in Seq(C) /\ j # <<>> /\ j[1] = d[1] /\ Len(j) = Len(d) /\ j[Len(j)] = name
      /\ Len(j) > 1
  OBVIOUS
<1>3. front \in Seq(C) /\ last \in C /\ <<last>> \in Seq(C)
  OBVIOUS
<1>4. SubSeq(j, 2, Len(j) - 1) = front
  <2>1. \A i \in 1..Len(d) - 1 : j[i] = d[i]
    OBVIOUS
  <2>2. Len(d) - 1 \in Nat /\ Len(d) - 1 <= Len(d) /\ Len(d) - 1 <= Len(j)
    BY <1>2
  <2>3. SubSeq(j, 2, Len(d) - 1) = SubSeq(d, 2, Len(d) - 1)
    BY <1>2, <2>1, <2>2, SameFront
  <2>4. QED
    BY <1>2, <2>3
<1>5. Tail(d) = Joined(front, <<last>>)
  BY TailAndLast
<1>6. Tail(j) = Joined(front, <<name>>)
  BY <1>2, <1>4, TailAndLast, Zenon
<1> HIDE DEF front, last, j
<1>7. Significant(Tail(d)) = Significant(front)
  <2>1. Significant(<<last>>) = <<>>
    BY <1>1, <1>3, SignificantOfOne, Zenon
  <2>2. Significant(Tail(d)) = Joined(Significant(front), Significant(<<last>>))
    BY <1>3, <1>5, SignificantOfJoined, Zenon
  <2>3. Significant(front) \in Seq(C)
    BY <1>3, SignificantType
  <2>4. Joined(Significant(front), <<>>) = Significant(front)
    BY <2>3 DEF Joined
  <2>5. QED
    BY <2>1, <2>2, <2>4, Zenon
<1>8. QED
  BY <1>2, <1>3, <1>6, <1>7, Zenon DEF GoesOn

LEMMA LastOfJoined ==
    ASSUME NEW S, NEW t \in Seq(S), NEW e \in S
    PROVE  Joined(t, <<e>>) = Append(t, e)
BY DEF Joined

LEMMA LastOfAll ==
    ASSUME NEW S, NEW s \in Seq(S), NEW t \in Seq(S), NEW e \in S
    PROVE  Joined(s, Append(t, e)) = Append(Joined(s, t), e)
BY DEF Joined

\* The receiver finds the name where the other path leads.
LEMMA NameUnder ==
    ASSUME NEW C, Home \in Seq(C), NEW d \in Seq(C), d # <<>>, NEW name \in C,
           NEW j, GoesOn(C, d, j, name)
    PROVE  name \notin {"", "."} => Meaning(j) = Append(Meaning(d), name)
<1>1. SUFFICES ASSUME name \notin {"", "."} PROVE Meaning(j) = Append(Meaning(d), name)
  OBVIOUS
<1>2. j \in Seq(C) /\ j # <<>> /\ j[1] = d[1]
  BY Zenon DEF GoesOn
<1>3. PICK front \in Seq(C) : /\ Tail(j) = Joined(front, <<name>>)
                              /\ Significant(Tail(d)) = Significant(front)
  BY Zenon DEF GoesOn
<1> DEFINE home == Significant(Home)
           rest == Significant(front)
<1>4. Significant(Tail(j)) = Joined(rest, <<name>>)
  <2>1. <<name>> \in Seq(C)
    BY Single, Zenon
  <2>2. Significant(<<name>>) = <<name>>
    BY <1>1, SignificantOfOne, Zenon
  <2>3. Significant(Tail(j)) = Joined(rest, Significant(<<name>>))
    BY <1>3, <2>1, SignificantOfJoined, Zenon
  <2>4. QED
    BY <2>2, <2>3, Zenon
<1>5. Meaning(d) = IF d[1] = "~" THEN Joined(home, rest) ELSE rest
  BY <1>3, ShellPath, Zenon
<1>6. Meaning(j) = IF d[1] = "~" THEN Joined(home, Joined(rest, <<name>>))
                   ELSE Joined(rest, <<name>>)
  BY <1>2, <1>4, ShellPath, Zenon
<1>7. home \in Seq(C) /\ rest \in Seq(C)
  BY SignificantType, Zenon
<1> HIDE DEF home, rest
<1>8. Joined(rest, <<name>>) = Append(rest, name)
  BY <1>7, LastOfJoined, Zenon
<1>9. Joined(home, Joined(rest, <<name>>)) = Append(Joined(home, rest), name)
  <2>1. Joined(home, Append(rest, name)) = Append(Joined(home, rest), name)
    <3>1. name \in C
      OBVIOUS
    <3>2. QED
      BY <1>7, <3>1, LastOfAll
  <2>2. QED
    BY <1>8, <2>1, Zenon
<1>10. QED
  <2>1. CASE d[1] = "~"
    BY <1>5, <1>6, <1>9, <2>1, Zenon
  <2>2. CASE d[1] # "~"
    BY <1>5, <1>6, <1>8, <2>2, Zenon
  <2>3. QED
    BY <2>1, <2>2, Zenon

LEMMA FileUnder ==
    ASSUME NEW C, Home \in Seq(C), NEW d \in Seq(C), d # <<>>, NEW file \in C
    PROVE  file \notin {"", "."} =>
              Significant(RemoteShellPath(JoinRemote(d, file))) = Append(Meaning(d), file)
<1>1. GoesOn(C, d, JoinRemote(d, file), file)
  <2>1. CASE d[Len(d)] = "" /\ Len(d) > 1
    <3>1. JoinRemote(d, file) = [d EXCEPT ![Len(d)] = file]
      BY <2>1, Zenon DEF JoinRemote
    <3>2. d[Len(d)] = "" => GoesOn(C, d, [d EXCEPT ![Len(d)] = file], file)
      <4>1. Len(d) > 1
        BY <2>1, Zenon
      <4>2. QED
        BY <4>1, NameInTheEnd, Zenon
    <3>3. QED
      BY <2>1, <3>1, <3>2, Zenon
  <2>2. CASE ~(d[Len(d)] = "" /\ Len(d) > 1)
    <3>1. JoinRemote(d, file) = Append(d, file)
      BY <2>2, Zenon DEF JoinRemote
    <3>2. QED
      BY <3>1, NameAtTheEnd, Zenon
  <2>3. QED
    BY <2>1, <2>2, Zenon
<1>2. QED
  BY <1>1, NameUnder, Zenon DEF Meaning

\* join_remote() and remote_shell_path(): the receiver finds the file under its name in
\* the directory, whether or not the directory ends with a slash.
THEOREM FileIsInDirectory ==
    ASSUME NEW d \in Seq(STRING), d # <<>>, NEW file \in STRING \ {"", "."}
    PROVE  Significant(RemoteShellPath(JoinRemote(d, file))) = Append(Meaning(d), file)
BY FileUnder, HomeIsAPath, Zenon
=============================================================================
