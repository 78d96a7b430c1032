--------------------------- MODULE ChildOutputProofs ---------------------------
(***************************************************************************)
(* What holds of ChildOutput for every prompt, all sizes of its buffers,   *)
(* and output of any length, in whatever pieces it is read.                *)
(***************************************************************************)
EXTENDS ChildOutput, SequenceTheorems, TLAPS

-----------------------------------------------------------------------------
(* The beginning and the end of a text.                                     *)

\* The beginning of a text, place by place.
IsHead(S, head, s, n) ==
    /\ head \in Seq(S) /\ Len(head) \in Nat /\ Len(head) <= n /\ Len(head) <= Len(s)
    /\ Len(head) = n \/ Len(head) = Len(s)
    /\ \A i \in 1..Len(head) : head[i] = s[i]

LEMMA Heads ==
    ASSUME NEW S, NEW s \in Seq(S), NEW n \in Nat
    PROVE  IsHead(S, FirstOf(s, n), s, n)
<1> DEFINE head == FirstOf(s, n)
<1>1. /\ head \in Seq(S) /\ Len(head) = Least(n, Len(s))
      /\ \A i \in 1..Least(n, Len(s)) : head[i] = s[i]
  BY DEF FirstOf, Least
<1> HIDE DEF head
<1>2. QED
  BY <1>1 DEF IsHead, Least, head

\* One text after the other, place by place.
IsJoined(S, u, s, t) ==
    /\ u \in Seq(S) /\ Len(u) = Len(s) + Len(t) /\ Len(s) \in Nat /\ Len(t) \in Nat
    /\ \A i \in 1..Len(u) : u[i] = IF i <= Len(s) THEN s[i] ELSE t[i - Len(s)]

LEMMA JoinedType ==
    ASSUME NEW S, NEW s \in Seq(S), NEW t \in Seq(S), NEW u, u = s \o t
    PROVE  IsJoined(S, u, s, t)
BY DEF IsJoined

LEMMA SameText ==
    ASSUME NEW S, NEW s \in Seq(S), NEW t \in Seq(S), Len(s) = Len(t),
           \A i \in 1..Len(s) : s[i] = t[i]
    PROVE  s = t
OBVIOUS

\* append_bounded(): the beginning, taken piece by piece.
LEMMA FirstOfJoined ==
    ASSUME NEW S, NEW s \in Seq(S), NEW t \in Seq(S), NEW n \in Nat
    PROVE  FirstOf(s, n) \o FirstOf(t, n - Len(FirstOf(s, n))) = FirstOf(s \o t, n)
<1> DEFINE a == FirstOf(s, n)
           m == n - Len(a)
           b == FirstOf(t, m)
           u == a \o b
           v == s \o t
           c == FirstOf(v, n)
<1>1. IsHead(S, a, s, n) /\ IsJoined(S, v, s, t)
  BY Heads, JoinedType
<1> HIDE DEF a, v
<1>2. a \in Seq(S) /\ m \in Nat /\ m = n - Len(a) /\ v \in Seq(S)
  BY <1>1 DEF IsHead, IsJoined
<1> HIDE DEF m
<1>3. IsHead(S, b, t, m) /\ IsHead(S, c, v, n)
  BY <1>2, Heads
<1> HIDE DEF b, c
<1>4. b \in Seq(S) /\ c \in Seq(S)
  BY <1>3 DEF IsHead
<1>5. IsJoined(S, u, a, b)
  BY <1>2, <1>4, JoinedType
<1> HIDE DEF u
<1>6. Len(u) = Len(c)
  BY <1>1, <1>2, <1>3, <1>5 DEF IsHead, IsJoined
<1>7. ASSUME NEW i \in 1..Len(u)
      PROVE  u[i] = c[i]
  <2>1. c[i] = v[i] /\ i \in 1..Len(v)
    BY <1>3, <1>6 DEF IsHead
  <2>2. CASE i <= Len(a)
    <3>1. i \in 1..Len(a) /\ i <= Len(s)
      BY <1>1, <2>2 DEF IsHead
    <3>2. u[i] = a[i] /\ a[i] = s[i] /\ v[i] = s[i]
      BY <1>1, <1>5, <2>1, <3>1 DEF IsHead, IsJoined
    <3>3. QED
      BY <2>1, <3>2
  <2>3. CASE ~(i <= Len(a))
    <3>1. Len(a) = Len(s)
      BY <1>1, <1>2, <1>3, <1>5, <2>3 DEF IsHead, IsJoined
    <3>2. i - Len(a) \in 1..Len(b)
      BY <1>1, <1>5, <2>3 DEF IsHead, IsJoined
    <3>3. u[i] = b[i - Len(a)] /\ v[i] = t[i - Len(a)]
      BY <1>1, <1>5, <2>1, <2>3, <3>1 DEF IsJoined
    <3>4. QED
      BY <1>3, <2>1, <3>2, <3>3 DEF IsHead
  <2>4. QED
    BY <2>2, <2>3
<1>8. u \in Seq(S)
  BY <1>5 DEF IsJoined
<1>9. u = c
  BY <1>4, <1>6, <1>7, <1>8, SameText
<1>10. QED
  BY <1>9 DEF a, b, c, m, u, v

\* Lower case, taken piece by piece.
LEMMA LoweredType ==
    ASSUME NEW s \in Seq(Characters)
    PROVE  /\ Lowered(s) \in Seq(Characters) /\ Len(Lowered(s)) = Len(s)
           /\ \A i \in 1..Len(s) : Lowered(s)[i] = Lower[s[i]]
<1>1. DOMAIN s = 1..Len(s) /\ \A i \in 1..Len(s) : s[i] \in Characters
  OBVIOUS
<1>2. Lowered(s) = [i \in 1..Len(s) |-> Lower[s[i]]]
  BY <1>1 DEF Lowered
<1>3. \A i \in 1..Len(s) : Lower[s[i]] \in Characters
  BY <1>1, CharactersHaveCase
<1>4. Len(s) \in Nat
  OBVIOUS
<1>5. QED
  BY <1>2, <1>3, <1>4

LEMMA LoweredJoined ==
    ASSUME NEW s \in Seq(Characters), NEW t \in Seq(Characters)
    PROVE  Lowered(s \o t) = Lowered(s) \o Lowered(t)
<1> DEFINE a == Lowered(s)
           b == Lowered(t)
           u == s \o t
           v == a \o b
           c == Lowered(u)
<1>1. IsJoined(Characters, u, s, t)
  BY JoinedType
<1>2. /\ a \in Seq(Characters) /\ Len(a) = Len(s)
      /\ \A i \in 1..Len(s) : a[i] = Lower[s[i]]
  BY LoweredType
<1>3. /\ b \in Seq(Characters) /\ Len(b) = Len(t)
      /\ \A i \in 1..Len(t) : b[i] = Lower[t[i]]
  BY LoweredType
<1> HIDE DEF a, b, u, c
<1>4. IsJoined(Characters, v, a, b)
  BY <1>2, <1>3, JoinedType
<1> HIDE DEF v
<1>5. /\ c \in Seq(Characters) /\ Len(c) = Len(u)
      /\ \A i \in 1..Len(u) : c[i] = Lower[u[i]]
  BY <1>1, LoweredType DEF IsJoined, c
<1>6. ASSUME NEW i \in 1..Len(c)
      PROVE  c[i] = v[i]
  <2>1. CASE i <= Len(s)
    <3>1. i \in 1..Len(u) /\ i \in 1..Len(v) /\ i \in 1..Len(s)
      BY <1>1, <1>2, <1>3, <1>4, <1>5, <2>1 DEF IsJoined
    <3>2. u[i] = s[i] /\ v[i] = a[i]
      BY <1>1, <1>2, <1>4, <2>1, <3>1 DEF IsJoined
    <3>3. QED
      BY <1>2, <1>5, <3>1, <3>2
  <2>2. CASE ~(i <= Len(s))
    <3>1. i - Len(s) \in 1..Len(t)
      BY <1>1, <1>5, <2>2 DEF IsJoined
    <3>2. u[i] = t[i - Len(s)] /\ v[i] = b[i - Len(s)]
      BY <1>1, <1>2, <1>3, <1>4, <1>5, <2>2 DEF IsJoined
    <3>3. QED
      BY <1>3, <1>5, <3>1, <3>2
  <2>3. QED
    BY <2>1, <2>2
<1>7. Len(c) = Len(v) /\ v \in Seq(Characters)
  BY <1>1, <1>2, <1>3, <1>4, <1>5 DEF IsJoined
<1>8. c = v
  BY <1>5, <1>6, <1>7, SameText
<1>9. QED
  BY <1>8 DEF a, b, c, u, v

\* The same n characters come in s after i of them, and in t after j.
Stretch(s, i, n) == SubSeq(s, i + 1, i + n)
Alike(s, i, t, j, n) ==
    /\ i \in Nat /\ j \in Nat /\ n \in Nat
    /\ i + n <= Len(s) /\ j + n <= Len(t)
    /\ \A x \in 1..n : s[i + x] = t[j + x]

LEMMA SameStretch ==
    ASSUME NEW S, NEW s \in Seq(S), NEW t \in Seq(S), NEW i, NEW j, NEW n,
           Alike(s, i, t, j, n)
    PROVE  Stretch(s, i, n) = Stretch(t, j, n)
<1> DEFINE a == SubSeq(s, i + 1, i + n)
           b == SubSeq(t, j + 1, j + n)
<1> USE DEF Alike
<1>1. a \in Seq(S) /\ Len(a) = n /\ \A x \in 1..n : a[x] = s[i + x]
  OBVIOUS
<1>2. b \in Seq(S) /\ Len(b) = n /\ \A x \in 1..n : b[x] = t[j + x]
  OBVIOUS
<1> HIDE DEF a, b
<1>3. a = b
  BY <1>1, <1>2, SameText
<1>4. QED
  BY <1>3 DEF a, b, Stretch

\* The tail of a text, in terms of what is before it.
IsTail(S, tail, s, n, k) ==
    /\ tail \in Seq(S) /\ Len(tail) \in Nat /\ Len(s) = k + Len(tail)
    /\ Len(tail) <= n /\ (Len(tail) = n \/ k = 0)
    /\ \A i \in 1..Len(tail) : tail[i] = s[k + i]

LEMMA Tails ==
    ASSUME NEW S, NEW s \in Seq(S), NEW n \in Nat
    PROVE  \E k \in Nat : IsTail(S, LastOf(s, n), s, n, k)
<1> DEFINE m == Least(n, Len(s))
           k == Len(s) - m
           tail == SubSeq(s, k + 1, Len(s))
<1>1. /\ m \in Nat /\ k \in Nat /\ Len(s) \in Nat
      /\ Len(s) = k + m /\ m <= n /\ (m = n \/ k = 0)
  BY DEF Least
<1>2. LastOf(s, n) = tail
  BY DEF LastOf
<1> HIDE DEF m, k
<1>3. /\ tail \in Seq(S) /\ Len(tail) = m
      /\ \A i \in 1..m : tail[i] = s[k + i]
  BY <1>1
<1> HIDE DEF tail
<1>4. IsTail(S, tail, s, n, k)
  BY <1>1, <1>3 DEF IsTail
<1>5. QED
  BY <1>1, <1>2, <1>4, Zenon

\* append_prompt_tail(): the end, taken piece by piece.
LEMMA LastOfJoined ==
    ASSUME NEW S, NEW s \in Seq(S), NEW t \in Seq(S), NEW n \in Nat
    PROVE  LastOf(LastOf(s, n) \o t, n) = LastOf(s \o t, n)
<1> DEFINE a == LastOf(s, n)
           u == a \o t
           v == s \o t
           b == LastOf(u, n)
           c == LastOf(v, n)
<1>1. PICK k \in Nat : IsTail(S, a, s, n, k)
  BY Tails, Zenon
<1> HIDE DEF a
<1>2. a \in Seq(S)
  BY <1>1 DEF IsTail
<1>3. IsJoined(S, u, a, t) /\ IsJoined(S, v, s, t)
  BY <1>2, JoinedType
<1> HIDE DEF u, v
<1>4. u \in Seq(S) /\ v \in Seq(S)
  BY <1>3 DEF IsJoined
<1>5. PICK l \in Nat : IsTail(S, b, u, n, l)
  BY <1>4, Tails, Zenon
<1>6. PICK m \in Nat : IsTail(S, c, v, n, m)
  BY <1>4, Tails, Zenon
<1> HIDE DEF b, c
<1>7. m = k + l /\ Len(b) = Len(c)
  BY <1>1, <1>3, <1>5, <1>6 DEF IsTail, IsJoined
<1>8. ASSUME NEW i \in 1..Len(b)
      PROVE  b[i] = c[i]
  <2>1. b[i] = u[l + i] /\ c[i] = v[m + i] /\ l + i \in 1..Len(u) /\ m + i \in 1..Len(v)
    BY <1>5, <1>6, <1>7 DEF IsTail
  <2>2. CASE l + i <= Len(a)
    <3>1. u[l + i] = a[l + i] /\ a[l + i] = s[k + (l + i)]
      BY <1>1, <1>3, <2>1, <2>2 DEF IsTail, IsJoined
    <3>2. v[m + i] = s[m + i] /\ m + i = k + (l + i)
      BY <1>1, <1>3, <1>7, <2>1, <2>2 DEF IsTail, IsJoined
    <3>3. QED
      BY <2>1, <3>1, <3>2
  <2>3. CASE ~(l + i <= Len(a))
    <3>1. u[l + i] = t[l + i - Len(a)]
      BY <1>3, <2>1, <2>3 DEF IsJoined
    <3>2. v[m + i] = t[m + i - Len(s)]
      BY <1>1, <1>3, <1>7, <2>1, <2>3 DEF IsTail, IsJoined
    <3>3. m + i - Len(s) = l + i - Len(a)
      BY <1>1, <1>7 DEF IsTail
    <3>4. QED
      BY <2>1, <3>1, <3>2, <3>3
  <2>4. QED
    BY <2>2, <2>3
<1>9. b = c
  BY <1>5, <1>6, <1>7, <1>8, SameText DEF IsTail
<1>10. QED
  BY <1>9 DEF a, b, c, u, v

LEMMA TailAlike ==
    ASSUME NEW S, NEW s \in Seq(S), NEW n \in Nat, NEW k \in Nat, NEW tail,
           IsTail(S, tail, s, n, k), NEW i \in Nat, NEW l \in Nat, i + l <= Len(tail),
           NEW j \in Nat, j = k + i
    PROVE  Alike(tail, i, s, j, l)
<1>1. Len(s) = k + Len(tail) /\ Len(tail) \in Nat
  BY DEF IsTail
<1>2. \A x \in 1..l : i + x \in 1..Len(tail) /\ k + (i + x) = j + x
  OBVIOUS
<1>3. \A x \in 1..l : tail[i + x] = s[j + x]
  BY <1>2 DEF IsTail
<1>4. j + l <= Len(s)
  BY <1>1
<1>5. QED
  BY <1>1, <1>3, <1>4 DEF Alike

\* find(): a prompt at the end of a text is in its tail; one in the tail is in the
\* text; and it stays there when more is added.
LEMMA PromptInTail ==
    ASSUME NEW s \in Seq(Characters), EndsInPrompt(s)
    PROVE  Asks(LastOf(s, MaxPromptTail))
<1> DEFINE tail == LastOf(s, MaxPromptTail)
           l == Len(Prompt)
           i == Len(tail) - l
           j == Len(s) - l
<1>1. MaxPromptTail \in Nat /\ l \in Nat /\ l <= Len(s) /\ l <= MaxPromptTail
  BY TextsAreText, OutputSizesAreNumbers DEF EndsInPrompt
<1>2. Stretch(s, j, l) = Prompt
  BY <1>1 DEF EndsInPrompt, Stretch
<1>3. PICK k \in Nat : IsTail(Characters, tail, s, MaxPromptTail, k)
  BY <1>1, Tails, Zenon
<1> HIDE DEF tail, l
<1>4. i \in 0..Len(tail) - l /\ i \in Nat /\ i + l <= Len(tail) /\ j \in Nat /\ j = k + i
  <2>1. Len(tail) \in Nat /\ Len(s) = k + Len(tail) /\ (Len(tail) = MaxPromptTail \/ k = 0)
    BY <1>3 DEF IsTail
  <2>2. QED
    BY <1>1, <2>1
<1> HIDE DEF i, j
<1>5. Stretch(tail, i, l) = Stretch(s, j, l)
  <2>1. Alike(tail, i, s, j, l)
    BY <1>1, <1>3, <1>4, TailAlike
  <2>2. tail \in Seq(Characters)
    BY <1>3 DEF IsTail
  <2>3. QED
    BY <2>1, <2>2, SameStretch
<1>6. QED
  BY <1>2, <1>4, <1>5, Zenon DEF Asks, Stretch, tail, l

LEMMA PromptInText ==
    ASSUME NEW s \in Seq(Characters), Asks(LastOf(s, MaxPromptTail))
    PROVE  Asks(s)
<1> DEFINE tail == LastOf(s, MaxPromptTail)
           l == Len(Prompt)
<1>1. MaxPromptTail \in Nat /\ l \in Nat
  BY TextsAreText, OutputSizesAreNumbers
<1>2. PICK i \in 0..Len(tail) - l : Stretch(tail, i, l) = Prompt
  BY Zenon DEF Asks, Stretch
<1>3. PICK k \in Nat : IsTail(Characters, tail, s, MaxPromptTail, k)
  BY <1>1, Tails, Zenon
<1> HIDE DEF tail, l
<1> DEFINE j == k + i
<1>4. j \in 0..Len(s) - l /\ j \in Nat /\ j = k + i /\ i \in Nat /\ i + l <= Len(tail)
  BY <1>1, <1>3 DEF IsTail
<1> HIDE DEF j
<1>5. Stretch(tail, i, l) = Stretch(s, j, l)
  <2>1. Alike(tail, i, s, j, l)
    BY <1>1, <1>3, <1>4, TailAlike
  <2>2. tail \in Seq(Characters)
    BY <1>3 DEF IsTail
  <2>3. QED
    BY <2>1, <2>2, SameStretch
<1>6. QED
  BY <1>2, <1>4, <1>5, Zenon DEF Asks, Stretch, l

LEMMA PromptStays ==
    ASSUME NEW s \in Seq(Characters), NEW t \in Seq(Characters), Asks(s)
    PROVE  Asks(s \o t)
<1>1. Len(Prompt) \in Nat
  BY TextsAreText
<1>2. PICK i \in 0..Len(s) - Len(Prompt) : SubSeq(s, i + 1, i + Len(Prompt)) = Prompt
  BY DEF Asks
<1>3. i \in 0..Len(s \o t) - Len(Prompt)
  BY <1>1
<1>4. SubSeq(s \o t, i + 1, i + Len(Prompt)) = SubSeq(s, i + 1, i + Len(Prompt))
  BY <1>1
<1>5. QED
  BY <1>2, <1>3, <1>4 DEF Asks

-----------------------------------------------------------------------------
(* The invariant.                                                           *)

\* Until the password is sent, the tail is that of all that has been read, and has no
\* prompt in it.
PromptInv ==
    IF passwordSent
      THEN IF needed THEN answers = 1 /\ Asks(Lowered(read)) ELSE answers = 0
      ELSE /\ needed /\ answers = 0
           /\ promptTail = LastOf(Lowered(read), MaxPromptTail)
           /\ ~Asks(promptTail)

OutputInv == OutputTypeOK /\ DiagnosticIsTheBeginning /\ PromptInv

\* Nothing has been read, and a prompt is not empty.
LEMMA OutputInvInit == OutputInit => OutputInv
<1>1. SUFFICES ASSUME OutputInit PROVE OutputInv
  OBVIOUS
<1> USE DEF OutputInit
<1>2. OutputTypeOK
  BY <1>1, OutputSizesAreNumbers DEF OutputTypeOK
<1>3. \A n \in Nat : FirstOf(<<>>, n) = <<>> /\ LastOf(<<>>, n) = <<>>
  BY DEF FirstOf, LastOf, Least
<1>4. DiagnosticIsTheBeginning
  BY <1>1, <1>3, OutputSizesAreNumbers DEF DiagnosticIsTheBeginning
<1>5. Lowered(<<>>) = <<>>
  BY DEF Lowered
<1>6. ~Asks(<<>>)
  <2>1. Len(Prompt) \in Nat \ {0}
    BY TextsAreText
  <2>2. 0..Len(<<>>) - Len(Prompt) = {}
    BY <2>1
  <2>3. QED
    BY <2>2 DEF Asks
<1>7. PromptInv
  BY <1>1, <1>3, <1>5, <1>6, OutputSizesAreNumbers DEF PromptInv
<1>8. QED
  BY <1>2, <1>4, <1>7 DEF OutputInv

\* append_bounded() keeps the beginning of one text more.
LEMMA AppendKeepsTheBeginning ==
    ASSUME NEW s \in Seq(Characters), NEW chunk \in Seq(Characters),
           NEW d, d = FirstOf(s, MaxDiagnostic)
    PROVE  AppendBounded(d, chunk) = FirstOf(s \o chunk, MaxDiagnostic)
BY FirstOfJoined, OutputSizesAreNumbers DEF AppendBounded

\* What handle_output() notes, with the notice or without.
LEMMA NoteKeeps ==
    ASSUME OutputTypeOK, DiagnosticIsTheBeginning, NEW chunk \in Seq(Characters),
           Note(chunk) \/ NoteUnsent(chunk)
    PROVE  /\ diagnostic' = FirstOf(transcript', MaxDiagnostic)
           /\ transcript' \in Seq(Characters)
           /\ diagnostic' \in Seq(Characters) /\ Len(diagnostic') <= MaxDiagnostic
<1> DEFINE one == transcript \o chunk
           both == one \o Notice
<1>1. transcript \in Seq(Characters) /\ one \in Seq(Characters) /\ Notice \in Seq(Characters)
  BY TextsAreText DEF OutputTypeOK
<1>2. AppendBounded(diagnostic, chunk) = FirstOf(one, MaxDiagnostic)
  BY <1>1, AppendKeepsTheBeginning DEF DiagnosticIsTheBeginning
<1> HIDE DEF one
<1>3. AppendBounded(AppendBounded(diagnostic, chunk), Notice) = FirstOf(both, MaxDiagnostic)
  BY <1>1, <1>2, AppendKeepsTheBeginning
<1>4. both \in Seq(Characters)
  BY <1>1
<1> HIDE DEF both
<1>5. transcript' \in {one, both} /\ diagnostic' = FirstOf(transcript', MaxDiagnostic)
  BY <1>2, <1>3, Zenon DEF Note, NoteUnsent, one, both
<1>6. transcript' \in Seq(Characters)
  BY <1>1, <1>4, <1>5
<1>7. IsHead(Characters, diagnostic', transcript', MaxDiagnostic)
  BY <1>5, <1>6, Heads, OutputSizesAreNumbers
<1>8. QED
  BY <1>5, <1>6, <1>7 DEF IsHead

\* append_prompt_tail() keeps the end of one piece more.
LEMMA AppendKeepsTheEnd ==
    ASSUME NEW s \in Seq(Characters), NEW chunk \in Seq(Characters),
           NEW tail, tail = LastOf(Lowered(s), MaxPromptTail)
    PROVE  AppendPromptTail(tail, chunk) = LastOf(Lowered(s \o chunk), MaxPromptTail)
<1>1. Lowered(s) \in Seq(Characters) /\ Lowered(chunk) \in Seq(Characters)
  BY LoweredType
<1>2. Lowered(s \o chunk) = Lowered(s) \o Lowered(chunk)
  BY LoweredJoined
<1>3. MaxPromptTail \in Nat
  BY OutputSizesAreNumbers
<1>4. LastOf(LastOf(Lowered(s), MaxPromptTail) \o Lowered(chunk), MaxPromptTail)
        = LastOf(Lowered(s) \o Lowered(chunk), MaxPromptTail)
  BY <1>1, <1>3, LastOfJoined
<1>5. QED
  BY <1>2, <1>4 DEF AppendPromptTail

\* The child writes on.
LEMMA ChildWritesKeeps == OutputInv /\ ChildWrites => OutputInv'
<1>1. SUFFICES ASSUME OutputInv, ChildWrites PROVE OutputInv'
  OBVIOUS
<1>2. terminal' \in Seq(Characters)
      /\ UNCHANGED <<diagnostic, promptTail, passwordSent, needed, read, transcript, answers>>
  BY <1>1 DEF ChildWrites, OutputInv, OutputTypeOK
<1>3. OutputTypeOK' /\ DiagnosticIsTheBeginning'
  BY <1>1, <1>2 DEF OutputInv, OutputTypeOK, DiagnosticIsTheBeginning
<1>4. PromptInv'
  BY <1>1, <1>2 DEF OutputInv, PromptInv, Asks
<1>5. QED
  BY <1>3, <1>4 DEF OutputInv

\* A piece is read.
LEMMA ReadKeeps == OutputInv /\ Read => OutputInv'
<1>1. SUFFICES ASSUME OutputInv, Read PROVE OutputInv'
  OBVIOUS
<1>2. PICK n \in 1..Least(BufferSize, Len(terminal)) :
        /\ HandleOutput(FirstOf(terminal, n))
        /\ terminal' = SubSeq(terminal, n + 1, Len(terminal))
        /\ read' = read \o FirstOf(terminal, n)
        /\ UNCHANGED needed
  BY <1>1 DEF Read
<1> DEFINE chunk == FirstOf(terminal, n)
<1>3. OutputTypeOK /\ DiagnosticIsTheBeginning /\ PromptInv
  BY <1>1 DEF OutputInv
<1>4. n \in Nat /\ chunk \in Seq(Characters)
  <2>1. n \in Nat
    BY <1>2
  <2>2. IsHead(Characters, chunk, terminal, n)
    BY <1>3, <2>1, Heads DEF OutputTypeOK
  <2>3. QED
    BY <2>1, <2>2 DEF IsHead
<1> HIDE DEF chunk
<1>5. Note(chunk) \/ NoteUnsent(chunk)
  BY <1>2, Zenon DEF HandleOutput, chunk
<1>6. /\ diagnostic' = FirstOf(transcript', MaxDiagnostic)
      /\ transcript' \in Seq(Characters)
      /\ diagnostic' \in Seq(Characters) /\ Len(diagnostic') <= MaxDiagnostic
  BY <1>3, <1>4, <1>5, NoteKeeps
<1>7. terminal' \in Seq(Characters) /\ read' \in Seq(Characters) /\ read' = read \o chunk
      /\ needed' = needed /\ read \in Seq(Characters)
  BY <1>2, <1>3, <1>4 DEF OutputTypeOK, chunk
<1>8. CASE passwordSent
  <2>1. UNCHANGED <<promptTail, passwordSent, answers>>
    BY <1>2, <1>8, Zenon DEF HandleOutput
  <2>2. OutputTypeOK'
    BY <1>3, <1>6, <1>7, <2>1 DEF OutputTypeOK
  <2>3. Asks(Lowered(read)) => Asks(Lowered(read'))
    BY <1>4, <1>7, LoweredType, LoweredJoined, PromptStays
  <2>4. PromptInv'
    BY <1>3, <1>7, <1>8, <2>1, <2>3 DEF PromptInv
  <2>5. QED
    BY <1>6, <2>2, <2>4 DEF OutputInv, DiagnosticIsTheBeginning
<1>9. CASE ~passwordSent
  <2>1. /\ promptTail' = AppendPromptTail(promptTail, chunk)
        /\ IF Asks(promptTail') THEN passwordSent' = TRUE /\ answers' = answers + 1
                                ELSE UNCHANGED <<passwordSent, answers>>
    BY <1>2, <1>9, Zenon DEF HandleOutput, chunk
  <2>2. promptTail' = LastOf(Lowered(read'), MaxPromptTail)
    BY <1>3, <1>4, <1>7, <1>9, <2>1, AppendKeepsTheEnd DEF PromptInv
  <2>3. Lowered(read') \in Seq(Characters)
    BY <1>7, LoweredType
  <2>4. promptTail' \in Seq(Characters) /\ Len(promptTail') <= MaxPromptTail
    <3>1. PICK k \in Nat : IsTail(Characters, promptTail', Lowered(read'), MaxPromptTail, k)
      BY <2>2, <2>3, Tails, OutputSizesAreNumbers
    <3>2. QED
      BY <3>1 DEF IsTail
  <2>5. needed /\ answers = 0
    BY <1>3, <1>9 DEF PromptInv
  <2>6. CASE Asks(promptTail')
    <3>1. passwordSent' = TRUE /\ answers' = 1
      BY <2>1, <2>5, <2>6
    <3>2. Asks(Lowered(read'))
      BY <2>2, <2>3, <2>6, PromptInText
    <3>3. OutputTypeOK' /\ PromptInv'
      BY <1>3, <1>6, <1>7, <2>4, <2>5, <3>1, <3>2 DEF OutputTypeOK, PromptInv
    <3>4. QED
      BY <1>6, <3>3 DEF OutputInv, DiagnosticIsTheBeginning
  <2>7. CASE ~Asks(promptTail')
    <3>1. UNCHANGED <<passwordSent, answers>>
      BY <2>1, <2>7
    <3>2. OutputTypeOK' /\ PromptInv'
      BY <1>3, <1>6, <1>7, <1>9, <2>2, <2>4, <2>5, <2>7, <3>1 DEF OutputTypeOK, PromptInv
    <3>3. QED
      BY <1>6, <3>2 DEF OutputInv, DiagnosticIsTheBeginning
  <2>8. QED
    BY <2>6, <2>7
<1>10. QED
  BY <1>8, <1>9

\* The invariant holds of every behaviour.
LEMMA OutputInvariant == OutputSpec => []OutputInv
<1>1. OutputInv /\ [OutputNext]_outputVars => OutputInv'
  <2>1. ASSUME OutputInv, UNCHANGED outputVars PROVE OutputInv'
    BY <2>1 DEF outputVars, OutputInv, OutputTypeOK, DiagnosticIsTheBeginning, PromptInv, Asks
  <2>2. QED
    BY <2>1, ChildWritesKeeps, ReadKeeps DEF OutputNext
<1>2. QED
  BY <1>1, OutputInvInit, PTL DEF OutputSpec

-----------------------------------------------------------------------------

\* The variables have their types, and append_bounded() never has more than it may.
THEOREM OutputTypeCorrect == OutputSpec => []OutputTypeOK
BY OutputInvariant, PTL DEF OutputInv

\* append_bounded(): the diagnostic is the beginning of what was written, in whatever
\* pieces it was read.
THEOREM DiagnosticsAreBeginnings == OutputSpec => []DiagnosticIsTheBeginning
BY OutputInvariant, PTL DEF OutputInv

\* handle_output(): a prompt that came last has been answered, however it was cut up,
\* and the password is written once, to a child that has asked for it.
THEOREM PasswordsAreGivenOnce == OutputSpec => []PasswordIsGivenOnce
<1>1. ASSUME OutputInv, needed, EndsInPrompt(Lowered(read))
      PROVE  answers = 1
  <2>1. Lowered(read) \in Seq(Characters)
    BY <1>1, LoweredType DEF OutputInv, OutputTypeOK
  <2>2. Asks(LastOf(Lowered(read), MaxPromptTail))
    BY <1>1, <2>1, PromptInTail
  <2>3. passwordSent
    BY <1>1, <2>2, Zenon DEF OutputInv, PromptInv
  <2>4. QED
    BY <1>1, <2>3, Zenon DEF OutputInv, PromptInv
<1>2. ASSUME OutputInv, answers # 0
      PROVE  answers = 1 /\ needed /\ Asks(Lowered(read))
  BY <1>2, Zenon DEF OutputInv, PromptInv
<1>3. OutputInv => PasswordIsGivenOnce
  BY <1>1, <1>2 DEF PasswordIsGivenOnce
<1>4. QED
  BY <1>3, OutputInvariant, PTL
=============================================================================
