--------------------------- MODULE TelegramProofs ---------------------------
(***************************************************************************)
(* Proof that the chat shows every field of an alert as it was: escaping   *)
(* and Telegram's reading are both recursive functions over a text, so the *)
(* proof starts with induction over the numbers, as a statement about a    *)
(* set of them, and with the functions that repeating a step defines.      *)
(***************************************************************************)
EXTENDS TelegramHandler, Integers, FiniteSetTheorems, SequenceTheorems, WellFoundedInduction, TLAPS

\* A set with 0 and with the successor of each of its numbers has them all: the
\* intervals 0..k of the k it lacks would have no smallest one.
LEMMA Induction ==
  ASSUME NEW S, 0 \in S, \A n \in Nat : n \in S => n + 1 \in S
  PROVE  \A n \in Nat : n \in S
<1> SUFFICES ASSUME NEW n \in Nat, n \notin S PROVE FALSE
  OBVIOUS
<1> DEFINE Missing == {k \in 0..n : k \notin S}
           T == {0..k : k \in Missing}
<1>1. IsFiniteSet(0..n)
  BY FS_Interval
<1>2. IsWellFoundedOn(StrictSubsetOrdering(0..n), SUBSET (0..n))
  BY <1>1, FS_StrictSubsetOrderingWellFounded, FS_FiniteSubsetsOfFinite
<1>3. T \subseteq SUBSET (0..n)
  OBVIOUS
<1>4. 0..n \in T
  OBVIOUS
<1> HIDE DEF T
<1>5. PICK x \in T : \A y \in T : ~ (<<y, x>> \in StrictSubsetOrdering(0..n))
  BY <1>2, <1>3, <1>4, WFMin
<1>6. PICK k \in Missing : x = 0..k
  BY DEF T
<1>7. k \in Nat /\ k \in 0..n /\ k \notin S /\ k # 0
  OBVIOUS
<1>8. k - 1 \in Nat /\ k - 1 \notin S /\ k - 1 \in 0..n
  BY <1>7
<1>9. 0..(k-1) \in T
  BY <1>8 DEF T
<1>10. 0..(k-1) \subseteq 0..k /\ 0..(k-1) # 0..k
  <2>1. k \in 0..k /\ k \notin 0..(k-1)
    BY <1>7
  <2> QED
    BY <2>1, <1>7
<1>11. 0..(k-1) \in SUBSET (0..n) /\ 0..k \in SUBSET (0..n)
  BY <1>7
<1>12. <<0..(k-1), 0..k>> \in StrictSubsetOrdering(0..n)
  BY <1>10, <1>11 DEF StrictSubsetOrdering
<1> QED
  BY <1>5, <1>6, <1>9, <1>12

\* f[i] is what i steps lead to from b.
Iterates(f, n, X, b, step) ==
  f \in [0..n -> X] /\ f[0] = b /\ \A i \in 1..n : f[i] = step[i][f[i-1]]

\* There is such a function, whatever the steps.
LEMMA Recursion ==
  ASSUME NEW X, NEW base \in X, NEW n \in Nat, NEW step \in [1..n -> [X -> X]]
  PROVE  \E f : Iterates(f, n, X, base, step)
<1> DEFINE Defined == {m \in Nat : m <= n => \E f \in [0..m -> X] :
           f = [i \in 0..m |-> IF i = 0 THEN base ELSE step[i][f[i-1]]]}
<1>1. 0 \in Defined
  <2> DEFINE f == [i \in 0..0 |-> base]
  <2>1. f \in [0..0 -> X] /\ f = [i \in 0..0 |-> IF i = 0 THEN base ELSE step[i][f[i-1]]]
    OBVIOUS
  <2> QED
    BY <2>1
<1>2. ASSUME NEW m \in Nat, m \in Defined PROVE m + 1 \in Defined
  <2> SUFFICES ASSUME m + 1 <= n PROVE \E f \in [0..(m+1) -> X] :
           f = [i \in 0..(m+1) |-> IF i = 0 THEN base ELSE step[i][f[i-1]]]
    OBVIOUS
  <2>1. PICK f \in [0..m -> X] : f = [i \in 0..m |-> IF i = 0 THEN base ELSE step[i][f[i-1]]]
    BY <1>2
  <2> DEFINE next == step[m+1][f[m]]
             g == [i \in 0..(m+1) |-> IF i = m + 1 THEN next ELSE f[i]]
  <2>2. next \in X
    BY <1>2
  <2>3. g \in [0..(m+1) -> X]
    <3> HIDE DEF next
    <3> QED BY <2>2
  <2>4. ASSUME NEW i \in 0..(m+1) PROVE g[i] = IF i = 0 THEN base ELSE step[i][g[i-1]]
    <3>1. CASE i = m + 1
      <4>1. g[i] = next /\ g[i-1] = f[m] /\ i # 0
        <5> HIDE DEF next
        <5> QED BY <3>1
      <4> QED BY <4>1, <3>1
    <3>2. CASE i \in 0..m
      <4>1. g[i] = f[i] /\ (i # 0 => g[i-1] = f[i-1])
        <5> HIDE DEF next
        <5> QED BY <3>2
      <4>2. f[i] = IF i = 0 THEN base ELSE step[i][f[i-1]]
        BY <2>1, <3>2
      <4> QED BY <4>1, <4>2
    <3> QED BY <3>1, <3>2
  <2>5. g = [i \in 0..(m+1) |-> IF i = 0 THEN base ELSE step[i][g[i-1]]]
    <3> HIDE DEF g
    <3> QED BY <2>3, <2>4
  <2> QED BY <2>3, <2>5
<1>3. n \in Defined
  <2> HIDE DEF Defined
  <2> QED BY <1>1, <1>2, Induction
<1>4. PICK f \in [0..n -> X] : f = [i \in 0..n |-> IF i = 0 THEN base ELSE step[i][f[i-1]]]
  BY <1>3
<1>5. f[0] = base /\ \A i \in 1..n : f[i] = step[i][f[i-1]]
  BY <1>4
<1> QED BY <1>5 DEF Iterates

-----------------------------------------------------------------------------
\* e[i] is what becomes of the first i characters of text, those in S escaped.
Escapes(e, text, S, C) ==
  /\ e \in [0..Len(text) -> Seq(C)]
  /\ e[0] = <<>>
  /\ \A i \in 1..Len(text) :
       e[i] = e[i-1] \o (IF text[i] \in S THEN <<Backslash, text[i]>> ELSE <<text[i]>>)

Encodes(out, text, S, C) == \E e : Escapes(e, text, S, C) /\ out = e[Len(text)]

\* One pass escapes one character.
LEMMA EscapeAllEncodes ==
  ASSUME NEW C, Backslash \in C, NEW text \in Seq(C), NEW char \in C
  PROVE  Encodes(EscapeAll(text, char), text, {char}, C)
<1>0. PICK n \in Nat : n = Len(text)
  BY LenProperties
<1> DEFINE upTo[i \in 0..n] ==
             IF i = 0 THEN <<>>
             ELSE upTo[i-1] \o (IF text[i] = char THEN <<Backslash, char>> ELSE <<text[i]>>)
           Body(f) == [i \in 0..n |-> IF i = 0 THEN <<>>
             ELSE f[i-1] \o (IF text[i] = char THEN <<Backslash, char>> ELSE <<text[i]>>)]
           extend == [i \in 1..n |-> [t \in Seq(C) |->
             t \o (IF text[i] = char THEN <<Backslash, char>> ELSE <<text[i]>>)]]
<1>1. EscapeAll(text, char) = upTo[n]
  BY <1>0 DEF EscapeAll
<1>2. \A i \in 1..n : text[i] \in C
  BY <1>0, ElementOfSeq
<1>3. extend \in [1..n -> [Seq(C) -> Seq(C)]]
  <2>1. ASSUME NEW i \in 1..n, NEW t \in Seq(C)
        PROVE  t \o (IF text[i] = char THEN <<Backslash, char>> ELSE <<text[i]>>) \in Seq(C)
    <3>1. <<Backslash, char>> \in Seq(C) /\ <<text[i]>> \in Seq(C)
      BY <1>2
    <3> QED
      BY <3>1, ConcatProperties
  <2> QED
    BY <2>1
<1>4. PICK f : Iterates(f, n, Seq(C), <<>>, extend)
  <2> DEFINE nil == <<>>
  <2>1. nil \in Seq(C)
    OBVIOUS
  <2> HIDE DEF extend, nil
  <2>2. \E f : Iterates(f, n, Seq(C), nil, extend)
    BY <2>1, <1>3, Recursion
  <2> QED
    BY <2>2 DEF nil
<1>5. f = Body(f)
  <2>1. ASSUME NEW i \in 0..n PROVE f[i] = Body(f)[i]
    <3>1. CASE i = 0
      BY <3>1, <1>4 DEF Iterates
    <3>2. CASE i # 0
      <4>1. i \in 1..n /\ f[i-1] \in Seq(C)
        BY <3>2, <1>4 DEF Iterates
      <4>2. f[i] = extend[i][f[i-1]]
        BY <1>4, <4>1 DEF Iterates
      <4> QED
        BY <4>1, <4>2, <3>2
    <3> QED BY <3>1, <3>2
  <2> QED
    BY <2>1, <1>4 DEF Iterates
<1>6. upTo = Body(upTo)
  BY <1>5
<1> HIDE DEF upTo
<1>7. ASSUME NEW g, g = Body(g) PROVE \A i \in Nat : i <= n => g[i] \in Seq(C)
  <2> DEFINE I == {i \in Nat : i <= n => g[i] \in Seq(C)}
  <2>1. 0 \in I
    BY <1>2, <1>7
  <2>2. ASSUME NEW i \in Nat, i \in I PROVE i + 1 \in I
    <3> SUFFICES ASSUME i + 1 <= n PROVE g[i+1] \in Seq(C)
      OBVIOUS
    <3>1. g[i+1] = g[i] \o (IF text[i+1] = char THEN <<Backslash, char>> ELSE <<text[i+1]>>)
      <4>1. i + 1 \in 0..n /\ i + 1 # 0 /\ (i + 1) - 1 = i
        BY <1>2
      <4>2. g[i+1] = Body(g)[i+1]
        BY <1>7
      <4>3. Body(g)[i+1] = g[(i+1)-1] \o (IF text[i+1] = char THEN <<Backslash, char>> ELSE <<text[i+1]>>)
        BY <4>1
      <4> QED BY <4>1, <4>2, <4>3
    <3>2. <<Backslash, char>> \in Seq(C) /\ <<text[i+1]>> \in Seq(C) /\ g[i] \in Seq(C)
      BY <1>2, <2>2
    <3> QED
      BY <3>1, <3>2, ConcatProperties
  <2>3. \A i \in Nat : i \in I
    <3> HIDE DEF I
    <3> QED BY <2>1, <2>2, Induction
  <2> QED BY <2>3
<1>8. upTo \in [0..n -> Seq(C)]
  <2>1. \A i \in Nat : i <= n => upTo[i] \in Seq(C)
    BY <1>6, <1>7
  <2>2. \A i \in 0..n : i \in Nat /\ i <= n
    BY <1>2
  <2>3. \A i \in 0..n : upTo[i] \in Seq(C)
    BY <2>1, <2>2
  <2> QED BY <1>6, <2>3
<1>9. Escapes(upTo, text, {char}, C)
  <2>1. upTo[0] = <<>>
    BY <1>6
  <2>2. ASSUME NEW i \in 1..n
        PROVE  upTo[i] = upTo[i-1] \o (IF text[i] \in {char} THEN <<Backslash, text[i]>> ELSE <<text[i]>>)
    <3>0. i \in 0..n /\ i # 0
      OBVIOUS
    <3>1. upTo[i] = Body(upTo)[i] 
      BY <1>6, Zenon
    <3>2. upTo[i] = upTo[i-1] \o (IF text[i] = char THEN <<Backslash, char>> ELSE <<text[i]>>)
      BY <3>0, <3>1
    <3> QED BY <3>2
  <2> QED BY <1>0, <1>8, <2>1, <2>2 DEF Escapes
<1> QED
  BY <1>0, <1>1, <1>9 DEF Encodes

\* What has been written stays: each e[i] begins e[j] for every later j.
LEMMA Prefixes ==
  ASSUME NEW C, NEW text \in Seq(C), NEW S, NEW e, Escapes(e, text, S, C),
         NEW i \in 0..Len(text), Backslash \in C
  PROVE  \A j \in i..Len(text) : /\ Len(e[i]) <= Len(e[j])
                                 /\ \A k \in 1..Len(e[i]) : e[j][k] = e[i][k]
<1> DEFINE n == Len(text)
           Ok(j) == Len(e[i]) <= Len(e[j]) /\ \A k \in 1..Len(e[i]) : e[j][k] = e[i][k]
           I == {d \in Nat : i + d <= n => Ok(i + d)}
<1>1. n \in Nat /\ i \in Nat /\ \A k \in 1..n : text[k] \in C
  BY LenProperties, ElementOfSeq
<1>2. 0 \in I
  BY <1>1 DEF Escapes
<1>3. ASSUME NEW d \in Nat, d \in I PROVE d + 1 \in I
  <2> SUFFICES ASSUME i + (d + 1) <= n PROVE Ok(i + (d + 1))
    OBVIOUS
  <2> DEFINE j == i + d
             piece == IF text[j + 1] \in S THEN <<Backslash, text[j + 1]>> ELSE <<text[j + 1]>>
  <2>1. j \in Nat /\ j + 1 \in 1..n /\ j \in 0..n /\ (j + 1) - 1 = j /\ i + (d + 1) = j + 1
    BY <1>1
  <2>2. Ok(j)
    BY <1>3, <2>1
  <2>3. e[j + 1] = e[j] \o piece
    BY <2>1 DEF Escapes
  <2>4. piece \in Seq(C) /\ e[j] \in Seq(C) /\ e[i] \in Seq(C)
    BY <1>1, <2>1 DEF Escapes
  <2> HIDE DEF piece, j
  <2>5. /\ Len(e[j + 1]) = Len(e[j]) + Len(piece) /\ Len(piece) \in Nat
        /\ \A k \in 1..Len(e[j]) : e[j + 1][k] = e[j][k]
    BY <2>3, <2>4, ConcatProperties, LenProperties
  <2>6. Len(e[i]) \in Nat /\ Len(e[j]) \in Nat
    BY <2>4, LenProperties
  <2>7. Ok(j + 1)
    BY <2>2, <2>5, <2>6
  <2> QED
    BY <2>1, <2>7
<1>4. \A d \in Nat : d \in I
  <2> HIDE DEF I
  <2> QED BY <1>2, <1>3, Induction
<1> QED
  <2> SUFFICES ASSUME NEW j \in i..n PROVE Ok(j)
    OBVIOUS
  <2>1. j - i \in Nat /\ i + (j - i) = j /\ j <= n
    BY <1>1
  <2>2. i + (j - i) <= n => Ok(i + (j - i))
    BY <1>4, <2>1
  <2> QED
    BY <2>1, <2>2

\* The place of the i-th character in the escaped text, and what stands there.
LEMMA Places ==
  ASSUME NEW C, NEW text \in Seq(C), NEW S, NEW e, Escapes(e, text, S, C), Backslash \in C,
         NEW i \in 1..Len(text)
  PROVE  LET out == e[Len(text)]
             at(k) == Len(e[k])
         IN  /\ at(i - 1) \in Nat /\ at(i) \in 1..Len(out)
             /\ text[i] \in S => /\ at(i) = at(i - 1) + 2
                                 /\ out[at(i - 1) + 1] = Backslash
                                 /\ out[at(i - 1) + 2] = text[i]
             /\ text[i] \notin S => /\ at(i) = at(i - 1) + 1
                                    /\ out[at(i - 1) + 1] = text[i]
<1> DEFINE n == Len(text)
<1>1. n \in Nat /\ i \in 1..n /\ i - 1 \in 0..n /\ i \in 0..n /\ n \in i..n /\ text[i] \in C
  BY LenProperties, ElementOfSeq
<1>2. e[i] \in Seq(C) /\ e[i-1] \in Seq(C) /\ e[n] \in Seq(C)
  <2>1. e \in [0..n -> Seq(C)]
    BY DEF Escapes
  <2> HIDE DEF n
  <2> QED BY <1>1, <2>1
<1>3. e[i] = e[i-1] \o (IF text[i] \in S THEN <<Backslash, text[i]>> ELSE <<text[i]>>)
  <2>1. \A j \in 1..Len(text) :
          e[j] = e[j-1] \o (IF text[j] \in S THEN <<Backslash, text[j]>> ELSE <<text[j]>>)
    BY DEF Escapes
  <2> QED BY <2>1
<1>4. Len(e[i]) <= Len(e[n]) /\ \A k \in 1..Len(e[i]) : e[n][k] = e[i][k]
  <2> HIDE DEF n
  <2>1. \A j \in i..n : /\ Len(e[i]) <= Len(e[j])
                        /\ \A k \in 1..Len(e[i]) : e[j][k] = e[i][k]
    BY <1>1, Prefixes DEF n
  <2> QED
    BY <1>1, <2>1
<1>5. Len(e[i]) \in Nat /\ Len(e[i-1]) \in Nat /\ Len(e[n]) \in Nat
  BY <1>2, LenProperties
<1>6. CASE text[i] \in S
  <2>1. <<Backslash, text[i]>> \in Seq(C)
    BY <1>1
  <2>2. /\ Len(e[i]) = Len(e[i-1]) + 2
        /\ e[i][Len(e[i-1]) + 1] = Backslash /\ e[i][Len(e[i-1]) + 2] = text[i]
    BY <1>2, <1>3, <1>5, <1>6, <2>1, ConcatProperties
  <2>3. Len(e[i-1]) + 1 \in 1..Len(e[i]) /\ Len(e[i-1]) + 2 \in 1..Len(e[i])
    BY <1>5, <2>2
  <2>4. e[n][Len(e[i-1]) + 1] = Backslash /\ e[n][Len(e[i-1]) + 2] = text[i]
    BY <1>4, <2>2, <2>3
  <2>5. Len(e[i]) \in 1..Len(e[n])
    BY <1>4, <1>5, <2>3
  <2> QED
    BY <1>5, <1>6, <2>2, <2>4, <2>5
<1>7. CASE text[i] \notin S
  <2>1. <<text[i]>> \in Seq(C)
    BY <1>1
  <2>2. Len(e[i]) = Len(e[i-1]) + 1 /\ e[i][Len(e[i-1]) + 1] = text[i]
    BY <1>2, <1>3, <1>5, <1>7, <2>1, ConcatProperties
  <2> QED
    BY <1>4, <1>5, <1>7, <2>2
<1> QED
  BY <1>6, <1>7

\* Escaping one character more, not the backslash and not yet escaped, escapes
\* the union.
LEMMA OneMore ==
  ASSUME NEW C, Backslash \in C, NEW text \in Seq(C), NEW S, NEW out, NEW char \in C, NEW more,
         Encodes(out, text, S, C), Encodes(more, out, {char}, C),
         char \notin S, char # Backslash
  PROVE  Encodes(more, text, S \cup {char}, C)
<1>1. PICK e : Escapes(e, text, S, C) /\ out = e[Len(text)]
  BY DEF Encodes
<1>2. PICK d : Escapes(d, out, {char}, C) /\ more = d[Len(out)]
  BY DEF Encodes
<1>3. PICK n \in Nat : n = Len(text)
  BY LenProperties
<1>4. out \in Seq(C) /\ Len(out) \in Nat
  <2>1. out \in Seq(C)
    BY <1>1, <1>3 DEF Escapes
  <2> QED BY <2>1, LenProperties
<1> DEFINE at(i) == Len(e[i])
           both == [i \in 0..n |-> d[at(i)]]
<1>5. at(0) = 0 /\ at(n) = Len(out)
  BY <1>1, <1>3, EmptySeq DEF Escapes
<1>6. ASSUME NEW i \in 0..n PROVE at(i) \in 0..Len(out)
  <2>1. CASE i = 0
    BY <2>1, <1>4, <1>5
  <2>2. CASE i # 0
    <3>1. i \in 1..Len(text)
      BY <2>2, <1>3
    <3>2. at(i) \in 1..Len(out)
      BY <3>1, <1>1, Places
    <3> QED BY <3>2, <1>4
  <2> QED BY <2>1, <2>2
<1>7. both \in [0..n -> Seq(C)]
  BY <1>2, <1>6 DEF Escapes
<1>8. both[0] = <<>>
  BY <1>2, <1>5 DEF Escapes
<1>9. ASSUME NEW i \in 1..n
      PROVE  both[i] = both[i-1] \o (IF text[i] \in S \cup {char} THEN <<Backslash, text[i]>>
                                                                   ELSE <<text[i]>>)
  <2> DEFINE k == at(i-1)
  <2>1. i \in 1..Len(text) /\ i \in 0..n /\ i - 1 \in 0..n
    BY <1>3
  <2>2. k \in Nat /\ at(i) \in 0..Len(out) /\ both[i] = d[at(i)] /\ both[i-1] = d[k]
    BY <1>4, <1>6, <2>1
  <2>3. text[i] \in C
    BY <2>1, ElementOfSeq
  <2>4. /\ text[i] \in S => at(i) = k + 2 /\ out[k+1] = Backslash /\ out[k+2] = text[i]
        /\ text[i] \notin S => at(i) = k + 1 /\ out[k+1] = text[i]
    BY <2>1, <1>1, Places
  <2>5. d[k] \in Seq(C)
    BY <1>2, <1>6, <2>1 DEF Escapes
  <2>6. \A j \in 1..Len(out) :
          d[j] = d[j-1] \o (IF out[j] \in {char} THEN <<Backslash, out[j]>> ELSE <<out[j]>>)
    BY <1>2 DEF Escapes
  <2> HIDE DEF at, both, k
  <2>7. CASE text[i] \in S
    <3>1. text[i] # char /\ Backslash # char
      BY <2>7
    <3>2. k + 1 \in 1..Len(out) /\ k + 2 \in 1..Len(out) /\ (k+1)-1 = k /\ (k+2)-1 = k+1
      BY <2>2, <2>4, <2>7, <1>4
    <3>3. d[k+1] = d[k] \o <<Backslash>> /\ d[k+2] = d[k+1] \o <<text[i]>>
      BY <2>4, <2>6, <2>7, <3>1, <3>2
    <3>4. <<Backslash>> \in Seq(C) /\ <<text[i]>> \in Seq(C)
      BY <2>3
    <3>5. d[k+2] = d[k] \o (<<Backslash>> \o <<text[i]>>)
      BY <3>3, <3>4, <2>5, ConcatAssociative
    <3>6. <<Backslash>> \o <<text[i]>> = <<Backslash, text[i]>>
      <4> DEFINE l == <<Backslash>> \o <<text[i]>>
      <4>1. /\ l \in Seq(C) /\ Len(l) = 1 + 1
            /\ \A j \in 1..(1 + 1) : l[j] = IF j <= 1 THEN <<Backslash>>[j] ELSE <<text[i]>>[j - 1]
        <5>1. Len(<<Backslash>>) = 1 /\ Len(<<text[i]>>) = 1
          OBVIOUS
        <5> QED BY <3>4, <5>1, ConcatProperties
      <4> HIDE DEF l
      <4>2. l = [j \in 1..2 |-> l[j]]
        BY <4>1
      <4>3. l[1] = Backslash /\ l[2] = text[i]
        BY <4>1
      <4>4. l = <<Backslash, text[i]>>
        BY <4>2, <4>3
      <4> QED BY <4>4 DEF l
    <3> QED
      BY <2>2, <2>4, <2>7, <3>5, <3>6
  <2>8. CASE text[i] \notin S
    <3>1. k + 1 \in 1..Len(out) /\ (k+1)-1 = k
      BY <2>2, <2>4, <2>8, <1>4
    <3> QED
      BY <2>2, <2>4, <2>6, <2>8, <3>1
  <2> QED
    BY <2>7, <2>8
<1>10. Escapes(both, text, S \cup {char}, C)
  BY <1>3, <1>7, <1>8, <1>9 DEF Escapes
<1> QED
  BY <1>2, <1>3, <1>5, <1>10 DEF Encodes

\* Escaping different characters one after another escapes them all.
LEMMA EscapeEachEncodes ==
  ASSUME NEW C, Backslash \in C, NEW text \in Seq(C), NEW S, NEW from \in Seq(C),
         Encodes(from, text, S, C), NEW chars \in Seq(C),
         \A j, k \in 1..Len(chars) : chars[j] = chars[k] => j = k,
         \A k \in 1..Len(chars) : chars[k] # Backslash /\ chars[k] \notin S
  PROVE  Encodes(EscapeEach(from, chars), text, S \cup {chars[j] : j \in 1..Len(chars)}, C)
<1>1. PICK n \in Nat : n = Len(chars)
  BY LenProperties
<1>2. \A k \in 1..n : chars[k] \in C
  BY <1>1, ElementOfSeq
<1> DEFINE result[k \in 0..n] == IF k = 0 THEN from ELSE EscapeAll(result[k-1], chars[k])
           Body(f) == [k \in 0..n |-> IF k = 0 THEN from ELSE EscapeAll(f[k-1], chars[k])]
           extend == [k \in 1..n |-> [t \in Seq(C) |-> EscapeAll(t, chars[k])]]
           Done(k) == S \cup {chars[j] : j \in 1..k}
<1>3. EscapeEach(from, chars) = result[n]
  BY <1>1 DEF EscapeEach
<1>4. ASSUME NEW t \in Seq(C), NEW c \in C PROVE EscapeAll(t, c) \in Seq(C)
  <2>1. PICK e : Escapes(e, t, {c}, C) /\ EscapeAll(t, c) = e[Len(t)]
    <3>1. Encodes(EscapeAll(t, c), t, {c}, C)
      BY EscapeAllEncodes
    <3> QED BY <3>1 DEF Encodes
  <2>2. Len(t) \in 0..Len(t)
    BY LenProperties
  <2>3. e \in [0..Len(t) -> Seq(C)]
    BY <2>1 DEF Escapes
  <2>4. e[Len(t)] \in Seq(C)
    BY <2>2, <2>3
  <2> QED BY <2>1, <2>4
<1>5. extend \in [1..n -> [Seq(C) -> Seq(C)]]
  BY <1>2, <1>4
<1>6. PICK f : Iterates(f, n, Seq(C), from, extend)
  <2> HIDE DEF extend
  <2> QED BY <1>5, Recursion
<1>7. f = Body(f)
  <2>1. ASSUME NEW k \in 0..n PROVE f[k] = Body(f)[k]
    <3>1. CASE k = 0
      BY <3>1, <1>6 DEF Iterates
    <3>2. CASE k # 0
      <4>1. k \in 1..n /\ f[k-1] \in Seq(C)
        BY <3>2, <1>6 DEF Iterates
      <4>2. f[k] = extend[k][f[k-1]]
        BY <1>6, <4>1 DEF Iterates
      <4> QED
        BY <4>1, <4>2, <3>2
    <3> QED BY <3>1, <3>2
  <2> QED
    BY <2>1, <1>6 DEF Iterates
<1>8. result = Body(result)
  BY <1>7
<1> HIDE DEF result
<1>9. result[0] = from /\ \A k \in 1..n : result[k] = EscapeAll(result[k-1], chars[k])
  BY <1>8
<1> DEFINE I == {k \in Nat : k <= n => Encodes(result[k], text, Done(k), C)}
<1>10. 0 \in I
  <2>1. Done(0) = S
    OBVIOUS
  <2>2. Encodes(result[0], text, Done(0), C)
    BY <1>9, <2>1
  <2> HIDE DEF Done
  <2> QED BY <2>2
<1>11. ASSUME NEW k \in Nat, k \in I PROVE k + 1 \in I
  <2> SUFFICES ASSUME k + 1 <= n PROVE Encodes(result[k+1], text, Done(k+1), C)
    OBVIOUS
  <2>1. Encodes(result[k], text, Done(k), C)
    <3>1. k <= n
      BY <1>1
    <3> HIDE DEF Done
    <3> QED BY <1>11, <3>1
  <2>2. k + 1 \in 1..n /\ (k+1)-1 = k /\ chars[k+1] \in C
    BY <1>2
  <2>3. result[k+1] = EscapeAll(result[k], chars[k+1])
    BY <1>9, <2>2
  <2>4. result[k] \in Seq(C)
    <3>1. Len(text) \in 0..Len(text)
      BY LenProperties
    <3> QED BY <2>1, <3>1 DEF Encodes, Escapes
  <2>5. Encodes(result[k+1], result[k], {chars[k+1]}, C)
    BY <2>2, <2>3, <2>4, EscapeAllEncodes
  <2>6. chars[k+1] \notin Done(k)
    <3>1. ASSUME NEW j \in 1..k PROVE chars[j] # chars[k+1]
      <4>1. j \in 1..Len(chars) /\ k + 1 \in 1..Len(chars) /\ j # k + 1
        BY <1>1, <2>2
      <4> QED BY <4>1
    <3> QED BY <3>1, <1>1, <2>2
  <2>7. chars[k+1] # Backslash
    BY <1>1, <2>2
  <2>8. Done(k+1) = Done(k) \cup {chars[k+1]}
    <3>1. 1..(k+1) = (1..k) \cup {k+1}
      BY <2>2
    <3> QED BY <3>1
  <2> HIDE DEF Done
  <2> QED
    BY <2>1, <2>2, <2>5, <2>6, <2>7, <2>8, OneMore
<1>12. n \in I
  <2> HIDE DEF I
  <2> QED BY <1>10, <1>11, Induction
<1> QED
  BY <1>1, <1>3, <1>12

\* What one more character does to what has been read.
LEMMA Reads ==
  ASSUME NEW t, NEW c
  PROVE  /\ Read([shown |-> t, escaped |-> FALSE], Backslash) = [shown |-> t, escaped |-> TRUE]
         /\ Read([shown |-> t, escaped |-> TRUE], c) = [shown |-> Append(t, c), escaped |-> FALSE]
         /\ c \notin Markup \cup {Backslash} =>
              Read([shown |-> t, escaped |-> FALSE], c) = [shown |-> Append(t, c), escaped |-> FALSE]
BY DEF Read

\* A text whose special characters are all escaped, and no other, is shown as
\* it was.
LEMMA ReadsBack ==
  ASSUME NEW C, Backslash \in C, NEW text \in Seq(C), NEW out,
         Encodes(out, text, Markup \cup {Backslash}, C)
  PROVE  Rendered(out) = text
<1> DEFINE Special == Markup \cup {Backslash}
           Shown == Seq(C \cup {"markup"})
           States == [shown : Shown, escaped : BOOLEAN]
           start == [shown |-> <<>>, escaped |-> FALSE]
<1>1. PICK e : Escapes(e, text, Special, C) /\ out = e[Len(text)]
  BY DEF Encodes
<1>2. PICK n \in Nat : n = Len(text)
  BY LenProperties
<1>3. out \in Seq(C)
  BY <1>1, <1>2 DEF Escapes
<1>4. PICK m \in Nat : m = Len(out)
  BY <1>3, LenProperties
<1>5. ASSUME NEW s \in States, NEW c \in C PROVE Read(s, c) \in States
  <2>1. Append(s.shown, c) \in Shown /\ Append(s.shown, "markup") \in Shown
    OBVIOUS
  <2> HIDE DEF Shown
  <2>2. CASE s.escaped
    BY <2>1, <2>2 DEF Read
  <2>3. CASE ~s.escaped /\ c = Backslash
    BY <2>3 DEF Read
  <2>4. CASE ~s.escaped /\ c # Backslash
    BY <2>1, <2>4 DEF Read
  <2> QED BY <2>2, <2>3, <2>4
<1> DEFINE seen[i \in 0..m] == IF i = 0 THEN start ELSE Read(seen[i-1], out[i])
           Body(f) == [i \in 0..m |-> IF i = 0 THEN start ELSE Read(f[i-1], out[i])]
           extend == [i \in 1..m |-> [s \in States |-> Read(s, out[i])]]
<1>6. extend \in [1..m -> [States -> States]]
  <2>1. \A i \in 1..m : out[i] \in C
    BY <1>3, <1>4, ElementOfSeq
  <2> HIDE DEF States
  <2> QED BY <2>1, <1>5
<1>7. start \in States
  OBVIOUS
<1> HIDE DEF States, start
<1>8. PICK f : Iterates(f, m, States, start, extend)
  <2> HIDE DEF extend
  <2> QED BY <1>6, <1>7, Recursion
<1>9. f = Body(f)
  <2>1. ASSUME NEW i \in 0..m PROVE f[i] = Body(f)[i]
    <3>1. CASE i = 0
      BY <3>1, <1>8 DEF Iterates
    <3>2. CASE i # 0
      <4>1. i \in 1..m /\ f[i-1] \in States
        BY <3>2, <1>8 DEF Iterates
      <4>2. f[i] = extend[i][f[i-1]]
        BY <1>8, <4>1 DEF Iterates
      <4> QED
        BY <4>1, <4>2, <3>2
    <3> QED BY <3>1, <3>2
  <2> QED
    BY <2>1, <1>8 DEF Iterates
<1>10. seen = Body(seen)
  BY <1>9
<1>11. Rendered(out) = IF seen[m].escaped THEN Append(seen[m].shown, "markup") ELSE seen[m].shown
  BY <1>4 DEF Rendered, start
<1> HIDE DEF seen
<1>12. seen[0] = start /\ \A i \in 1..m : seen[i] = Read(seen[i-1], out[i])
  BY <1>10
<1> DEFINE at(i) == Len(e[i])
           After(i) == [shown |-> SubSeq(text, 1, i), escaped |-> FALSE]
           I == {i \in Nat : i <= n => seen[at(i)] = After(i)}
<1>13. \A i \in 1..n : text[i] \in C
  BY <1>2, ElementOfSeq
<1>14. 0 \in I
  <2>1. at(0) = 0
    BY <1>1, EmptySeq DEF Escapes
  <2>2. SubSeq(text, 1, 0) = <<>>
    BY SubSeqEmpty
  <2> QED BY <2>1, <2>2, <1>12 DEF start
<1>15. ASSUME NEW i \in Nat, i \in I PROVE i + 1 \in I
  <2> SUFFICES ASSUME i + 1 <= n PROVE seen[at(i + 1)] = After(i + 1)
    OBVIOUS
  <2> DEFINE c == text[i + 1]
             k == at(i)
             shown == SubSeq(text, 1, i)
  <2>1. i + 1 \in 1..Len(text) /\ (i + 1) - 1 = i /\ c \in C /\ i <= n
    BY <1>2, <1>13
  <2>2. seen[k] = [shown |-> shown, escaped |-> FALSE]
    BY <1>15, <2>1
  <2>3. /\ k \in Nat /\ at(i + 1) \in 1..m
        /\ c \in Special => at(i + 1) = k + 2 /\ out[k+1] = Backslash /\ out[k+2] = c
        /\ c \notin Special => at(i + 1) = k + 1 /\ out[k+1] = c
    <3> HIDE DEF Special
    <3>1. /\ at((i + 1) - 1) \in Nat /\ at(i + 1) \in 1..m
          /\ c \in Special => /\ at(i + 1) = at((i + 1) - 1) + 2
                              /\ out[at((i + 1) - 1) + 1] = Backslash
                              /\ out[at((i + 1) - 1) + 2] = c
          /\ c \notin Special => /\ at(i + 1) = at((i + 1) - 1) + 1
                                 /\ out[at((i + 1) - 1) + 1] = c
      BY <1>1, <1>4, <2>1, Places
    <3> QED BY <2>1, <3>1
  <2>4. Append(shown, c) = SubSeq(text, 1, i + 1)
    <3>1. SubSeq(text, 1, i + 1) = SubSeq(text, 1, (i + 1) - 1) \o <<c>>
      <4>1. 1 \in 1..Len(text) /\ i + 1 \in 1..Len(text)
        BY <2>1, <1>2
      <4> QED BY <4>1, SubSeqRecursiveSecond
    <3>2. shown \in Seq(C)
      BY <1>13, <2>1, SubSeqProperties
    <3> HIDE DEF shown
    <3>3. Append(shown, c) = shown \o <<c>>
      BY <2>1, <3>2, AppendIsConcat
    <3> QED BY <2>1, <3>1, <3>3 DEF shown
  <2> HIDE DEF c, k, shown
  <2>5. CASE c \in Special
    <3>1. k + 1 \in 1..m /\ k + 2 \in 1..m /\ (k + 1) - 1 = k /\ (k + 2) - 1 = k + 1
      BY <2>3, <2>5
    <3>2. seen[k+1] = [shown |-> shown, escaped |-> TRUE]
      <4>1. seen[k+1] = Read(seen[k], Backslash)
        BY <1>12, <2>3, <2>5, <3>1
      <4> QED BY <4>1, <2>2, Reads
    <3>3. seen[k+2] = [shown |-> Append(shown, c), escaped |-> FALSE]
      <4>1. seen[k+2] = Read(seen[k+1], c)
        BY <1>12, <2>3, <2>5, <3>1
      <4> QED BY <4>1, <3>2, Reads
    <3> QED BY <2>3, <2>4, <2>5, <3>3
  <2>6. CASE c \notin Special
    <3>1. k + 1 \in 1..m /\ (k + 1) - 1 = k
      BY <2>3, <2>6
    <3>2. seen[k+1] = [shown |-> Append(shown, c), escaped |-> FALSE]
      <4>1. seen[k+1] = Read(seen[k], c)
        BY <1>12, <2>3, <2>6, <3>1
      <4> QED BY <4>1, <2>2, <2>6, Reads
    <3> QED BY <2>3, <2>4, <2>6, <3>2
  <2> QED
    BY <2>5, <2>6
<1>16. seen[at(n)] = After(n)
  <2>1. n \in I
    <3> HIDE DEF I
    <3> QED BY <1>14, <1>15, Induction
  <2> QED BY <2>1
<1>17. at(n) = m /\ SubSeq(text, 1, n) = text
  BY <1>1, <1>2, <1>4, SubSeqFull
<1> QED
  BY <1>11, <1>16, <1>17

\* The list names 18 characters once each, and not the backslash.
LEMMA SpecialCharsDiffer ==
  /\ SpecialChars \in Seq(Markup) /\ Len(SpecialChars) = 18
  /\ \A j, k \in 1..18 : SpecialChars[j] = SpecialChars[k] => j = k
  /\ \A k \in 1..18 : SpecialChars[k] # Backslash
<1>1. \A k \in 1..18 :
        \/ k = 1 \/ k = 2 \/ k = 3 \/ k = 4 \/ k = 5 \/ k = 6 \/ k = 7 \/ k = 8 \/ k = 9
        \/ k = 10 \/ k = 11 \/ k = 12 \/ k = 13 \/ k = 14 \/ k = 15 \/ k = 16 \/ k = 17 \/ k = 18
  OBVIOUS
<1>2.
  /\ SpecialChars[1] = "_" /\ SpecialChars[2] = "*" /\ SpecialChars[3] = "["
  /\ SpecialChars[4] = "]" /\ SpecialChars[5] = "(" /\ SpecialChars[6] = ")"
  /\ SpecialChars[7] = "~" /\ SpecialChars[8] = "backquote" /\ SpecialChars[9] = ">"
  /\ SpecialChars[10] = "#" /\ SpecialChars[11] = "+" /\ SpecialChars[12] = "-"
  /\ SpecialChars[13] = "=" /\ SpecialChars[14] = "|" /\ SpecialChars[15] = "{"
  /\ SpecialChars[16] = "}" /\ SpecialChars[17] = "." /\ SpecialChars[18] = "!"
  BY DEF SpecialChars
<1> DEFINE Place(c) ==
             CASE c = "_" -> 1 [] c = "*" -> 2 [] c = "[" -> 3 [] c = "]" -> 4
               [] c = "(" -> 5 [] c = ")" -> 6 [] c = "~" -> 7 [] c = "backquote" -> 8
               [] c = ">" -> 9 [] c = "#" -> 10 [] c = "+" -> 11 [] c = "-" -> 12
               [] c = "=" -> 13 [] c = "|" -> 14 [] c = "{" -> 15 [] c = "}" -> 16
               [] c = "." -> 17 [] c = "!" -> 18
<1>3. ASSUME NEW k \in 1..18 PROVE Place(SpecialChars[k]) = k
  <2>1. CASE k = 1
    BY <2>1, <1>2
  <2>2. CASE k = 2
    BY <2>2, <1>2
  <2>3. CASE k = 3
    BY <2>3, <1>2
  <2>4. CASE k = 4
    BY <2>4, <1>2
  <2>5. CASE k = 5
    BY <2>5, <1>2
  <2>6. CASE k = 6
    BY <2>6, <1>2
  <2>7. CASE k = 7
    BY <2>7, <1>2
  <2>8. CASE k = 8
    BY <2>8, <1>2
  <2>9. CASE k = 9
    BY <2>9, <1>2
  <2>10. CASE k = 10
    BY <2>10, <1>2
  <2>11. CASE k = 11
    BY <2>11, <1>2
  <2>12. CASE k = 12
    BY <2>12, <1>2
  <2>13. CASE k = 13
    BY <2>13, <1>2
  <2>14. CASE k = 14
    BY <2>14, <1>2
  <2>15. CASE k = 15
    BY <2>15, <1>2
  <2>16. CASE k = 16
    BY <2>16, <1>2
  <2>17. CASE k = 17
    BY <2>17, <1>2
  <2>18. CASE k = 18
    BY <2>18, <1>2
  <2> QED
    BY <1>1, <2>1, <2>2, <2>3, <2>4, <2>5, <2>6, <2>7, <2>8, <2>9,
       <2>10, <2>11, <2>12, <2>13, <2>14, <2>15, <2>16, <2>17, <2>18
<1> HIDE DEF Place
<1>4. DOMAIN SpecialChars = 1..18 /\ SpecialChars = [k \in 1..18 |-> SpecialChars[k]]
  BY DEF SpecialChars
<1>5. SpecialChars \in Seq(Markup) /\ Len(SpecialChars) = 18
  <2>1. \A k \in 1..18 : SpecialChars[k] \in Markup
    BY <1>4 DEF Markup
  <2>2. SpecialChars \in [1..18 -> Markup]
    BY <1>4, <2>1
  <2>3. SpecialChars \in Seq(Markup)
    BY <2>2, SeqDef
  <2> QED BY <2>3 DEF SpecialChars
<1>6. \A k \in 1..18 : SpecialChars[k] # Backslash
  BY <1>1, <1>2 DEF Backslash
<1>7. ASSUME NEW j \in 1..18, NEW k \in 1..18, SpecialChars[j] = SpecialChars[k]
      PROVE  j = k
  BY <1>3, <1>7
<1> QED
  BY <1>5, <1>6, <1>7

\* What the chat shows of an escaped text is the text.
THEOREM EscapingRoundTrips ==
  ASSUME NEW C, NEW text \in Seq(C)
  PROVE  Rendered(escapeMarkdown(text)) = text
<1> DEFINE D == C \cup Markup \cup {Backslash}
           first == EscapeAll(text, Backslash)
<1>1. /\ text \in Seq(D) /\ Backslash \in D /\ SpecialChars \in Seq(D)
  BY SpecialCharsDiffer, SeqMonotonic
<1>2. {SpecialChars[j] : j \in 1..Len(SpecialChars)} = Markup
  BY SpecialCharsDiffer, LenProperties DEF Markup
<1> HIDE DEF D
<1>3. Encodes(first, text, {Backslash}, D)
  BY <1>1, EscapeAllEncodes
<1>4. first \in Seq(D)
  <2>1. Len(text) \in 0..Len(text)
    BY <1>1, LenProperties
  <2> QED BY <1>3, <2>1 DEF Encodes, Escapes
<1> HIDE DEF first
<1>5. /\ \A j, k \in 1..Len(SpecialChars) : SpecialChars[j] = SpecialChars[k] => j = k
      /\ \A k \in 1..Len(SpecialChars) : SpecialChars[k] # Backslash /\ SpecialChars[k] \notin {Backslash}
  BY SpecialCharsDiffer
<1>6. Encodes(EscapeEach(first, SpecialChars), text,
              {Backslash} \cup {SpecialChars[j] : j \in 1..Len(SpecialChars)}, D)
  BY <1>1, <1>3, <1>4, <1>5, EscapeEachEncodes
<1>7. {Backslash} \cup {SpecialChars[j] : j \in 1..Len(SpecialChars)} = Markup \cup {Backslash}
  BY <1>2
<1>8. Rendered(EscapeEach(first, SpecialChars)) = text
  BY <1>1, <1>6, <1>7, ReadsBack
<1> QED
  BY <1>8 DEF escapeMarkdown, first

=============================================================================
