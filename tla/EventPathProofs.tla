--------------------------- MODULE EventPathProofs ---------------------------
(***************************************************************************)
(* Proofs about the data of events, for messages of any length, any        *)
(* identifiers, instants and other publishers.                             *)
(*                                                                         *)
(* Words and Length are recursive functions over the runs of a message.    *)
(* The library's induction theorems take an operator, which the provers    *)
(* cannot give them; Induction below speaks of a set of numbers instead,   *)
(* and rests on the least element that a well-founded order gives.         *)
(***************************************************************************)
EXTENDS EventPath, WellFoundedInduction, FiniteSetTheorems, TLAPS

-----------------------------------------------------------------------------
(* Induction and recursion over 0..n.                                      *)

LEMMA Least ==
    ASSUME NEW S \in SUBSET Nat, S # {}
    PROVE  \E i \in S : \A j \in S : i <= j
<1>. DEFINE Lt == {p \in Nat \X Nat : p[1] < p[2]}
<1>1. OpToRel(<, Nat) = Lt
    BY Zenon DEF OpToRel
<1>2. IsWellFoundedOn(Lt, Nat)
    BY <1>1, NatLessThanWellFounded
<1>3. PICK i \in S : \A j \in S : <<j, i>> \notin Lt
    <2>. HIDE DEF Lt
    <2>. QED BY <1>2, WFMin
<1>4. ASSUME NEW j \in S PROVE i <= j
    <2>1. i \in Nat /\ j \in Nat /\ <<j, i>> \notin Lt
        <3>. HIDE DEF Lt
        <3>. QED BY <1>3
    <2>2. ~(j < i)
        BY <2>1
    <2>. QED BY <2>1, <2>2
<1>. QED BY <1>4

LEMMA Induction ==
    ASSUME NEW n \in Nat, NEW S, 0 \in S, \A i \in 1..n : i - 1 \in S => i \in S
    PROVE  \A i \in 0..n : i \in S
<1>. DEFINE B == {i \in 0..n : i \notin S}
<1>1. SUFFICES ASSUME B # {} PROVE FALSE
    OBVIOUS
<1>2. B \in SUBSET Nat
    OBVIOUS
<1>3. PICK i \in B : \A j \in B : i <= j
    <2>. HIDE DEF B
    <2>. QED BY <1>1, <1>2, Least
<1>4. i \in 0..n /\ i \notin S /\ i # 0
    OBVIOUS
<1>5. i \in 1..n /\ i - 1 \in 0..n /\ ~(i <= i - 1)
    <2>. HIDE DEF B
    <2>. QED BY <1>4
<1>6. i - 1 \notin B
    BY <1>3, <1>5
<1>. QED BY <1>4, <1>5, <1>6

\* f starts with b, and g gives each further value from the one before.
Recurs(f, n, b, g) == f[0] = b /\ \A i \in 1..n : f[i] = g[i][f[i - 1]]

LEMMA Recursion ==
    ASSUME NEW n \in Nat, NEW T, NEW b \in T,
           NEW g, \A i \in 1..n : \A t \in T : g[i][t] \in T
    PROVE  \E f \in [0..n -> T] : Recurs(f, n, b, g)
<1>. DEFINE S == {k \in 0..n : \E f \in [0..n -> T] : Recurs(f, k, b, g)}
<1>1. 0 \in S
    <2>. DEFINE f == [i \in 0..n |-> b]
    <2>1. f \in [0..n -> T] /\ 0 \in 0..n /\ Recurs(f, 0, b, g)
        BY DEF Recurs
    <2>. HIDE DEF f
    <2>. QED BY <2>1
<1>2. ASSUME NEW k \in 1..n, k - 1 \in S PROVE k \in S
    <2>1. PICK f \in [0..n -> T] : Recurs(f, k - 1, b, g)
        BY <1>2
    <2>. DEFINE h == [f EXCEPT ![k] = g[k][f[k - 1]]]
    <2>2. k - 1 \in 0..n /\ k \in 0..n /\ k # 0 /\ f[k - 1] \in T
        OBVIOUS
    <2>3. g[k][f[k - 1]] \in T
        BY <2>2
    <2>4. h \in [0..n -> T] /\ h[k] = g[k][f[k - 1]]
          /\ \A j \in 0..n : j # k => h[j] = f[j]
        BY <2>2, <2>3
    <2>. HIDE DEF h
    <2>5. h[0] = b
        BY <2>1, <2>2, <2>4 DEF Recurs
    <2>6. ASSUME NEW i \in 1..k PROVE h[i] = g[i][h[i - 1]]
        <3>1. i \in 0..n /\ i - 1 \in 0..n /\ i - 1 # k
            OBVIOUS
        <3>2. h[i - 1] = f[i - 1]
            BY <2>4, <3>1
        <3>3. CASE i = k
            BY <2>4, <3>2, <3>3
        <3>4. CASE i # k
            <4>1. i \in 1..(k - 1)
                BY <3>4
            <4>2. f[i] = g[i][f[i - 1]]
                BY <2>1, <4>1 DEF Recurs
            <4>. QED BY <2>4, <3>1, <3>2, <3>4, <4>2
        <3>. QED BY <3>3, <3>4
    <2>7. Recurs(h, k, b, g)
        BY <2>5, <2>6 DEF Recurs
    <2>. QED BY <2>2, <2>4, <2>7
<1>. HIDE DEF S
<1>3. n \in S
    BY <1>1, <1>2, Induction
<1>. QED BY <1>3 DEF S

-----------------------------------------------------------------------------
(* The words of a message.                                                 *)

Runs == [blank : BOOLEAN, len : Nat]

LEMMA MessagesAre == Messages = Seq(Runs)
    BY DEF Messages, Runs

LEMMA AppendRun == ASSUME NEW w \in Messages, NEW r \in Runs PROVE Append(w, r) \in Messages
    BY MessagesAre

\* words[i] are the words up to the i-th run of m.
WordsUpTo(m, words) ==
    /\ words \in [0..Len(m) -> Messages]
    /\ words[0] = <<>>
    /\ \A i \in 1..Len(m) :
          words[i] = IF m[i].blank THEN words[i - 1] ELSE Append(words[i - 1], m[i])

LEMMA WordsUnfold ==
    ASSUME NEW m \in Messages
    PROVE  \E words : WordsUpTo(m, words) /\ Words(m) = words[Len(m)]
<1>. DEFINE n == Len(m)
            g == [i \in 1..n |-> [w \in Messages |->
                     IF m[i].blank THEN w ELSE Append(w, m[i])]]
            upTo[i \in 0..Len(m)] ==
                IF i = 0 THEN <<>>
                ELSE IF m[i].blank THEN upTo[i - 1] ELSE Append(upTo[i - 1], m[i])
<1>1. n \in Nat /\ <<>> \in Messages
    BY DEF Messages
<1>2. ASSUME NEW i \in 1..n, NEW w \in Messages PROVE Append(w, m[i]) \in Messages
    <2>1. m[i] \in Runs
        BY MessagesAre
    <2>. QED BY <2>1, AppendRun
<1>3. ASSUME NEW i \in 1..n, NEW w \in Messages
      PROVE  g[i][w] \in Messages /\ g[i][w] = IF m[i].blank THEN w ELSE Append(w, m[i])
    BY <1>2
<1>4. PICK f \in [0..n -> Messages] : Recurs(f, n, <<>>, g)
    <2>. HIDE DEF g, n
    <2>1. \A i \in 1..n : \A w \in Messages : g[i][w] \in Messages
        BY <1>3
    <2>. QED BY <1>1, <2>1, Recursion
<1>5. ASSUME NEW i \in 1..n
      PROVE  /\ f[i - 1] \in Messages
             /\ f[i] = IF m[i].blank THEN f[i - 1] ELSE Append(f[i - 1], m[i])
    <2>1. i - 1 \in 0..n /\ f[i - 1] \in Messages
        BY <1>1
    <2>2. f[i] = g[i][f[i - 1]]
        BY <1>4 DEF Recurs
    <2>. QED BY <2>1, <2>2
<1>6. f = [i \in 0..Len(m) |->
              IF i = 0 THEN <<>>
              ELSE IF m[i].blank THEN f[i - 1] ELSE Append(f[i - 1], m[i])]
    <2>1. ASSUME NEW i \in 0..n
          PROVE  f[i] = IF i = 0 THEN <<>>
                        ELSE IF m[i].blank THEN f[i - 1] ELSE Append(f[i - 1], m[i])
        <3>1. CASE i = 0
            BY <1>4, <3>1 DEF Recurs
        <3>2. CASE i # 0
            <4>1. i \in 1..n
                BY <1>1, <3>2
            <4>. QED BY <1>5, <3>2, <4>1
        <3>. QED BY <3>1, <3>2
    <2>. QED BY <2>1
<1>7. upTo = CHOOSE h : h = [i \in 0..Len(m) |->
                 IF i = 0 THEN <<>>
                 ELSE IF m[i].blank THEN h[i - 1] ELSE Append(h[i - 1], m[i])]
    OBVIOUS
<1>8. Words(m) = upTo[Len(m)]
    BY DEF Words
<1>. HIDE DEF upTo
<1>9. upTo = [i \in 0..Len(m) |->
                 IF i = 0 THEN <<>>
                 ELSE IF m[i].blank THEN upTo[i - 1] ELSE Append(upTo[i - 1], m[i])]
    BY <1>6, <1>7
<1>10. upTo[0] = <<>>
    BY <1>1, <1>9
<1>11. ASSUME NEW i \in 1..n
       PROVE  upTo[i] = IF m[i].blank THEN upTo[i - 1] ELSE Append(upTo[i - 1], m[i])
    <2>1. i \in 0..n /\ i # 0
        OBVIOUS
    <2>. QED BY <1>9, <2>1
<1>12. upTo \in [0..n -> Messages]
    <2>. DEFINE S == {i \in 0..n : upTo[i] \in Messages}
    <2>1. 0 \in S
        BY <1>1, <1>10
    <2>2. ASSUME NEW i \in 1..n, i - 1 \in S PROVE i \in S
        <3>1. upTo[i - 1] \in Messages /\ i \in 0..n
            BY <2>2
        <3>2. Append(upTo[i - 1], m[i]) \in Messages
            BY <1>2, <3>1
        <3>. QED BY <1>11, <3>1, <3>2
    <2>. HIDE DEF S
    <2>3. \A i \in 0..n : i \in S
        BY <1>1, <2>1, <2>2, Induction
    <2>4. \A i \in 0..n : upTo[i] \in Messages
        BY <2>3 DEF S
    <2>. QED BY <1>9, <2>4
<1>. QED BY <1>8, <1>10, <1>11, <1>12 DEF WordsUpTo

\* The length of a message, likewise.
LengthUpTo(m, sum) ==
    /\ sum \in [0..Len(m) -> Nat]
    /\ sum[0] = 0
    /\ \A i \in 1..Len(m) : sum[i] = sum[i - 1] + m[i].len

LEMMA LengthUnfold ==
    ASSUME NEW m \in Messages
    PROVE  \E sum : LengthUpTo(m, sum) /\ Length(m) = sum[Len(m)]
<1>. DEFINE n == Len(m)
            g == [i \in 1..n |-> [s \in Nat |-> s + m[i].len]]
            sum[i \in 0..Len(m)] == IF i = 0 THEN 0 ELSE sum[i - 1] + m[i].len
<1>1. n \in Nat
    BY DEF Messages
<1>2. ASSUME NEW i \in 1..n PROVE m[i].len \in Nat
    <2>1. m[i] \in Runs
        BY MessagesAre
    <2>. QED BY <2>1 DEF Runs
<1>3. ASSUME NEW i \in 1..n, NEW s \in Nat PROVE g[i][s] \in Nat /\ g[i][s] = s + m[i].len
    BY <1>2
<1>4. PICK f \in [0..n -> Nat] : Recurs(f, n, 0, g)
    <2>. HIDE DEF g, n
    <2>1. \A i \in 1..n : \A s \in Nat : g[i][s] \in Nat
        BY <1>3
    <2>. QED BY <1>1, <2>1, Recursion
<1>5. ASSUME NEW i \in 1..n PROVE f[i - 1] \in Nat /\ f[i] = f[i - 1] + m[i].len
    <2>1. i - 1 \in 0..n /\ f[i - 1] \in Nat
        BY <1>1
    <2>2. f[i] = g[i][f[i - 1]]
        BY <1>4 DEF Recurs
    <2>. QED BY <2>1, <2>2
<1>6. f = [i \in 0..Len(m) |-> IF i = 0 THEN 0 ELSE f[i - 1] + m[i].len]
    <2>1. ASSUME NEW i \in 0..n PROVE f[i] = IF i = 0 THEN 0 ELSE f[i - 1] + m[i].len
        <3>1. CASE i = 0
            BY <1>4, <3>1 DEF Recurs
        <3>2. CASE i # 0
            <4>1. i \in 1..n
                BY <1>1, <3>2
            <4>. QED BY <1>5, <3>2, <4>1
        <3>. QED BY <3>1, <3>2
    <2>. QED BY <2>1
<1>7. sum = CHOOSE h : h = [i \in 0..Len(m) |-> IF i = 0 THEN 0 ELSE h[i - 1] + m[i].len]
    OBVIOUS
<1>8. Length(m) = sum[Len(m)]
    BY DEF Length
<1>. HIDE DEF sum
<1>9. sum = [i \in 0..Len(m) |-> IF i = 0 THEN 0 ELSE sum[i - 1] + m[i].len]
    BY <1>6, <1>7
<1>10. sum[0] = 0
    BY <1>1, <1>9
<1>11. ASSUME NEW i \in 1..n PROVE sum[i] = sum[i - 1] + m[i].len
    <2>1. i \in 0..n /\ i # 0
        OBVIOUS
    <2>. QED BY <1>9, <2>1
<1>12. sum \in [0..n -> Nat]
    <2>. DEFINE S == {i \in 0..n : sum[i] \in Nat}
    <2>1. 0 \in S
        BY <1>1, <1>10
    <2>2. ASSUME NEW i \in 1..n, i - 1 \in S PROVE i \in S
        BY <1>2, <1>11, <2>2
    <2>. HIDE DEF S
    <2>3. \A i \in 0..n : i \in S
        BY <1>1, <2>1, <2>2, Induction
    <2>4. \A i \in 0..n : sum[i] \in Nat
        BY <2>3 DEF S
    <2>. QED BY <1>9, <2>4
<1>. QED BY <1>8, <1>10, <1>11, <1>12 DEF LengthUpTo

\* No word is blank.
LEMMA WordsAre ==
    ASSUME NEW m \in Messages
    PROVE  Words(m) \in Messages /\ \A j \in 1..Len(Words(m)) : ~Words(m)[j].blank
<1>1. PICK words : WordsUpTo(m, words) /\ Words(m) = words[Len(m)]
    BY WordsUnfold
<1>. DEFINE n == Len(m)
            S == {i \in 0..n : \A j \in 1..Len(words[i]) : ~words[i][j].blank}
<1>2. n \in Nat /\ words \in [0..n -> Messages] /\ words[0] = <<>>
    BY <1>1 DEF WordsUpTo, Messages
<1>3. 0 \in S
    BY <1>2
<1>4. ASSUME NEW i \in 1..n, i - 1 \in S PROVE i \in S
    <2>1. i \in 0..n /\ i - 1 \in 0..n /\ words[i - 1] \in Seq(Runs) /\ m[i] \in Runs
        BY <1>2, MessagesAre
    <2>2. \A j \in 1..Len(words[i - 1]) : ~words[i - 1][j].blank
        BY <1>4
    <2>3. words[i] = IF m[i].blank THEN words[i - 1] ELSE Append(words[i - 1], m[i])
        BY <1>1 DEF WordsUpTo
    <2>4. CASE m[i].blank
        BY <2>1, <2>2, <2>3, <2>4
    <2>5. CASE ~m[i].blank
        <3>. DEFINE v == words[i - 1]
        <3>1. v \in Seq(Runs) /\ words[i] = Append(v, m[i])
            BY <2>1, <2>3, <2>5
        <3>2. \A j \in 1..Len(v) : ~v[j].blank
            BY <2>2
        <3>. HIDE DEF v
        <3>3. \A j \in 1..Len(words[i]) : ~words[i][j].blank
            BY <2>5, <3>1, <3>2
        <3>. QED BY <2>1, <3>3
    <2>. QED BY <2>4, <2>5
<1>. HIDE DEF S
<1>5. \A i \in 0..n : i \in S
    BY <1>2, <1>3, <1>4, Induction
<1>6. n \in S
    BY <1>2, <1>5
<1>. QED BY <1>1, <1>2, <1>6 DEF S

\* Words and single spaces by turns, a word at each end.
IsNormal(m) ==
    /\ m = <<>> \/ Len(m) % 2 = 1
    /\ \A i \in 1..Len(m) : IF i % 2 = 1 THEN ~m[i].blank ELSE m[i] = Blank(1)

LEMMA WordsOfNormal ==
    ASSUME NEW m \in Messages, IsNormal(m)
    PROVE  /\ Len(Words(m)) = (Len(m) + 1) \div 2
           /\ \A j \in 1..Len(Words(m)) : Words(m)[j] = m[2 * j - 1]
<1>1. PICK words : WordsUpTo(m, words) /\ Words(m) = words[Len(m)]
    BY WordsUnfold
<1>. DEFINE n == Len(m)
            Odd(v, i) == Len(v) = (i + 1) \div 2 /\ \A j \in 1..Len(v) : v[j] = m[2 * j - 1]
            S == {i \in 0..n : Odd(words[i], i)}
<1>2. n \in Nat /\ words \in [0..n -> Messages] /\ words[0] = <<>>
    BY <1>1 DEF WordsUpTo, Messages
<1>3. 0 \in S
    BY <1>2
<1>4. ASSUME NEW i \in 1..n, i - 1 \in S PROVE i \in S
    <2>. DEFINE v == words[i - 1]
    <2>1. i \in 0..n /\ i - 1 \in 0..n /\ v \in Seq(Runs) /\ m[i] \in Runs
        BY <1>2, MessagesAre
    <2>2. Odd(v, i - 1)
        BY <1>4
    <2>3. words[i] = IF m[i].blank THEN v ELSE Append(v, m[i])
        BY <1>1 DEF WordsUpTo
    <2>. HIDE DEF v
    <2>4. CASE i % 2 = 1
        <3>1. words[i] = Append(v, m[i])
            BY <2>3, <2>4 DEF IsNormal
        <3>2. (i - 1) + 1 = i /\ (i + 1) \div 2 = i \div 2 + 1 /\ i = 2 * (i \div 2 + 1) - 1
            BY <2>1, <2>4
        <3>3. Len(v) = i \div 2 /\ \A j \in 1..Len(v) : v[j] = m[2 * j - 1]
            BY <2>2, <3>2
        <3>4. /\ Len(words[i]) = Len(v) + 1
              /\ words[i][Len(v) + 1] = m[i]
              /\ \A j \in 1..Len(v) : words[i][j] = v[j]
            BY <2>1, <3>1
        <3>5. Odd(words[i], i)
            <4>1. Len(words[i]) = (i + 1) \div 2
                BY <3>2, <3>3, <3>4
            <4>2. ASSUME NEW j \in 1..Len(words[i]) PROVE words[i][j] = m[2 * j - 1]
                <5>1. CASE j \in 1..Len(v)
                    BY <3>3, <3>4, <5>1
                <5>2. CASE j = Len(v) + 1
                    <6>1. 2 * j - 1 = i
                        BY <3>2, <3>3, <5>2
                    <6>. QED BY <3>4, <5>2, <6>1
                <5>3. Len(v) \in Nat /\ j \in 1..(Len(v) + 1)
                    BY <2>1, <3>4
                <5>. QED BY <5>1, <5>2, <5>3
            <4>. QED BY <4>1, <4>2
        <3>. QED BY <2>1, <3>5
    <2>5. CASE i % 2 # 1
        <3>1. m[i] = Blank(1)
            BY <2>5 DEF IsNormal
        <3>2. words[i] = v
            BY <2>3, <3>1 DEF Blank
        <3>3. (i + 1) \div 2 = i \div 2
            BY <2>5
        <3>4. (i - 1) + 1 = i
            BY <2>1
        <3>5. Odd(v, i)
            <4>1. Len(v) = i \div 2
                BY <2>2, <3>4
            <4>. QED BY <2>2, <3>3, <4>1
        <3>6. Odd(words[i], i)
            BY <3>2, <3>5
        <3>. QED BY <2>1, <3>6
    <2>. QED BY <2>4, <2>5
<1>. HIDE DEF S
<1>5. \A i \in 0..n : i \in S
    BY <1>2, <1>3, <1>4, Induction
<1>6. n \in S
    BY <1>2, <1>5
<1>. QED BY <1>1, <1>2, <1>6 DEF S

LEMMA NormalizedIs ==
    ASSUME NEW m \in Messages
    PROVE  /\ Normalized(m) \in Messages
           /\ IsNormal(Normalized(m))
           /\ Len(Normalized(m)) = 2 * Len(Words(m)) - (IF Words(m) = <<>> THEN 0 ELSE 1)
           /\ \A j \in 1..Len(Words(m)) : Normalized(m)[2 * j - 1] = Words(m)[j]
<1>. DEFINE w == Words(m)
            n == 2 * Len(w) - (IF w = <<>> THEN 0 ELSE 1)
            At(i) == IF i % 2 = 1 THEN w[(i + 1) \div 2] ELSE Blank(1)
<1>1. w \in Seq(Runs) /\ \A j \in 1..Len(w) : ~w[j].blank
    BY WordsAre, MessagesAre
<1>2. Normalized(m) = [i \in 1..n |-> At(i)]
    BY DEF Normalized
<1>. HIDE DEF w
<1>3. n \in Nat /\ (n = 0 \/ n % 2 = 1)
    BY <1>1
<1>4. Blank(1) \in Runs
    BY DEF Blank, Runs
<1>5. ASSUME NEW i \in 1..n
      PROVE  At(i) \in Runs /\ IF i % 2 = 1 THEN ~At(i).blank ELSE At(i) = Blank(1)
    <2>1. CASE i % 2 = 1
        <3>1. (i + 1) \div 2 \in 1..Len(w)
            BY <1>1, <2>1
        <3>. QED BY <1>1, <2>1, <3>1
    <2>. QED BY <1>4, <2>1
<1>. DEFINE f == [i \in 1..n |-> At(i)]
<1>6. f \in Seq(Runs) /\ Len(f) = n /\ \A i \in 1..n : f[i] = At(i)
    <2>. HIDE DEF n, At
    <2>1. f \in [1..n -> Runs] /\ \A i \in 1..n : f[i] = At(i)
        BY <1>5
    <2>. HIDE DEF f
    <2>. QED BY <1>3, <2>1
<1>7. ASSUME NEW j \in 1..Len(w)
      PROVE  2 * j - 1 \in 1..n /\ (2 * j - 1) % 2 = 1 /\ ((2 * j - 1) + 1) \div 2 = j
    BY <1>1
<1>8. \A j \in 1..Len(w) : f[2 * j - 1] = w[j]
    BY <1>6, <1>7
<1>9. IsNormal(f)
    <2>. HIDE DEF f, n, At
    <2>1. \A i \in 1..n : IF i % 2 = 1 THEN ~f[i].blank ELSE f[i] = Blank(1)
        BY <1>5, <1>6
    <2>2. n = 0 => f = <<>>
        BY <1>6
    <2>. QED BY <1>3, <1>6, <2>1, <2>2 DEF IsNormal
<1>. QED BY <1>2, <1>6, <1>8, <1>9, MessagesAre DEF w

\* Normalizing keeps the words.
LEMMA WordsNormalized ==
    ASSUME NEW m \in Messages
    PROVE  Words(Normalized(m)) = Words(m)
<1>. DEFINE v == Words(Normalized(m))
            w == Words(m)
<1>1. v \in Seq(Runs) /\ w \in Seq(Runs)
    BY WordsAre, NormalizedIs, MessagesAre
<1>2. Len(v) = (Len(Normalized(m)) + 1) \div 2
      /\ \A j \in 1..Len(v) : v[j] = Normalized(m)[2 * j - 1]
    BY NormalizedIs, WordsOfNormal
<1>3. Len(Normalized(m)) = 2 * Len(w) - (IF w = <<>> THEN 0 ELSE 1)
      /\ \A j \in 1..Len(w) : Normalized(m)[2 * j - 1] = w[j]
    BY NormalizedIs
<1>. HIDE DEF v, w
<1>4. Len(v) = Len(w)
    BY <1>1, <1>2, <1>3
<1>5. \A j \in 1..Len(w) : v[j] = w[j]
    BY <1>2, <1>3, <1>4
<1>6. v = w
    BY <1>1, <1>4, <1>5
<1>. QED BY <1>6 DEF v, w

\* What is normal stays as it is.
LEMMA NormalStays ==
    ASSUME NEW m \in Messages, IsNormal(m)
    PROVE  Normalized(m) = m
<1>. DEFINE k == Normalized(m)
            w == Words(m)
<1>1. m \in Seq(Runs) /\ k \in Seq(Runs) /\ w \in Seq(Runs)
    BY NormalizedIs, WordsAre, MessagesAre
<1>2. Len(w) = (Len(m) + 1) \div 2 /\ \A j \in 1..Len(w) : w[j] = m[2 * j - 1]
    BY WordsOfNormal
<1>3. /\ Len(k) = 2 * Len(w) - (IF w = <<>> THEN 0 ELSE 1)
      /\ \A j \in 1..Len(w) : k[2 * j - 1] = w[j]
      /\ IsNormal(k)
    BY NormalizedIs
<1>. HIDE DEF k, w
<1>4. Len(k) = Len(m)
    <2>1. CASE m = <<>>
        BY <1>1, <1>2, <1>3, <2>1
    <2>2. CASE m # <<>>
        <3>1. Len(m) \in Nat /\ Len(m) % 2 = 1
            BY <1>1, <2>2 DEF IsNormal
        <3>2. 2 * Len(w) = Len(m) + 1 /\ w # <<>>
            BY <1>2, <3>1
        <3>. QED BY <1>1, <1>3, <3>1, <3>2
    <2>. QED BY <2>1, <2>2
<1>5. ASSUME NEW i \in 1..Len(m) PROVE k[i] = m[i]
    <2>1. CASE i % 2 = 1
        <3>. DEFINE j == (i + 1) \div 2
        <3>1. 2 * j - 1 = i /\ j \in Nat /\ 1 <= j
            BY <1>1, <2>1
        <3>2. Len(m) \in Nat /\ Len(w) \in Nat /\ i <= Len(m)
            BY <1>1
        <3>. HIDE DEF j
        <3>3. j <= Len(w)
            BY <1>2, <3>1, <3>2
        <3>. QED BY <1>2, <1>3, <3>1, <3>2, <3>3
    <2>2. CASE i % 2 # 1
        BY <1>3, <1>4, <2>2 DEF IsNormal
    <2>. QED BY <2>1, <2>2
<1>6. k = m
    BY <1>1, <1>4, <1>5
<1>. QED BY <1>6 DEF k

-----------------------------------------------------------------------------
(* The messages and the criticalities of events.                           *)

LEMMA RunIs ==
    ASSUME NEW n \in Nat
    PROVE  /\ Word(n) \in Runs /\ ~Word(n).blank /\ Word(n).len = n
           /\ Blank(n) \in Runs /\ Blank(n).blank /\ Blank(n).len = n
    BY DEF Word, Blank, Runs

\* The messages of the Daemon are valid, and normal already.
LEMMA SecurityMessages ==
    ASSUME NEW m \in securityMessages
    PROVE  m \in Messages /\ m # <<>> /\ Length(m) <= 1000 /\ Normalized(m) = m
<1>. DEFINE Some == {Word(6), Word(7), Word(10), Word(14)}
            ByTurns(k) == \A i \in 1..Len(k) : IF i % 2 = 1 THEN k[i] \in Some ELSE k[i] = Blank(1)
<1>1. Some \subseteq Runs /\ Blank(1) \in Runs
    BY RunIs
<1>2. m \in Seq(Runs) /\ Len(m) \in {3, 5} /\ ByTurns(m)
    <2>1. CASE m = <<Word(6), Blank(1), Word(14)>>
        BY <1>1, <2>1
    <2>2. CASE m = <<Word(10), Blank(1), Word(10), Blank(1), Word(7)>>
        BY <1>1, <2>2
    <2>3. CASE m = <<Word(10), Blank(1), Word(7)>>
        BY <1>1, <2>3
    <2>. QED BY <2>1, <2>2, <2>3 DEF securityMessages
<1>3. (\A r \in Some : ~r.blank /\ r.len \in 0..14) /\ Blank(1).len = 1
    BY RunIs
<1>. HIDE DEF Some
<1>4. IsNormal(m)
    <2>1. \A i \in 1..Len(m) : IF i % 2 = 1 THEN ~m[i].blank ELSE m[i] = Blank(1)
        BY <1>2, <1>3
    <2>2. \A n \in {3, 5} : n % 2 = 1
        OBVIOUS
    <2>3. Len(m) % 2 = 1
        BY <1>2, <2>2
    <2>. QED BY <2>1, <2>3 DEF IsNormal
<1>5. \A i \in 1..Len(m) : m[i].len \in 0..14
    BY <1>2, <1>3
<1>6. PICK sum : LengthUpTo(m, sum) /\ Length(m) = sum[Len(m)]
    BY <1>2, MessagesAre, LengthUnfold
<1>7. sum[0] = 0 /\ \A i \in 0..Len(m) : sum[i] \in Nat
    BY <1>6 DEF LengthUpTo
<1>8. ASSUME NEW i \in 1..Len(m) PROVE sum[i] <= sum[i - 1] + 14
    <2>1. i - 1 \in 0..Len(m) /\ sum[i - 1] \in Nat
        BY <1>2, <1>7
    <2>2. sum[i] = sum[i - 1] + m[i].len
        BY <1>6 DEF LengthUpTo
    <2>3. m[i].len \in Nat /\ m[i].len <= 14
        BY <1>5
    <2>. HIDE DEF ByTurns
    <2>. QED BY <2>1, <2>2, <2>3
<1>9. sum[Len(m)] <= 1000
    <2>1. CASE Len(m) = 3
        <3>1. sum[1] <= sum[0] + 14 /\ sum[2] <= sum[1] + 14 /\ sum[3] <= sum[2] + 14
            BY <1>8, <2>1
        <3>. QED BY <1>7, <2>1, <3>1
    <2>2. CASE Len(m) = 5
        <3>1. /\ sum[1] <= sum[0] + 14 /\ sum[2] <= sum[1] + 14 /\ sum[3] <= sum[2] + 14
              /\ sum[4] <= sum[3] + 14 /\ sum[5] <= sum[4] + 14
            BY <1>8, <2>2
        <3>. QED BY <1>7, <2>2, <3>1
    <2>. QED BY <1>2, <2>1, <2>2
<1>. QED BY <1>2, <1>4, <1>6, <1>9, NormalStays, MessagesAre

LEMMA ClampIs ==
    ASSUME NEW c \in Int
    PROVE  Clamp(c) \in 1..10 /\ (c \in 1..10 => Clamp(c) = c) /\ Nearest(c, Clamp(c))
    BY DEF Clamp, Nearest

\* The severity that is tabled above Severity, both ways.
LEMMA SeverityIs ==
    ASSUME NEW c \in 1..10
    PROVE  c \in CASE Severity(c) = "info"     -> {1}
                   [] Severity(c) = "low"      -> 2..3
                   [] Severity(c) = "medium"   -> 4..6
                   [] Severity(c) = "high"     -> 7..8
                   [] Severity(c) = "critical" -> 9..10
<1>1. c = 1 \/ c \in 2..3 \/ c \in 4..6 \/ c \in 7..8 \/ c \in 9..10
    OBVIOUS
<1>2. CASE c = 1
    <2>1. Severity(c) = "info"
        BY <1>2 DEF Severity
    <2>. QED BY <1>2, <2>1
<1>3. CASE c \in 2..3
    <2>1. Severity(c) = "low"
        BY <1>3 DEF Severity
    <2>. QED BY <1>3, <2>1
<1>4. CASE c \in 4..6
    <2>1. Severity(c) = "medium"
        BY <1>4 DEF Severity
    <2>. QED BY <1>4, <2>1
<1>5. CASE c \in 7..8
    <2>1. Severity(c) = "high"
        BY <1>5 DEF Severity
    <2>. QED BY <1>5, <2>1
<1>6. CASE c \in 9..10
    <2>1. Severity(c) = "critical"
        BY <1>6 DEF Severity
    <2>. QED BY <1>6, <2>1
<1>. QED BY <1>1, <1>2, <1>3, <1>4, <1>5, <1>6

LEMMA ColumnsAre ==
    ASSUME NEW c \in 1..10
    PROVE  {k \in 1..10 : Columns(c)[k] # ""} = {c}
<1>1. critColor(c) # ""
    BY DEF critColor
<1>2. \A k \in 1..10 : Columns(c)[k] = IF k = c THEN critColor(c) ELSE ""
    BY DEF Columns
<1>. QED BY <1>1, <1>2

-----------------------------------------------------------------------------
(* The inductive invariant.                                                *)

Events == [id : Ids \cup {e.id : e \in Foreign}, criticality : Int,
           timestamp : Timestamps, message : Messages]

Typed ==
    /\ sent \subseteq Events
    /\ saved \subseteq sent
    /\ rejected \subseteq sent
    /\ IsFiniteSet(table)

\* An event with an identifier of a Daemon is as a Daemon makes it, and the
\* only one with that identifier.
Own(e) ==
    e.id \in Ids =>
        /\ e.criticality \in 1..10
        /\ e.message \in securityMessages
        /\ e.timestamp.parses

OwnEvents == \A e \in sent : Own(e)

OneId == \A e, f \in sent : e.id \in Ids /\ e.id = f.id => e = f

NotRejected == \A e \in rejected : ~Validate(e)

\* Every row is the point of an event that was saved, and the point of an event
\* of a Daemon is never overwritten by that of another.
RowsOfSaved == \A p \in table : \E e \in saved : p = Point(Sanitize(e))

Kept == \A e \in saved : e.id \in Ids => Point(Sanitize(e)) \in table

IInv == Typed /\ OwnEvents /\ OneId /\ NotRejected /\ RowsOfSaved /\ Kept /\ LineShowsItsEvent

LEMMA ForeignEvents == Foreign \subseteq Events /\ \A e \in Foreign : e.id \notin Ids
<1>1. ASSUME NEW e \in Foreign PROVE e \in Events
    <2>1. e \in [id : {f.id : f \in Foreign}, criticality : Int,
                 timestamp : Timestamps, message : Messages]
        BY EventPathAssumption
    <2>. QED BY <2>1 DEF Events
<1>. QED BY <1>1, EventPathAssumption

LEMMA NewEvents ==
    ASSUME NEW id \in Ids, NEW c \in 1..10, NEW t \in Instants, NEW m \in securityMessages
    PROVE  /\ NewEvent(id, c, t, m) \in Events
           /\ NewEvent(id, c, t, m).id = id
           /\ Own(NewEvent(id, c, t, m))
<1>1. Format(t) \in Timestamps /\ Format(t).parses
    BY EventPathAssumption DEF Format, Timestamps
<1>2. m \in Messages
    BY SecurityMessages
<1>. QED BY <1>1, <1>2 DEF NewEvent, Events, Own

\* What Sanitize and Point make of an event.
LEMMA PointIs ==
    ASSUME NEW e \in Events
    PROVE  /\ Point(Sanitize(e)).id = e.id
           /\ Point(Sanitize(e)).time = e.timestamp.time
           /\ Point(Sanitize(e)).message = Normalized(e.message)
           /\ Point(Sanitize(e)).criticality = Clamp(e.criticality)
           /\ Point(Sanitize(e)).severity = Severity(Clamp(e.criticality))
    BY DEF Point, Sanitize, Events

LEMMA OwnIs ==
    ASSUME NEW e \in Events, e.id \in Ids, Own(e)
    PROVE  /\ Validate(e)
           /\ Normalized(e.message) = e.message
           /\ Clamp(e.criticality) = e.criticality
<1>1. e.message # <<>> /\ Length(e.message) <= 1000 /\ Normalized(e.message) = e.message
    BY SecurityMessages DEF Own
<1>2. e.criticality \in 1..10
    BY DEF Own
<1>3. Clamp(e.criticality) = e.criticality
    BY <1>2, ClampIs
<1>. QED BY <1>1, <1>3 DEF Validate, Own

\* A line, from the point of an event.
LEMMA LineIs ==
    ASSUME NEW e \in Events
    PROVE  LET l == Line(Result(Point(Sanitize(e))))
           IN  /\ {k \in 1..10 : l.columns[k] # ""} = {Clamp(e.criticality)}
               /\ Words(l.message.of) = Words(e.message)
               /\ l.message.length <= 35
<1>. DEFINE p == Point(Sanitize(e))
            l == Line(Result(p))
<1>1. p.message = Normalized(e.message) /\ p.criticality = Clamp(e.criticality)
    BY PointIs
<1>2. e.criticality \in Int /\ e.message \in Messages
    BY DEF Events
<1>. HIDE DEF p
<1>3. l.columns = Columns(p.criticality) /\ l.message = Truncate(p.message, 35)
    BY DEF Line, Result
<1>. HIDE DEF l
<1>4. {k \in 1..10 : l.columns[k] # ""} = {Clamp(e.criticality)}
    <2>1. Clamp(e.criticality) \in 1..10
        BY <1>2, ClampIs
    <2>2. {k \in 1..10 : Columns(Clamp(e.criticality))[k] # ""} = {Clamp(e.criticality)}
        BY <2>1, ColumnsAre
    <2>. QED BY <1>1, <1>3, <2>2
<1>5. l.message.of = p.message
    BY <1>3 DEF Truncate
<1>6. Words(l.message.of) = Words(e.message)
    BY <1>1, <1>2, <1>5, WordsNormalized
<1>7. l.message.length <= 35
    BY <1>3 DEF Truncate
<1>. QED BY <1>4, <1>6, <1>7 DEF l, p

LEMMA Rows ==
    ASSUME NEW S, IsFiniteSet(S), NEW i \in DOMAIN SetToSeq(S)
    PROVE  SetToSeq(S)[i] \in S
<1>. DEFINE n == Cardinality(S)
<1>1. PICK f : f \in Bijection(1..n, S)
    BY FS_CardinalityType DEF ExistsBijection
<1>2. f \in [1..n -> S] /\ IsInjective(f)
    BY <1>1 DEF Bijection, Injection, Surjection, IsInjective
<1>3. SetToSeq(S) \in [1..n -> S]
    BY <1>2 DEF SetToSeq
<1>. QED BY <1>3

LEMMA Initially == Init => IInv
<1>. SUFFICES ASSUME Init PROVE IInv
    OBVIOUS
<1>1. IsFiniteSet(table)
    BY FS_EmptySet DEF Init
<1>2. LineShowsItsEvent
    BY DEF Init, LineShowsItsEvent
<1>. QED BY <1>1, <1>2 DEF Init, IInv, Typed, OwnEvents, OneId, NotRejected, RowsOfSaved, Kept

\* One more message, of whatever publisher.
LEMMA Sent ==
    ASSUME IInv, NEW e \in Events, Send(e), Own(e), \A f \in sent : f.id = e.id => e.id \notin Ids
    PROVE  IInv'
<1>1. sent' = sent \cup {e}
      /\ UNCHANGED <<saved, rejected, table, shown>>
    BY DEF Send
<1>2. Typed'
    BY <1>1 DEF IInv, Typed
<1>3. OwnEvents'
    BY <1>1 DEF IInv, OwnEvents, Own
<1>4. OneId'
    BY <1>1 DEF IInv, OneId
<1>5. (NotRejected /\ RowsOfSaved /\ Kept /\ LineShowsItsEvent)'
    BY <1>1 DEF IInv, NotRejected, RowsOfSaved, Kept, LineShowsItsEvent, Nearest
<1>. QED BY <1>2, <1>3, <1>4, <1>5 DEF IInv

LEMMA Rejected ==
    ASSUME IInv, NEW e \in sent, Reject(e)
    PROVE  IInv'
<1>1. ~Validate(e) /\ rejected' = rejected \cup {e} /\ UNCHANGED <<sent, saved, table, shown>>
    BY DEF Reject
<1>2. Typed'
    BY <1>1 DEF IInv, Typed
<1>3. NotRejected'
    BY <1>1 DEF IInv, NotRejected
<1>4. (OwnEvents /\ OneId /\ RowsOfSaved /\ Kept /\ LineShowsItsEvent)'
    BY <1>1 DEF IInv, OwnEvents, Own, OneId, RowsOfSaved, Kept, LineShowsItsEvent, Nearest
<1>. QED BY <1>2, <1>3, <1>4 DEF IInv

LEMMA Saved ==
    ASSUME IInv, NEW e \in sent, Save(e)
    PROVE  IInv'
<1>. DEFINE p == Point(Sanitize(e))
            kept == {q \in table : Key(q) # Key(p)}
<1>1. table' = kept \cup {p} /\ saved' = saved \cup {e} /\ UNCHANGED <<sent, rejected, shown>>
    BY DEF Save
<1>2. Typed'
    <2>1. IsFiniteSet(kept)
        BY FS_Subset DEF IInv, Typed
    <2>2. IsFiniteSet(kept \cup {p})
        <3>. HIDE DEF kept, p
        <3>. QED BY <2>1, FS_AddElement
    <2>. HIDE DEF kept, p
    <2>. QED BY <1>1, <2>2 DEF IInv, Typed
<1>3. RowsOfSaved'
    <2>1. \A q \in table : \E f \in saved : q = Point(Sanitize(f))
        BY DEF IInv, RowsOfSaved
    <2>. QED BY <1>1, <2>1 DEF RowsOfSaved
<1>4. Kept'
    <2>. SUFFICES ASSUME NEW f \in saved', f.id \in Ids
                  PROVE  Point(Sanitize(f)) \in table'
        BY DEF Kept
    <2>1. CASE f = e
        BY <1>1, <2>1
    <2>2. CASE f # e
        <3>1. f \in saved /\ f \in sent /\ e \in Events /\ f \in Events
            BY <1>1, <2>2 DEF IInv, Typed
        <3>2. Point(Sanitize(f)) \in table
            BY <3>1 DEF IInv, Kept
        <3>3. f.id # e.id
            BY <2>2, <3>1 DEF IInv, OneId
        <3>4. Key(Point(Sanitize(f)))[3] = f.id /\ Key(p)[3] = e.id
            BY <3>1, PointIs DEF Key
        <3>5. Key(Point(Sanitize(f))) # Key(p)
            BY <3>3, <3>4
        <3>. QED BY <1>1, <3>2, <3>5
    <2>. QED BY <2>1, <2>2
<1>5. LineShowsItsEvent'
    BY <1>1 DEF IInv, LineShowsItsEvent, Nearest
<1>6. (OwnEvents /\ OneId /\ NotRejected)'
    BY <1>1 DEF IInv, OwnEvents, Own, OneId, NotRejected
<1>. QED BY <1>2, <1>3, <1>4, <1>5, <1>6 DEF IInv

LEMMA Displayed ==
    ASSUME IInv, NEW min, Display(min)
    PROVE  IInv'
<1>. DEFINE S == {p \in table : p.criticality >= min}
            rows == SetToSeq(S)
<1>1. shown' = [i \in DOMAIN rows |-> Line(Result(rows[i]))]
      /\ UNCHANGED <<sent, saved, rejected, table>>
    BY DEF Display
<1>2. IsFiniteSet(S)
    BY FS_Subset DEF IInv, Typed
<1>3. LineShowsItsEvent'
    <2>1. ASSUME NEW i \in DOMAIN rows
          PROVE  \E e \in saved, c \in 1..10 :
                     /\ {k \in 1..10 : shown'[i].columns[k] # ""} = {c}
                     /\ Nearest(e.criticality, c)
                     /\ Words(shown'[i].message.of) = Words(e.message)
                     /\ shown'[i].message.length <= 35
        <3>1. rows[i] \in table
            <4>1. rows[i] \in S
                <5>. HIDE DEF S
                <5>. QED BY <1>2, Rows
            <4>. QED BY <4>1
        <3>2. PICK e \in saved : rows[i] = Point(Sanitize(e))
            BY <3>1 DEF IInv, RowsOfSaved
        <3>3. e \in Events /\ e.criticality \in Int
            BY <3>2 DEF IInv, Typed, Events
        <3>. HIDE DEF rows
        <3>4. shown'[i] = Line(Result(Point(Sanitize(e))))
            BY <1>1, <3>2
        <3>. DEFINE c == Clamp(e.criticality)
        <3>5. /\ {k \in 1..10 : shown'[i].columns[k] # ""} = {c}
              /\ Words(shown'[i].message.of) = Words(e.message)
              /\ shown'[i].message.length <= 35
            BY <3>3, <3>4, LineIs
        <3>6. c \in 1..10 /\ Nearest(e.criticality, c)
            BY <3>3, ClampIs
        <3>. HIDE DEF c
        <3>. QED BY <3>5, <3>6
    <2>. HIDE DEF rows
    <2>2. DOMAIN shown' = DOMAIN rows /\ saved' = saved
        BY <1>1
    <2>. QED BY <2>1, <2>2 DEF LineShowsItsEvent
<1>4. (Typed /\ OwnEvents /\ OneId /\ NotRejected /\ RowsOfSaved /\ Kept)'
    BY <1>1 DEF IInv, Typed, OwnEvents, Own, OneId, NotRejected, RowsOfSaved, Kept
<1>. QED BY <1>3, <1>4 DEF IInv

LEMMA Steps == IInv /\ [Next]_vars => IInv'
<1>. SUFFICES ASSUME IInv, [Next]_vars PROVE IInv'
    OBVIOUS
<1>1. CASE Generate
    <2>1. PICK id \in Ids \ {e.id : e \in sent}, c \in 1..10, t \in Instants,
               m \in securityMessages : Send(NewEvent(id, c, t, m))
        BY <1>1 DEF Generate
    <2>. DEFINE e == NewEvent(id, c, t, m)
    <2>2. e \in Events /\ e.id = id /\ Own(e)
        BY NewEvents
    <2>3. \A f \in sent : f.id # id
        BY <2>1
    <2>. HIDE DEF e
    <2>4. Send(e)
        BY <2>1 DEF e
    <2>. QED BY <2>2, <2>3, <2>4, Sent
<1>2. CASE Publish
    <2>1. PICK e \in Foreign : Send(e)
        BY <1>2 DEF Publish
    <2>2. e \in Events /\ e.id \notin Ids
        BY ForeignEvents
    <2>. QED BY <2>1, <2>2, Sent DEF Own
<1>3. CASE \E e \in sent : Reject(e) \/ Save(e)
    BY <1>3, Rejected, Saved
<1>4. CASE \E min \in Minima : Display(min)
    BY <1>4, Displayed
<1>5. CASE UNCHANGED vars
    BY <1>5 DEF vars, IInv, Typed, OwnEvents, Own, OneId, NotRejected, RowsOfSaved, Kept,
                LineShowsItsEvent, Nearest
<1>. QED BY <1>1, <1>2, <1>3, <1>4, <1>5 DEF Next

\* What holds of events, rows and lines in every state.
THEOREM DataInvariant == Spec => []IInv
    BY Initially, Steps, PTL DEF Spec

LEMMA Row == IInv => RowPerEvent
<1>. SUFFICES ASSUME IInv, NEW e \in sent, e.id \in Ids
              PROVE  /\ e \notin rejected
                     /\ e \in saved =>
                         \E p \in table :
                             /\ {q \in table : q.id = e.id} = {p}
                             /\ Result(p) = [timestamp |-> e.timestamp.time,
                                             criticality |-> e.criticality,
                                             message |-> e.message]
    BY DEF RowPerEvent
<1>. DEFINE p == Point(Sanitize(e))
<1>1. e \in Events /\ Own(e)
    BY DEF IInv, Typed, OwnEvents
<1>2. Validate(e) /\ Normalized(e.message) = e.message /\ Clamp(e.criticality) = e.criticality
    BY <1>1, OwnIs
<1>3. e \notin rejected
    BY <1>2 DEF IInv, NotRejected
<1>4. p.id = e.id /\ p.time = e.timestamp.time
      /\ p.message = e.message /\ p.criticality = e.criticality
    BY <1>1, <1>2, PointIs
<1>5. ASSUME e \in saved PROVE p \in table
    BY <1>5 DEF IInv, Kept
<1>6. ASSUME NEW q \in table, q.id = e.id PROVE q = p
    <2>1. PICK f \in saved : q = Point(Sanitize(f))
        BY DEF IInv, RowsOfSaved
    <2>2. f \in sent /\ f \in Events
        BY DEF IInv, Typed
    <2>3. f.id = e.id
        BY <1>6, <2>1, <2>2, PointIs
    <2>4. f = e
        BY <2>2, <2>3 DEF IInv, OneId
    <2>. QED BY <2>1, <2>4
<1>. HIDE DEF p
<1>7. Result(p) = [timestamp |-> e.timestamp.time, criticality |-> e.criticality,
                   message |-> e.message]
    BY <1>4 DEF Result
<1>8. ASSUME e \in saved PROVE {q \in table : q.id = e.id} = {p}
    BY <1>4, <1>5, <1>6, <1>8
<1>. QED BY <1>3, <1>5, <1>7, <1>8

LEMMA Stored == IInv => StoredIsNormalized
<1>. SUFFICES ASSUME IInv, NEW p \in table
              PROVE  \E e \in saved :
                  /\ p.id = e.id /\ p.time = e.timestamp.time
                  /\ Words(p.message) = Words(e.message)
                  /\ \A i \in DOMAIN p.message : (i % 2 = 0) = (p.message[i] = Blank(1))
                  /\ p.message = <<>> \/ Len(p.message) % 2 = 1
                  /\ Nearest(e.criticality, p.criticality)
                  /\ p.criticality \in CASE p.severity = "info"     -> {1}
                                         [] p.severity = "low"      -> 2..3
                                         [] p.severity = "medium"   -> 4..6
                                         [] p.severity = "high"     -> 7..8
                                         [] p.severity = "critical" -> 9..10
    BY DEF StoredIsNormalized
<1>1. PICK e \in saved : p = Point(Sanitize(e))
    BY DEF IInv, RowsOfSaved
<1>2. e \in Events /\ e.criticality \in Int /\ e.message \in Messages
    BY DEF IInv, Typed, Events
<1>3. /\ p.id = e.id /\ p.time = e.timestamp.time
      /\ p.message = Normalized(e.message)
      /\ p.criticality = Clamp(e.criticality)
      /\ p.severity = Severity(p.criticality)
    BY <1>1, <1>2, PointIs
<1>4. Words(p.message) = Words(e.message)
    BY <1>2, <1>3, WordsNormalized
<1>5. p.message \in Seq(Runs) /\ IsNormal(p.message)
    BY <1>2, <1>3, NormalizedIs, MessagesAre
<1>6. \A i \in DOMAIN p.message : (i % 2 = 0) = (p.message[i] = Blank(1))
    <2>1. Blank(1).blank
        BY RunIs
    <2>2. ASSUME NEW i \in 1..Len(p.message)
          PROVE  i % 2 = 0 <=> p.message[i] = Blank(1)
        <3>1. i % 2 = 0 \/ i % 2 = 1
            BY <1>5
        <3>2. i % 2 = 1 => ~p.message[i].blank
            BY <1>5 DEF IsNormal
        <3>3. i % 2 = 0 => p.message[i] = Blank(1)
            BY <1>5 DEF IsNormal
        <3>. QED BY <2>1, <3>1, <3>2, <3>3
    <2>. QED BY <1>5, <2>2
<1>7. p.message = <<>> \/ Len(p.message) % 2 = 1
    BY <1>5 DEF IsNormal
<1>8. p.criticality \in 1..10 /\ Nearest(e.criticality, p.criticality)
    BY <1>2, <1>3, ClampIs
<1>9. p.criticality \in CASE p.severity = "info"     -> {1}
                          [] p.severity = "low"      -> 2..3
                          [] p.severity = "medium"   -> 4..6
                          [] p.severity = "high"     -> 7..8
                          [] p.severity = "critical" -> 9..10
    BY <1>3, <1>8, SeverityIs
<1>. QED BY <1>3, <1>4, <1>6, <1>7, <1>8, <1>9

-----------------------------------------------------------------------------
(* Theorems.                                                               *)

\* However many messages and replicas, an event of a Daemon is never rejected,
\* and from its first Save on it has one row, with its own values.
THEOREM EventsHaveRows == Spec => []RowPerEvent
    BY DataInvariant, Row, PTL

\* A row holds the words of a message that was sent, with single spaces, and
\* its clamped criticality, in the band of its severity: for messages of any
\* length, whoever sends them.
THEOREM RowsAreNormalized == Spec => []StoredIsNormalized
    BY DataInvariant, Stored, PTL

\* A line of the Client stands for an event that was saved: the one column that
\* is marked is that of its criticality, the words are its own, and the text
\* fits its column, for messages of any length (displayTable, truncate).
THEOREM LinesAreTrue == Spec => []LineShowsItsEvent
<1>1. IInv => LineShowsItsEvent
    BY DEF IInv
<1>. QED BY <1>1, DataInvariant, PTL
=============================================================================
