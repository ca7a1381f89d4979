-------------------------- MODULE TurnStream_proofs --------------------------
(***************************************************************************)
(* Proofs about the turn stream: for any number of frames, turns, lost     *)
(* connections and gateway processes, no record is projected twice or out  *)
(* of order, the watermark claims nothing the gateway has not emitted, a   *)
(* prompt that blocks the turn is shown, a settled row is quiet, and a row *)
(* says what its turn said.                                                *)
(***************************************************************************)
EXTENDS TurnStream, WellFoundedInduction, TLAPS

----------------------------------------------------------------------------
(* Induction, and the folds unfolded.                                      *)

\* A set of naturals that is not empty has a least element: induction, for facts
\* whose statement is written as a set.
LEMMA LeastElement ==
  ASSUME NEW T \in SUBSET Nat, T # {} PROVE \E n \in T : \A m \in T : n <= m
<1> DEFINE R == {p \in Nat \X Nat : p[1] < p[2]}
<1>1. R = OpToRel(<, Nat)
  BY DEF OpToRel
<1>2. IsWellFoundedOn(R, Nat)
  BY <1>1, NatLessThanWellFounded
<1>3. PICK n \in T : \A m \in T : ~(<<m, n>> \in R)
  BY <1>2, WFMin
<1>4. ASSUME NEW m \in T PROVE n <= m
  <2>1. <<m, n>> \in Nat \X Nat /\ <<m, n>>[1] = m /\ <<m, n>>[2] = n
    OBVIOUS
  <2>2. ~(m < n)
    BY <1>3, <2>1 DEF R
  <2> QED BY <2>2
<1> QED BY <1>4

\* The same, as it is used: what holds of 0 and goes from n to n + 1.
LEMMA Induction ==
  ASSUME NEW S \in SUBSET Nat, 0 \in S, \A n \in S : n + 1 \in S PROVE S = Nat
<1> SUFFICES ASSUME Nat \ S # {} PROVE FALSE
  OBVIOUS
<1>1. PICK n \in Nat \ S : \A m \in Nat \ S : n <= m
  BY LeastElement
<1>2. n # 0 /\ n - 1 \in Nat /\ n - 1 \notin Nat \ S
  BY <1>1
<1>3. (n - 1) + 1 \in S
  BY <1>2
<1> QED BY <1>1, <1>3

LEMMA MaxOfPrefix ==
  ASSUME NEW n \in Nat, n # 0, NEW D \in SUBSET (1..n), n \in D PROVE Max(D) = n
<1>1. \A y \in D : n >= y
  OBVIOUS
<1>2. Max(D) \in D /\ \A y \in D : Max(D) >= y
  BY <1>1 DEF Max
<1> DEFINE m == Max(D)
<1>3. m \in 1..n /\ m >= n
  BY <1>2
<1> HIDE DEF m
<1>4. m = n
  BY <1>3
<1> QED BY <1>4 DEF m

\* One step of a fold of the model: the i-th frame is translated into a view, the
\* i-th part is said, or the element at the i-th place is kept if it is picked.
Step(fold, x, i) ==
  IF fold.kind = "translate" THEN Translate(x, fold.over[i])
  ELSE IF fold.kind = "say" THEN x \o Words(fold.over[i])
  ELSE IF fold.over[i] \in fold.places THEN Append(x, fold.from[fold.over[i]]) ELSE x

\* The fold from base, unfolded: states[D] after the places of D.
Folding(fold, base, n, states) ==
  states = [D \in SUBSET (1..n) |->
              IF D = {} THEN base ELSE Step(fold, states[D \ {Max(D)}], Max(D))]

LEMMA FoldingExists ==
  ASSUME NEW fold, NEW base
  PROVE  \A n \in Nat : \E states : Folding(fold, base, n, states)
<1> DEFINE S == {n \in Nat : \E states : Folding(fold, base, n, states)}
<1>1. 0 \in S
  <2> DEFINE f == [D \in SUBSET (1..0) |-> base]
  <2>1. \A D \in SUBSET (1..0) : D = {}
    OBVIOUS
  <2>2. Folding(fold, base, 0, f)
    BY <2>1 DEF Folding
  <2> QED BY <2>2
<1>2. ASSUME NEW n \in S PROVE n + 1 \in S
  <2>1. PICK h : Folding(fold, base, n, h)
    BY <1>2
  <2> DEFINE last(D) == Step(fold, h[D \ {n + 1}], n + 1)
             f == [D \in SUBSET (1..(n + 1)) |-> IF n + 1 \in D THEN last(D) ELSE h[D]]
  <2>2. ASSUME NEW D \in SUBSET (1..(n + 1))
        PROVE  f[D] = IF D = {} THEN base ELSE Step(fold, f[D \ {Max(D)}], Max(D))
    <3>1. CASE n + 1 \in D
      <4>1. Max(D) = n + 1
        BY <3>1, MaxOfPrefix
      <4>2. D \ {n + 1} \in SUBSET (1..(n + 1)) /\ n + 1 \notin D \ {n + 1} /\ D # {}
        BY <3>1
      <4>3. f[D \ {n + 1}] = h[D \ {n + 1}] /\ f[D] = last(D)
        BY <3>1, <4>2
      <4> HIDE DEF f
      <4> QED BY <4>1, <4>2, <4>3
    <3>2. CASE n + 1 \notin D
      <4>1. D \in SUBSET (1..n)
        BY <3>2
      <4>2. f[D] = h[D]
        BY <3>2
      <4>3. h[D] = IF D = {} THEN base ELSE Step(fold, h[D \ {Max(D)}], Max(D))
        BY <2>1, <4>1 DEF Folding
      <4>4. f[D \ {Max(D)}] = h[D \ {Max(D)}]
        BY <3>2
      <4> HIDE DEF f
      <4> QED BY <4>2, <4>3, <4>4
    <3> QED BY <3>1, <3>2
  <2>3. Folding(fold, base, n + 1, f)
    <3>1. f = [D \in SUBSET (1..(n + 1)) |-> f[D]]
      OBVIOUS
    <3> HIDE DEF f
    <3> QED BY <2>2, <3>1 DEF Folding
  <2> QED BY <2>3
<1> QED BY <1>1, <1>2, Induction

\* The states a fold goes through, by the number of its steps.
LEMMA FoldingSteps ==
  ASSUME NEW fold, NEW base, NEW n \in Nat, NEW states, Folding(fold, base, n, states)
  PROVE  /\ states[1..0] = base
         /\ \A m \in 1..n : states[1..m] = Step(fold, states[1..(m - 1)], m)
<1>1. states[1..0] = base
  <2>1. 1..0 = {} /\ 1..0 \in SUBSET (1..n)
    OBVIOUS
  <2> QED BY <2>1 DEF Folding
<1>2. ASSUME NEW m \in 1..n PROVE states[1..m] = Step(fold, states[1..(m - 1)], m)
  <2>1. m \in Nat /\ m # 0 /\ 1..m \in SUBSET (1..m) /\ m \in 1..m
    OBVIOUS
  <2> DEFINE D == 1..m
  <2>2. D \in SUBSET (1..n) /\ D # {} /\ Max(D) = m /\ D \ {m} = 1..(m - 1)
    <3>1. Max(1..m) = m
      BY <2>1, MaxOfPrefix
    <3> QED BY <2>1, <3>1
  <2> HIDE DEF D
  <2>3. states[D] = Step(fold, states[D \ {Max(D)}], Max(D))
    BY <2>2 DEF Folding
  <2> QED BY <2>2, <2>3 DEF D
<1> QED BY <1>1, <1>2

----------------------------------------------------------------------------
(* Sequences of anything.                                                  *)

IsSeq(s) == s \in Seq({s[i] : i \in DOMAIN s})

LEMMA SeqShape ==
  ASSUME NEW s, IsSeq(s) PROVE Len(s) \in Nat /\ DOMAIN s = 1..Len(s)
  BY DEF IsSeq

LEMMA NoSeq ==
  ASSUME NEW s, s = <<>> PROVE IsSeq(s)
<1>1. DOMAIN s = {}
  OBVIOUS
<1>2. IsSeq(s)
  BY <1>1 DEF IsSeq
<1> QED BY <1>2

LEMMA SeqIs ==
  ASSUME NEW S, NEW s \in Seq(S) PROVE IsSeq(s)
<1>1. Len(s) \in Nat /\ s = [i \in 1..Len(s) |-> s[i]] /\ DOMAIN s = 1..Len(s)
  OBVIOUS
<1> QED BY <1>1 DEF IsSeq

LEMMA NotEmpty ==
  ASSUME NEW s, IsSeq(s) PROVE s # <<>> <=> Len(s) # 0
  BY DEF IsSeq

LEMMA AppendSeq ==
  ASSUME NEW s, IsSeq(s), NEW e
  PROVE  /\ IsSeq(Append(s, e)) /\ Len(Append(s, e)) = Len(s) + 1
         /\ DOMAIN Append(s, e) = 1..(Len(s) + 1)
         /\ Append(s, e)[Len(s) + 1] = e
         /\ \A i \in DOMAIN s : Append(s, e)[i] = s[i]
<1>1. PICK S : s \in Seq(S)
  BY DEF IsSeq
<1>2. s \in Seq(S \cup {e}) /\ e \in S \cup {e}
  <2>1. Len(s) \in Nat /\ s = [i \in 1..Len(s) |-> s[i]] /\ \A i \in 1..Len(s) : s[i] \in S
    BY <1>1
  <2> QED BY <2>1
<1>3. Append(s, e) \in Seq(S \cup {e})
  BY <1>2
<1>4. IsSeq(Append(s, e))
  BY <1>3, SeqIs
<1> QED BY <1>1, <1>2, <1>4

LEMMA TailSeq ==
  ASSUME NEW s, IsSeq(s), s # <<>>
  PROVE  /\ IsSeq(Tail(s)) /\ Len(Tail(s)) = Len(s) - 1
         /\ DOMAIN Tail(s) = 1..(Len(s) - 1)
         /\ \A i \in DOMAIN Tail(s) : Tail(s)[i] = s[i + 1] /\ i + 1 \in DOMAIN s
         /\ Head(s) = s[1] /\ 1 \in DOMAIN s
         /\ \A i \in DOMAIN s : i = 1 \/ (i - 1 \in DOMAIN Tail(s) /\ Tail(s)[i - 1] = s[i])
<1>1. PICK S : s \in Seq(S)
  BY DEF IsSeq
<1>2. Len(s) \in Nat \ {0} /\ Tail(s) \in Seq(S)
  BY <1>1
<1>3. Len(Tail(s)) = Len(s) - 1
  BY <1>1, <1>2
<1>4. \A i \in 1..(Len(s) - 1) : Tail(s)[i] = s[i + 1]
  BY <1>1, <1>2
<1>5. IsSeq(Tail(s))
  BY <1>2, SeqIs
<1> QED BY <1>1, <1>2, <1>3, <1>4, <1>5

LEMMA ConcatSeq ==
  ASSUME NEW s, IsSeq(s), NEW t, IsSeq(t)
  PROVE  /\ IsSeq(s \o t) /\ Len(s \o t) = Len(s) + Len(t)
         /\ \A i \in DOMAIN (s \o t) : \/ i \in DOMAIN s /\ (s \o t)[i] = s[i]
                                       \/ /\ i - Len(s) \in DOMAIN t /\ i > Len(s)
                                          /\ (s \o t)[i] = t[i - Len(s)]
<1>1. PICK S : s \in Seq(S)
  BY DEF IsSeq
<1>2. PICK T : t \in Seq(T)
  BY DEF IsSeq
<1>3. s \in Seq(S \cup T) /\ t \in Seq(S \cup T)
  <2>1. Len(s) \in Nat /\ s = [i \in 1..Len(s) |-> s[i]] /\ \A i \in 1..Len(s) : s[i] \in S
    BY <1>1
  <2>2. Len(t) \in Nat /\ t = [i \in 1..Len(t) |-> t[i]] /\ \A i \in 1..Len(t) : t[i] \in T
    BY <1>2
  <2> QED BY <2>1, <2>2
<1>4. s \o t \in Seq(S \cup T)
  BY <1>3
<1>5. IsSeq(s \o t)
  BY <1>4, SeqIs
<1>6. Len(s \o t) = Len(s) + Len(t)
  BY <1>3
<1>7. ASSUME NEW i \in DOMAIN (s \o t)
      PROVE  \/ i \in DOMAIN s /\ (s \o t)[i] = s[i]
             \/ i - Len(s) \in DOMAIN t /\ i > Len(s) /\ (s \o t)[i] = t[i - Len(s)]
  <2>1. i \in 1..(Len(s) + Len(t)) /\ Len(s) \in Nat /\ Len(t) \in Nat
        /\ DOMAIN s = 1..Len(s) /\ DOMAIN t = 1..Len(t)
    BY <1>3, <1>4, <1>6
  <2>2. (s \o t)[i] = IF i <= Len(s) THEN s[i] ELSE t[i - Len(s)]
    BY <1>3, <2>1
  <2> QED BY <2>1, <2>2
<1>8. \A i \in DOMAIN (s \o t) :
        \/ i \in DOMAIN s /\ (s \o t)[i] = s[i]
        \/ i - Len(s) \in DOMAIN t /\ i > Len(s) /\ (s \o t)[i] = t[i - Len(s)]
  BY <1>7
<1> QED BY <1>5, <1>6, <1>8

----------------------------------------------------------------------------
(* The two folds, step by step.                                            *)

\* The views that the frames lead through, one by one.
Translated(v, frames, after) ==
  /\ after[0] = v
  /\ \A m \in 1..Len(frames) : after[m] = Translate(after[m - 1], frames[m])
  /\ FoldLeft(Translate, v, frames) = after[Len(frames)]

LEMMA TranslatedSteps ==
  ASSUME NEW v, NEW frames, IsSeq(frames) PROVE \E after : Translated(v, frames, after)
<1> DEFINE n == Len(frames)
           fold == [kind |-> "translate", over |-> frames]
           Unfolds(f) == f = [D \in SUBSET (1..n) |->
                                IF D = {} THEN v
                                ELSE Translate(f[D \ {Max(D)}], frames[Max(D)])]
           states == CHOOSE f : Unfolds(f)
           after == [m \in 0..n |-> states[1..m]]
<1>1. n \in Nat /\ DOMAIN frames = 1..n
  BY SeqShape
<1>2. FoldLeft(Translate, v, frames) = states[1..n]
  BY <1>1 DEF FoldLeft, MapThenFoldSet
<1>3. \A f : Folding(fold, v, n, f) <=> Unfolds(f)
  <2>1. \A x, i : Step(fold, x, i) = Translate(x, frames[i])
    BY DEF Step
  <2> HIDE DEF fold
  <2> QED BY <2>1 DEF Folding
<1>4. \E f : Unfolds(f)
  BY <1>1, <1>3, FoldingExists
<1>5. Unfolds(states)
  BY <1>4
<1> HIDE DEF states, Unfolds
<1>6. /\ states[1..0] = v
      /\ \A m \in 1..n : states[1..m] = Step(fold, states[1..(m - 1)], m)
  <2>1. Folding(fold, v, n, states)
    BY <1>3, <1>5
  <2> HIDE DEF fold, n
  <2> QED BY <1>1, <2>1, FoldingSteps
<1>7. \A m \in 1..n : states[1..m] = Translate(states[1..(m - 1)], frames[m])
  BY <1>6 DEF Step
<1> HIDE DEF fold
<1>8. \A m \in 0..n : after[m] = states[1..m]
  OBVIOUS
<1> HIDE DEF after
<1>9. after[0] = v /\ FoldLeft(Translate, v, frames) = after[n]
  BY <1>1, <1>2, <1>6, <1>8
<1>10. ASSUME NEW m \in 1..n PROVE after[m] = Translate(after[m - 1], frames[m])
  <2>1. m \in 0..n /\ m - 1 \in 0..n
    BY <1>1
  <2> QED BY <1>7, <1>8, <2>1
<1>11. Translated(v, frames, after)
  BY <1>9, <1>10 DEF Translated
<1> QED BY <1>11

LEMMA PickedSteps ==
  ASSUME NEW s, IsSeq(s), NEW I
  PROVE  \E kept : /\ kept[0] = <<>>
                   /\ \A m \in 1..Len(s) : kept[m] = IF m \in I THEN Append(kept[m - 1], s[m])
                                                     ELSE kept[m - 1]
                   /\ Picked(s, I) = kept[Len(s)]
<1> DEFINE n == Len(s)
           places == [i \in DOMAIN s |-> i]
           fold == [kind |-> "pick", over |-> places, places |-> I, from |-> s]
           Unfolds(f) == f = [D \in SUBSET (DOMAIN places) |->
                                IF D = {} THEN <<>>
                                ELSE IF places[Max(D)] \in I
                                     THEN Append(f[D \ {Max(D)}], s[places[Max(D)]])
                                     ELSE f[D \ {Max(D)}]]
           states == CHOOSE f : Unfolds(f)
           kept == [m \in 0..n |-> states[1..m]]
<1>1. n \in Nat /\ DOMAIN s = 1..n /\ DOMAIN places = 1..n /\ \A m \in 1..n : places[m] = m
  BY SeqShape
<1>2. Picked(s, I) = states[DOMAIN places]
  BY DEF Picked, FoldLeftDomain, FoldLeft, MapThenFoldSet
<1>3. \A f : Folding(fold, <<>>, n, f) <=> Unfolds(f)
  <2>1. \A x, i : Step(fold, x, i) = IF places[i] \in I THEN Append(x, s[places[i]]) ELSE x
    BY DEF Step
  <2> HIDE DEF fold, places, n
  <2> SUFFICES ASSUME NEW f PROVE Folding(fold, <<>>, n, f) <=> Unfolds(f)
    OBVIOUS
  <2>2. \A D \in SUBSET (1..n) :
          (IF D = {} THEN <<>> ELSE Step(fold, f[D \ {Max(D)}], Max(D)))
            = (IF D = {} THEN <<>>
               ELSE IF places[Max(D)] \in I
                    THEN Append(f[D \ {Max(D)}], s[places[Max(D)]])
                    ELSE f[D \ {Max(D)}])
    BY <2>1
  <2> QED BY <1>1, <2>2 DEF Folding
<1>4. \E f : Unfolds(f)
  <2>1. \E f : Folding(fold, <<>>, n, f)
    <3> HIDE DEF fold, n
    <3> QED BY <1>1, FoldingExists
  <2> HIDE DEF fold, n, Unfolds
  <2> QED BY <1>3, <2>1
<1>5. Unfolds(states)
  BY <1>4
<1> HIDE DEF states, Unfolds
<1>6. /\ states[1..0] = <<>>
      /\ \A m \in 1..n : states[1..m] = Step(fold, states[1..(m - 1)], m)
  <2>1. Folding(fold, <<>>, n, states)
    BY <1>3, <1>5
  <2> HIDE DEF fold, n
  <2> QED BY <1>1, <2>1, FoldingSteps
<1>7. \A m \in 1..n : states[1..m] = IF m \in I THEN Append(states[1..(m - 1)], s[m])
                                     ELSE states[1..(m - 1)]
  BY <1>1, <1>6 DEF Step
<1> HIDE DEF fold, places
<1>8. \A m \in 0..n : kept[m] = states[1..m]
  OBVIOUS
<1> HIDE DEF kept
<1>9. kept[0] = <<>> /\ Picked(s, I) = kept[n]
  BY <1>1, <1>2, <1>6, <1>8
<1>10. ASSUME NEW m \in 1..n
       PROVE  kept[m] = IF m \in I THEN Append(kept[m - 1], s[m]) ELSE kept[m - 1]
  <2>1. m \in 0..n /\ m - 1 \in 0..n
    BY <1>1
  <2> QED BY <1>7, <1>8, <2>1
<1> QED BY <1>9, <1>10

\* What is picked comes from s, in the order of s.
LEMMA PickedFrom ==
  ASSUME NEW s, IsSeq(s), NEW I
  PROVE  /\ IsSeq(Picked(s, I))
         /\ \A a \in DOMAIN Picked(s, I) : \E i \in DOMAIN s : i \in I /\ Picked(s, I)[a] = s[i]
         /\ \A a, b \in DOMAIN Picked(s, I) : a < b =>
              \E i, j \in DOMAIN s : i < j /\ Picked(s, I)[a] = s[i] /\ Picked(s, I)[b] = s[j]
<1> DEFINE n == Len(s)
           From(p, m) ==
             /\ IsSeq(p)
             /\ \A a \in DOMAIN p : \E i \in 1..m : i \in I /\ p[a] = s[i]
             /\ \A a, b \in DOMAIN p : a < b => \E i, j \in 1..m : i < j /\ p[a] = s[i] /\ p[b] = s[j]
<1>1. n \in Nat /\ DOMAIN s = 1..n
  BY SeqShape
<1>2. PICK kept : /\ kept[0] = <<>>
                  /\ \A m \in 1..n : kept[m] = IF m \in I THEN Append(kept[m - 1], s[m])
                                               ELSE kept[m - 1]
                  /\ Picked(s, I) = kept[n]
  BY PickedSteps
<1> HIDE DEF n
<1> DEFINE S == {m \in Nat : m <= n => From(kept[m], m)}
<1>3. 0 \in S
  <2>1. IsSeq(kept[0])
    BY <1>2, NoSeq
  <2>2. DOMAIN kept[0] = {}
    BY <1>2
  <2> QED BY <2>1, <2>2
<1>4. ASSUME NEW m \in S PROVE m + 1 \in S
  <2> SUFFICES ASSUME m + 1 <= n PROVE From(kept[m + 1], m + 1)
    OBVIOUS
  <2> DEFINE p == kept[m]
             q == kept[m + 1]
  <2>1. From(p, m) /\ m + 1 \in 1..n /\ m \in Nat
    BY <1>1
  <2>2. q = IF m + 1 \in I THEN Append(p, s[m + 1]) ELSE p
    <3>1. (m + 1) - 1 = m
      BY <2>1
    <3> QED BY <1>2, <2>1, <3>1
  <2> HIDE DEF p, q
  <2>3. CASE m + 1 \notin I
    <3>1. q = p /\ \A i \in 1..m : i \in 1..(m + 1)
      BY <2>1, <2>2, <2>3
    <3> QED BY <2>1, <3>1 DEF q
  <2>4. CASE m + 1 \in I
    <3>1. q = Append(p, s[m + 1])
      BY <2>2, <2>4
    <3>2. /\ IsSeq(q) /\ DOMAIN q = 1..(Len(p) + 1) /\ q[Len(p) + 1] = s[m + 1]
          /\ \A i \in DOMAIN p : q[i] = p[i]
          /\ Len(p) \in Nat /\ DOMAIN p = 1..Len(p)
      BY <2>1, <3>1, AppendSeq, SeqShape
    <3>3. ASSUME NEW a \in DOMAIN q PROVE \E i \in 1..(m + 1) : i \in I /\ q[a] = s[i]
      <4>1. CASE a = Len(p) + 1
        BY <2>1, <2>4, <3>2, <4>1
      <4>2. CASE a \in DOMAIN p
        <5>1. PICK i \in 1..m : i \in I /\ p[a] = s[i]
          BY <2>1, <4>2
        <5>2. i \in 1..(m + 1) /\ q[a] = s[i]
          BY <2>1, <3>2, <4>2, <5>1
        <5> QED BY <5>1, <5>2
      <4> QED BY <3>2, <4>1, <4>2
    <3>4. ASSUME NEW a \in DOMAIN q, NEW b \in DOMAIN q, a < b
          PROVE  \E i, j \in 1..(m + 1) : i < j /\ q[a] = s[i] /\ q[b] = s[j]
      <4>1. a \in DOMAIN p /\ q[a] = p[a]
        BY <3>2, <3>4
      <4>2. CASE b = Len(p) + 1
        <5>1. PICK i \in 1..m : p[a] = s[i]
          BY <2>1, <4>1
        <5>2. i \in 1..(m + 1) /\ m + 1 \in 1..(m + 1) /\ i < m + 1
          BY <2>1
        <5>3. q[a] = s[i] /\ q[b] = s[m + 1]
          BY <3>2, <4>1, <4>2, <5>1
        <5> QED BY <5>2, <5>3
      <4>3. CASE b \in DOMAIN p
        <5>1. PICK i \in 1..m, j \in 1..m : i < j /\ p[a] = s[i] /\ p[b] = s[j]
          BY <2>1, <3>4, <4>1, <4>3
        <5>2. i \in 1..(m + 1) /\ j \in 1..(m + 1) /\ q[b] = p[b]
          BY <2>1, <3>2, <4>3
        <5> QED BY <4>1, <5>1, <5>2
      <4> QED BY <3>2, <4>2, <4>3
    <3> QED BY <3>2, <3>3, <3>4 DEF q
  <2> QED BY <2>3, <2>4 DEF q
<1>5. n \in S
  <2>1. S \in SUBSET Nat
    OBVIOUS
  <2> HIDE DEF S
  <2> QED BY <1>1, <1>3, <1>4, <2>1, Induction
<1>6. From(Picked(s, I), n)
  BY <1>1, <1>2, <1>5
<1> QED BY <1>1, <1>6

\* The records among frames: their numbers, in their order.
LEMMA DurableInFrom ==
  ASSUME NEW frames, IsSeq(frames)
  PROVE  /\ IsSeq(DurableIn(frames))
         /\ \A a \in DOMAIN DurableIn(frames) :
              \E i \in DOMAIN frames : DurableIn(frames)[a] = frames[i].seq
         /\ \A a, b \in DOMAIN DurableIn(frames) : a < b =>
              \E i, j \in DOMAIN frames : /\ i < j
                                          /\ DurableIn(frames)[a] = frames[i].seq
                                          /\ DurableIn(frames)[b] = frames[j].seq
<1> DEFINE I == {i \in DOMAIN frames : frames[i].type \in Durable}
           d == Picked(frames, I)
           seqs == [i \in DOMAIN d |-> d[i].seq]
<1>1. DurableIn(frames) = seqs
  BY DEF DurableIn, DurableOf
<1> HIDE DEF I
<1>2. /\ IsSeq(d)
      /\ \A a \in DOMAIN d : \E i \in DOMAIN frames : d[a] = frames[i]
      /\ \A a, b \in DOMAIN d : a < b =>
           \E i, j \in DOMAIN frames : i < j /\ d[a] = frames[i] /\ d[b] = frames[j]
  BY PickedFrom
<1> HIDE DEF d
<1>3. DOMAIN seqs = DOMAIN d /\ \A a \in DOMAIN d : seqs[a] = d[a].seq
  OBVIOUS
<1>4. IsSeq(seqs)
  <2>1. Len(d) \in Nat /\ DOMAIN d = 1..Len(d)
    BY <1>2, SeqShape
  <2>2. seqs \in [1..Len(d) -> {d[i].seq : i \in 1..Len(d)}]
    BY <2>1
  <2>3. seqs \in Seq({d[i].seq : i \in 1..Len(d)})
    BY <2>1, <2>2
  <2> QED BY <2>3, SeqIs
<1> HIDE DEF seqs
<1>5. \A a \in DOMAIN seqs : \E i \in DOMAIN frames : seqs[a] = frames[i].seq
  BY <1>2, <1>3
<1>6. ASSUME NEW a \in DOMAIN seqs, NEW b \in DOMAIN seqs, a < b
      PROVE  \E i, j \in DOMAIN frames : i < j /\ seqs[a] = frames[i].seq /\ seqs[b] = frames[j].seq
  BY <1>2, <1>3, <1>6
<1> QED BY <1>1, <1>4, <1>5, <1>6

----------------------------------------------------------------------------
(* Views: what a frame does to one.                                        *)
IsTranslator(t) == "completed" \in DOMAIN t /\ t.completed \in BOOLEAN

\* A turn that failed waits for no answer.
IsChat(c) ==
  /\ {"prompt", "status"} \subseteq DOMAIN c
  /\ c.status \in {"idle", "submitting", "streaming", "error"}
  /\ c.status = "error" => c.prompt = 0

IsView(v) ==
  {"trans", "chat"} \subseteq DOMAIN v /\ IsTranslator(v.trans) /\ IsChat(v.chat)

LEMMA ResolvedView ==
  ASSUME NEW v, IsView(v)
  PROVE  /\ IsView(ResolvePendingPrompt(v))
         /\ ResolvePendingPrompt(v).trans.completed = v.trans.completed
  BY DEF ResolvePendingPrompt, IsView, IsTranslator, IsChat

LEMMA StreamingView ==
  ASSUME NEW v, IsView(v), NEW parts
  PROVE  /\ IsView(Streaming(v, parts)) /\ Streaming(v, parts).trans = v.trans
         /\ Streaming(v, parts).chat.prompt = v.chat.prompt
  BY DEF Streaming, IsView, IsTranslator, IsChat

LEMMA StartView ==
  ASSUME NEW v, IsView(v), NEW message
  PROVE  IsView(Start(v, message)) /\ ~Start(v, message).trans.completed
  BY DEF Start, NewTranslator, IsView, IsTranslator, IsChat

LEMMA PromptView ==
  ASSUME NEW v, IsView(v), NEW p
  PROVE  /\ IsView(ShowPrompt(v, p)) /\ ShowPrompt(v, p).trans.completed = v.trans.completed
         /\ ShowPrompt(v, p).chat.prompt = p
<1> DEFINE r == ResolvePendingPrompt(v)
<1>1. IsView(r) /\ r.trans.completed = v.trans.completed
  BY ResolvedView
<1> DEFINE asks == [r EXCEPT !.trans.pending = p]
<1>2. ShowPrompt(v, p) = [asks EXCEPT !.chat.prompt = p, !.chat.status = "streaming"]
  BY DEF ShowPrompt
<1> HIDE DEF r
<1>3. IsView(asks) /\ asks.trans.completed = v.trans.completed
  BY <1>1 DEF IsView, IsTranslator, IsChat
<1> HIDE DEF asks
<1> QED BY <1>2, <1>3 DEF IsView, IsTranslator, IsChat

LEMMA DeltaView ==
  ASSUME NEW v, IsView(v), NEW t
  PROVE  IsView(Delta(v, t)) /\ Delta(v, t).trans.completed = v.trans.completed
<1> DEFINE r == ResolvePendingPrompt(v)
           w == [r EXCEPT !.trans.content = @ \o t]
<1>1. IsView(r) /\ r.trans.completed = v.trans.completed
  BY ResolvedView
<1>2. Delta(v, t) = Streaming(w, Appended(r.chat.parts, t))
  BY DEF Delta
<1> HIDE DEF r
<1>3. IsView(w) /\ w.trans.completed = v.trans.completed
  BY <1>1 DEF IsView, IsTranslator, IsChat
<1> HIDE DEF w
<1> QED BY <1>2, <1>3, StreamingView

LEMMA InterimView ==
  ASSUME NEW v, IsView(v), NEW t
  PROVE  IsView(Interim(v, t)) /\ Interim(v, t).trans.completed = v.trans.completed
<1> DEFINE r == ResolvePendingPrompt(v)
           w == [r EXCEPT !.trans.content = <<>>, !.trans.lastInterim = t]
<1>1. IsView(r) /\ r.trans.completed = v.trans.completed
  BY ResolvedView
<1>2. Interim(v, t) = Streaming(w, SealedText(r.chat.parts, t))
  BY DEF Interim
<1> HIDE DEF r
<1>3. IsView(w) /\ w.trans.completed = v.trans.completed
  BY <1>1 DEF IsView, IsTranslator, IsChat
<1> HIDE DEF w
<1> QED BY <1>2, <1>3, StreamingView

LEMMA ToolView ==
  ASSUME NEW v, IsView(v), NEW s
  PROVE  IsView(Tool(v, s)) /\ Tool(v, s).trans.completed = v.trans.completed
<1> DEFINE r == IF s = "started" THEN v ELSE ResolvePendingPrompt(v)
<1>1. IsView(r) /\ r.trans.completed = v.trans.completed
  BY ResolvedView
<1>2. Tool(v, s) = Streaming(r, TaskUpdated(r.chat.parts, r.trans.message, s))
  BY DEF Tool
<1> HIDE DEF r
<1> QED BY <1>1, <1>2, StreamingView

LEMMA TodoView ==
  ASSUME NEW v, IsView(v), NEW revision
  PROVE  /\ IsView(TodoSnapshot(v, revision))
         /\ TodoSnapshot(v, revision).trans.completed = v.trans.completed
  BY DEF TodoSnapshot, IsView, IsTranslator, IsChat

LEMMA CompletedView ==
  ASSUME NEW v, IsView(v) PROVE IsView(TurnCompleted(v)) /\ TurnCompleted(v).trans.completed
  BY DEF TurnCompleted, IsView, IsTranslator, IsChat

LEMMA FinishedView ==
  ASSUME NEW v, IsView(v), NEW t, NEW previewed
  PROVE  IsView(Finish(v, t, previewed)) /\ Finish(v, t, previewed).trans.completed
<1> DEFINE r == ResolvePendingPrompt(v)
<1>1. IsView(r)
  BY ResolvedView
<1>2. \/ v.trans.completed /\ Finish(v, t, previewed) = v
      \/ \E parts : Finish(v, t, previewed) = TurnCompleted(Streaming(r, parts))
  BY DEF Finish
<1> HIDE DEF r
<1>3. \A parts : IsView(TurnCompleted(Streaming(r, parts)))
                 /\ TurnCompleted(Streaming(r, parts)).trans.completed
  BY <1>1, StreamingView, CompletedView
<1> QED BY <1>2, <1>3

LEMMA FailedView ==
  ASSUME NEW v, IsView(v), NEW t
  PROVE  IsView(FinishWithTurnError(v, t)) /\ FinishWithTurnError(v, t).trans.completed
<1> DEFINE r == ResolvePendingPrompt(v)
           parts == IF t = <<>> THEN r.chat.parts ELSE Replaced(r.chat.parts, t)
<1>1. IsView(r)
  BY ResolvedView
<1> DEFINE done == [r EXCEPT !.trans.completed = TRUE]
           failed == [parts |-> parts, prompt |-> 0, plan |-> 0, status |-> "error"]
<1>2. FinishWithTurnError(v, t) = [done EXCEPT !.chat = failed]
  BY DEF FinishWithTurnError
<1>3. IsChat(failed)
  BY DEF IsChat
<1> HIDE DEF r, failed
<1>4. {"trans", "chat"} \subseteq DOMAIN done /\ IsTranslator(done.trans) /\ done.trans.completed
  BY <1>1 DEF IsView, IsTranslator
<1> HIDE DEF done
<1> QED BY <1>2, <1>3, <1>4 DEF IsView

LEMMA TranslateKeeps ==
  ASSUME NEW v, IsView(v), NEW f, f.type \in FrameTypes
  PROVE  /\ IsView(Translate(v, f))
         /\ f.type = "prompt" /\ ~Translate(v, f).trans.completed
              => Translate(v, f).chat.prompt = f.seq
<1>1. CASE v.trans.completed
  BY <1>1 DEF Translate
<1>2. CASE ~v.trans.completed
  <2>1. CASE f.type = "delta"
    BY <1>2, <2>1, DeltaView DEF Translate
  <2>2. CASE f.type = "interim"
    BY <1>2, <2>2, InterimView DEF Translate
  <2>3. CASE f.type \in ToolFrames
    BY <1>2, <2>3, ToolView DEF Translate, ToolFrames
  <2>4. CASE f.type = "todo"
    BY <1>2, <2>4, TodoView DEF Translate
  <2>5. CASE f.type = "prompt"
    BY <1>2, <2>5, PromptView DEF Translate
  <2>6. CASE f.type = "expire"
    BY <1>2, <2>6, ResolvedView DEF Translate, Expire
  <2>7. CASE f.type = "complete"
    BY <1>2, <2>7, FinishedView DEF Translate
  <2>8. CASE f.type = "error"
    BY <1>2, <2>8, FailedView DEF Translate
  <2> QED BY <2>1, <2>2, <2>3, <2>4, <2>5, <2>6, <2>7, <2>8 DEF FrameTypes, Durable, Terminal
<1> QED BY <1>1, <1>2

LEMMA PendingReplayed ==
  ASSUME NEW v, IsView(v), NEW p
  PROVE  /\ IsView(ReplayPendingPrompts(v, p))
         /\ ReplayPendingPrompts(v, p).trans.completed = v.trans.completed
         /\ p # 0 /\ ~v.trans.completed => ReplayPendingPrompts(v, p).chat.prompt = p
  BY PromptView DEF ReplayPendingPrompts

\* Any number of frames; a prompt that comes last is shown unless the turn is over.
LEMMA FramesTranslated ==
  ASSUME NEW v, IsView(v), NEW frames, IsSeq(frames),
         \A i \in DOMAIN frames : frames[i].type \in FrameTypes
  PROVE  LET after == FoldLeft(Translate, v, frames)
         IN  /\ IsView(after)
             /\ frames = <<>> => after = v
             /\ frames # <<>> /\ frames[Len(frames)].type = "prompt" /\ ~after.trans.completed
                  => after.chat.prompt = frames[Len(frames)].seq
<1>0. PICK after : Translated(v, frames, after)
  BY TranslatedSteps
<1> DEFINE n == Len(frames)
<1>1. /\ after[0] = v
      /\ \A m \in 1..n : after[m] = Translate(after[m - 1], frames[m])
      /\ FoldLeft(Translate, v, frames) = after[n]
  BY <1>0 DEF Translated
<1>2. n \in Nat /\ DOMAIN frames = 1..n /\ (frames # <<>> <=> n # 0)
  BY SeqShape, NotEmpty
<1> HIDE DEF n
<1> DEFINE S == {m \in Nat : m <= n => IsView(after[m])}
<1>3. 0 \in S
  BY <1>1
<1>4. ASSUME NEW m \in S PROVE m + 1 \in S
  <2> SUFFICES ASSUME m + 1 <= n PROVE IsView(after[m + 1])
    OBVIOUS
  <2>1. m + 1 \in 1..n /\ (m + 1) - 1 = m /\ IsView(after[m])
    BY <1>2
  <2>2. after[m + 1] = Translate(after[m], frames[m + 1]) /\ frames[m + 1].type \in FrameTypes
    BY <1>1, <1>2, <2>1
  <2> QED BY <2>1, <2>2, TranslateKeeps
<1>5. \A m \in 0..n : IsView(after[m])
  <2>1. S \in SUBSET Nat
    OBVIOUS
  <2>2. S = Nat
    <3> HIDE DEF S
    <3> QED BY <1>3, <1>4, <2>1, Induction
  <2> QED BY <1>2, <2>2
<1>6. ASSUME n # 0, frames[n].type = "prompt", ~after[n].trans.completed
      PROVE  after[n].chat.prompt = frames[n].seq
  <2>1. n \in 1..n /\ n - 1 \in 0..n /\ after[n] = Translate(after[n - 1], frames[n])
    BY <1>1, <1>2, <1>6
  <2>2. IsView(after[n - 1]) /\ frames[n].type \in FrameTypes
    BY <1>2, <1>5, <2>1
  <2> QED BY <1>6, <2>1, <2>2, TranslateKeeps
<1>7. IsView(after[n]) /\ (n = 0 => after[n] = v)
  BY <1>1, <1>2, <1>5
<1> QED BY <1>1, <1>2, <1>6, <1>7 DEF n

----------------------------------------------------------------------------
(* What is on the wire.                                                    *)

Kinds == {"ready", "frame", "resumed", "missed", "refused"}

Live(w, i) == w[i].kind = "frame"

\* A frame of the log of the running process.
Numbered(f, ring) == f.kind = "frame" /\ f.seq \in 1..Len(ring) /\ f = ring[f.seq]

\* A number that comes after everything projected so far.
Newer(n, done) == \A k \in DOMAIN done : done[k] < n

IsLog(ring) ==
  /\ IsSeq(ring)
  /\ \A i \in DOMAIN ring : ring[i].kind = "frame" /\ ring[i].seq = i /\ ring[i].type \in FrameTypes

IsWire(w) == IsSeq(w) /\ \A i \in DOMAIN w : w[i].kind \in Kinds

\* The order of the messages on the wire of a stream at a place, with an RPC
\* out, to the gateway's epoch-th process.
InOrder(w, at, method, epoch) ==
  /\ \A i \in DOMAIN w :
       /\ w[i].kind = "ready" => at = "resume" /\ i = 1 /\ w[i].epoch = epoch
       /\ w[i].kind = "resumed" => at = "resume"
       /\ w[i].kind = "missed" => at = "replay" /\ method = "none"
       /\ w[i].kind = "frame" /\ at = "resume" =>
            \E k \in DOMAIN w : k < i /\ w[k].kind = "resumed"
  /\ \A i, j \in DOMAIN w :
       w[i].kind \in {"resumed", "missed"} /\ w[j].kind = w[i].kind => i = j

\* The live frames on it: newer than the watermark and than what was projected,
\* in order, and the last of them is the last of the log.
LiveIn(w, ring, mark, done) ==
  /\ \A i \in DOMAIN w : Live(w, i) =>
       Numbered(w[i], ring) /\ mark < w[i].seq /\ Newer(w[i].seq, done)
  /\ \A i, j \in DOMAIN w : Live(w, i) /\ Live(w, j) /\ i < j => w[i].seq < w[j].seq
  /\ \A i \in DOMAIN w : Live(w, i) =>
       w[i].seq = Len(ring) \/ \E j \in DOMAIN w : i < j /\ Live(w, j)

\* The records on it that answer session.events.since, behind nothing that
\* overtook them unless the watermark shows it.
MissedIn(w, ring, mark, buffer) ==
  \A k \in DOMAIN w : w[k].kind = "missed" =>
    /\ IsSeq(w[k].frames)
    /\ \A a \in DOMAIN w[k].frames :
         /\ Numbered(w[k].frames[a], ring)
         /\ \A j \in DOMAIN w : k < j /\ Live(w, j) => w[k].frames[a].seq < w[j].seq
         /\ \/ w[k].frames[a].seq <= mark
            \/ \E i \in DOMAIN w : i < k /\ Live(w, i) /\ w[k].frames[a].seq <= w[i].seq
            \/ buffer = <<>> /\ \A i \in DOMAIN w : i < k => ~Live(w, i)
    /\ \A a, b \in DOMAIN w[k].frames :
         a < b => w[k].frames[a].seq < w[k].frames[b].seq

\* What waits in the queue until the replay is over.
BufferIn(buffer, w, ring, mark, done) ==
  /\ IsSeq(buffer)
  /\ \A b \in DOMAIN buffer :
       Numbered(buffer[b], ring) /\ Newer(buffer[b].seq, done) /\ buffer[b].seq <= mark
  /\ \A b, c \in DOMAIN buffer : b < c => buffer[b].seq < buffer[c].seq
  /\ buffer # <<>> =>
       /\ buffer[Len(buffer)].seq = mark
       /\ mark = Len(ring) \/ \E i \in DOMAIN w : Live(w, i)

LEMMA LogGrows ==
  ASSUME NEW ring, IsLog(ring), NEW f, f.kind = "frame", f.seq = Len(ring) + 1,
         f.type \in FrameTypes
  PROVE  /\ IsLog(Append(ring, f)) /\ Len(Append(ring, f)) = Len(ring) + 1
         /\ Numbered(f, Append(ring, f))
         /\ \A g : Numbered(g, ring) => Numbered(g, Append(ring, f))
<1> DEFINE r == Append(ring, f)
<1>1. /\ IsSeq(r) /\ DOMAIN r = 1..(Len(ring) + 1) /\ r[Len(ring) + 1] = f
      /\ \A i \in DOMAIN ring : r[i] = ring[i]
      /\ Len(r) = Len(ring) + 1 /\ Len(ring) \in Nat /\ DOMAIN ring = 1..Len(ring)
  BY AppendSeq, SeqShape DEF IsLog
<1> HIDE DEF r
<1>2. IsLog(r)
  BY <1>1 DEF IsLog
<1>3. Numbered(f, r)
  BY <1>1 DEF Numbered
<1>4. ASSUME NEW g, Numbered(g, ring) PROVE Numbered(g, r)
  BY <1>1, <1>4 DEF Numbered
<1> QED BY <1>1, <1>2, <1>3, <1>4 DEF r

LEMMA WireGrows ==
  ASSUME NEW w, IsWire(w), NEW m, m.kind \in Kinds
  PROVE  /\ IsWire(Append(w, m))
         /\ DOMAIN Append(w, m) = 1..(Len(w) + 1) /\ Append(w, m)[Len(w) + 1] = m
         /\ \A i \in DOMAIN w : Append(w, m)[i] = w[i]
         /\ Len(w) \in Nat /\ DOMAIN w = 1..Len(w)
<1> DEFINE x == Append(w, m)
<1>1. /\ IsSeq(x) /\ DOMAIN x = 1..(Len(w) + 1) /\ x[Len(w) + 1] = m
      /\ \A i \in DOMAIN w : x[i] = w[i]
      /\ Len(w) \in Nat /\ DOMAIN w = 1..Len(w)
  BY AppendSeq, SeqShape DEF IsWire
<1> HIDE DEF x
<1>2. IsWire(x)
  BY <1>1 DEF IsWire
<1> QED BY <1>1, <1>2 DEF x

\* A message is sent that is not a frame.
LEMMA SaysOther ==
  ASSUME NEW w, IsWire(w), NEW m, m.kind \in Kinds, m.kind # "frame",
         NEW ring, NEW mark, NEW done, LiveIn(w, ring, mark, done)
  PROVE  LiveIn(Append(w, m), ring, mark, done)
<1> DEFINE x == Append(w, m)
<1>1. /\ DOMAIN x = 1..(Len(w) + 1) /\ x[Len(w) + 1] = m
      /\ \A i \in DOMAIN w : x[i] = w[i]
      /\ Len(w) \in Nat /\ DOMAIN w = 1..Len(w)
  BY WireGrows
<1> HIDE DEF x
<1>2. \A i \in DOMAIN x : Live(x, i) => i \in DOMAIN w /\ Live(w, i) /\ x[i] = w[i]
  BY <1>1 DEF Live
<1>3. \A i \in DOMAIN w : i \in DOMAIN x /\ (Live(w, i) => Live(x, i))
  BY <1>1 DEF Live
<1>4. LiveIn(x, ring, mark, done)
  BY <1>2, <1>3 DEF LiveIn
<1> QED BY <1>4 DEF x

\* A frame is emitted and sent.
LEMMA SaysFrame ==
  ASSUME NEW w, IsWire(w), NEW ring, IsLog(ring), NEW f, f.kind = "frame",
         f.seq = Len(ring) + 1, f.type \in FrameTypes,
         NEW mark, mark <= Len(ring), mark \in Nat,
         NEW done, \A k \in DOMAIN done : done[k] \in Nat /\ done[k] <= Len(ring),
         LiveIn(w, ring, mark, done)
  PROVE  LiveIn(Append(w, f), Append(ring, f), mark, done)
<1> DEFINE x == Append(w, f)
           r == Append(ring, f)
<1>1. /\ DOMAIN x = 1..(Len(w) + 1) /\ x[Len(w) + 1] = f
      /\ \A i \in DOMAIN w : x[i] = w[i]
      /\ Len(w) \in Nat /\ DOMAIN w = 1..Len(w)
  BY WireGrows DEF Kinds
<1>2. /\ Len(r) = Len(ring) + 1 /\ Numbered(f, r) /\ Len(ring) \in Nat
      /\ \A g : Numbered(g, ring) => Numbered(g, r)
  BY LogGrows, SeqShape DEF IsLog
<1> HIDE DEF x, r
<1>3. \A i \in DOMAIN x : Live(x, i) =>
        \/ i \in DOMAIN w /\ Live(w, i) /\ x[i] = w[i]
        \/ i = Len(w) + 1 /\ x[i] = f
  BY <1>1 DEF Live
<1>4. Live(x, Len(w) + 1) /\ Len(w) + 1 \in DOMAIN x /\ \A i \in DOMAIN w : i < Len(w) + 1
  BY <1>1 DEF Live
<1>5. ASSUME NEW i \in DOMAIN x, Live(x, i)
      PROVE  /\ Numbered(x[i], r) /\ mark < x[i].seq /\ Newer(x[i].seq, done)
             /\ x[i].seq = Len(r) \/ \E j \in DOMAIN x : i < j /\ Live(x, j)
  <2>1. CASE i \in DOMAIN w /\ Live(w, i) /\ x[i] = w[i]
    <3>1. Numbered(w[i], ring) /\ mark < w[i].seq /\ Newer(w[i].seq, done)
      BY <2>1 DEF LiveIn
    <3> QED BY <1>2, <1>4, <2>1, <3>1
  <2>2. CASE i = Len(w) + 1 /\ x[i] = f
    BY <1>2, <2>2 DEF Newer
  <2> QED BY <1>3, <1>5, <2>1, <2>2
<1>6. ASSUME NEW i \in DOMAIN x, NEW j \in DOMAIN x, Live(x, i), Live(x, j), i < j
      PROVE  x[i].seq < x[j].seq
  <2>1. i \in DOMAIN w /\ Live(w, i) /\ x[i] = w[i]
    BY <1>1, <1>3, <1>6
  <2>2. CASE j \in DOMAIN w /\ Live(w, j) /\ x[j] = w[j]
    BY <1>6, <2>1, <2>2 DEF LiveIn
  <2>3. CASE j = Len(w) + 1 /\ x[j] = f
    <3>1. Numbered(w[i], ring)
      BY <2>1 DEF LiveIn
    <3> QED BY <1>2, <2>1, <2>3, <3>1 DEF Numbered
  <2> QED BY <1>3, <1>6, <2>2, <2>3
<1>7. LiveIn(x, r, mark, done)
  BY <1>5, <1>6 DEF LiveIn
<1> QED BY <1>7 DEF x, r

\* The head of the wire is taken.
LEMMA LiveShifts ==
  ASSUME NEW w, IsWire(w), w # <<>>,
         NEW ring, NEW mark, NEW done, LiveIn(w, ring, mark, done), NEW mark2, NEW done2,
         \A i \in DOMAIN w : i > 1 /\ Live(w, i) => mark2 < w[i].seq /\ Newer(w[i].seq, done2)
  PROVE  LiveIn(Tail(w), ring, mark2, done2)
<1> DEFINE x == Tail(w)
<1>1. /\ Len(w) \in Nat /\ DOMAIN w = 1..Len(w) /\ DOMAIN x = 1..(Len(w) - 1)
      /\ \A i \in DOMAIN x : x[i] = w[i + 1] /\ i + 1 \in DOMAIN w
      /\ \A i \in DOMAIN w : i = 1 \/ (i - 1 \in DOMAIN x /\ x[i - 1] = w[i])
  BY TailSeq, SeqShape DEF IsWire
<1> HIDE DEF x
<1>2. \A i \in DOMAIN x : /\ Live(x, i) <=> Live(w, i + 1)
                          /\ x[i] = w[i + 1] /\ i + 1 \in DOMAIN w /\ i + 1 > 1 /\ i \in Nat
  BY <1>1 DEF Live
<1>3. ASSUME NEW i \in DOMAIN x, Live(x, i)
      PROVE  /\ Numbered(x[i], ring) /\ mark2 < x[i].seq /\ Newer(x[i].seq, done2)
             /\ x[i].seq = Len(ring) \/ \E j \in DOMAIN x : i < j /\ Live(x, j)
  <2>1. i + 1 \in DOMAIN w /\ Live(w, i + 1) /\ x[i] = w[i + 1] /\ i + 1 > 1
    BY <1>2, <1>3
  <2>2. Numbered(w[i + 1], ring) /\ mark2 < w[i + 1].seq /\ Newer(w[i + 1].seq, done2)
    BY <2>1 DEF LiveIn
  <2>3. ASSUME NEW j \in DOMAIN w, i + 1 < j, Live(w, j)
        PROVE  \E l \in DOMAIN x : i < l /\ Live(x, l)
    <3>1. j - 1 \in DOMAIN x /\ x[j - 1] = w[j] /\ i < j - 1
      BY <1>1, <1>2, <2>3
    <3>2. Live(x, j - 1)
      BY <2>3, <3>1 DEF Live
    <3> QED BY <3>1, <3>2
  <2>4. w[i + 1].seq = Len(ring) \/ \E j \in DOMAIN w : i + 1 < j /\ Live(w, j)
    BY <2>1 DEF LiveIn
  <2> QED BY <2>1, <2>2, <2>3, <2>4
<1>4. ASSUME NEW i \in DOMAIN x, NEW j \in DOMAIN x, Live(x, i), Live(x, j), i < j
      PROVE  x[i].seq < x[j].seq
  <2>1. /\ i + 1 \in DOMAIN w /\ Live(w, i + 1) /\ x[i] = w[i + 1]
        /\ j + 1 \in DOMAIN w /\ Live(w, j + 1) /\ x[j] = w[j + 1] /\ i + 1 < j + 1
    BY <1>2, <1>4
  <2> QED BY <2>1 DEF LiveIn
<1>5. LiveIn(x, ring, mark2, done2)
  BY <1>3, <1>4 DEF LiveIn
<1> QED BY <1>5 DEF x

LEMMA OrderGrows ==
  ASSUME NEW w, IsWire(w), NEW at, NEW method, NEW epoch, InOrder(w, at, method, epoch),
         NEW m, m.kind \in Kinds \ {"ready"}, NEW method2,
         m.kind = "resumed" => at = "resume" /\ \A i \in DOMAIN w : w[i].kind # "resumed",
         m.kind = "missed" => at = "replay" /\ method2 = "none"
                              /\ \A i \in DOMAIN w : w[i].kind # "missed",
         m.kind = "frame" /\ at = "resume" => \E k \in DOMAIN w : w[k].kind = "resumed",
         method2 = "none" \/ \A i \in DOMAIN w : w[i].kind # "missed"
  PROVE  InOrder(Append(w, m), at, method2, epoch)
<1> DEFINE x == Append(w, m)
           n == Len(w) + 1
<1>1. /\ DOMAIN x = 1..n /\ x[n] = m /\ n \in DOMAIN x
      /\ \A i \in DOMAIN w : x[i] = w[i] /\ i \in DOMAIN x /\ i < n
      /\ \A i \in DOMAIN x : i \in DOMAIN w \/ i = n
  BY WireGrows
<1> HIDE DEF x, n
<1>2. ASSUME NEW i \in DOMAIN x
      PROVE  /\ x[i].kind = "ready" => at = "resume" /\ i = 1 /\ x[i].epoch = epoch
             /\ x[i].kind = "resumed" => at = "resume"
             /\ x[i].kind = "missed" => at = "replay" /\ method2 = "none"
  <2>1. CASE i \in DOMAIN w
    BY <1>1, <2>1 DEF InOrder
  <2>2. CASE i = n
    BY <1>1, <2>2
  <2> QED BY <1>1, <2>1, <2>2
<1>3. ASSUME NEW i \in DOMAIN x, x[i].kind = "frame", at = "resume"
      PROVE  \E k \in DOMAIN x : k < i /\ x[k].kind = "resumed"
  <2>1. CASE i \in DOMAIN w
    <3>1. PICK k \in DOMAIN w : k < i /\ w[k].kind = "resumed"
      BY <1>1, <1>3, <2>1 DEF InOrder
    <3> QED BY <1>1, <3>1
  <2>2. CASE i = n
    <3>1. PICK k \in DOMAIN w : w[k].kind = "resumed"
      BY <1>1, <1>3, <2>2
    <3> QED BY <1>1, <2>2, <3>1
  <2> QED BY <1>1, <2>1, <2>2
<1>4. ASSUME NEW i \in DOMAIN x, NEW j \in DOMAIN x, x[i].kind \in {"resumed", "missed"},
             x[j].kind = x[i].kind
      PROVE  i = j
  <2>1. CASE i \in DOMAIN w /\ j \in DOMAIN w
    BY <1>1, <1>4, <2>1 DEF InOrder
  <2>2. CASE i = n \/ j = n
    BY <1>1, <1>4, <2>2
  <2> QED BY <1>1, <2>1, <2>2
<1>5. InOrder(x, at, method2, epoch)
  BY <1>2, <1>3, <1>4 DEF InOrder
<1> QED BY <1>5 DEF x

LEMMA OrderShifts ==
  ASSUME NEW w, IsWire(w), w # <<>>, NEW at, NEW method, NEW epoch,
         InOrder(w, at, method, epoch), NEW at2, NEW method2,
         \/ at2 = at /\ method2 = method /\ w[1].kind # "resumed"
         \/ at2 # "resume" /\ \A i \in DOMAIN w : i > 1 => w[i].kind \notin {"resumed", "missed"}
  PROVE  InOrder(Tail(w), at2, method2, epoch)
<1> DEFINE x == Tail(w)
<1>1. /\ Len(w) \in Nat /\ DOMAIN w = 1..Len(w) /\ DOMAIN x = 1..(Len(w) - 1)
      /\ \A i \in DOMAIN x : x[i] = w[i + 1] /\ i + 1 \in DOMAIN w
      /\ \A i \in DOMAIN w : i = 1 \/ (i - 1 \in DOMAIN x /\ x[i - 1] = w[i])
  BY TailSeq, SeqShape DEF IsWire
<1> HIDE DEF x
<1>2. \A i \in DOMAIN x : x[i] = w[i + 1] /\ i + 1 \in DOMAIN w /\ i + 1 > 1 /\ i \in Nat
  BY <1>1
<1>3. ASSUME NEW i \in DOMAIN x
      PROVE  /\ x[i].kind # "ready"
             /\ x[i].kind = "resumed" => at2 = "resume"
             /\ x[i].kind = "missed" => at2 = "replay" /\ method2 = "none"
  BY <1>2 DEF InOrder
<1>4. ASSUME NEW i \in DOMAIN x, x[i].kind = "frame", at2 = "resume"
      PROVE  \E k \in DOMAIN x : k < i /\ x[k].kind = "resumed"
  <2>1. PICK k \in DOMAIN w : k < i + 1 /\ w[k].kind = "resumed"
    BY <1>2, <1>4 DEF InOrder
  <2>2. k # 1
    BY <1>4, <2>1
  <2>3. k - 1 \in DOMAIN x /\ x[k - 1] = w[k] /\ k - 1 < i
    BY <1>1, <1>2, <2>1, <2>2
  <2> QED BY <2>1, <2>3
<1>5. ASSUME NEW i \in DOMAIN x, NEW j \in DOMAIN x, x[i].kind \in {"resumed", "missed"},
             x[j].kind = x[i].kind
      PROVE  i = j
  <2>1. i + 1 = j + 1
    BY <1>2, <1>5 DEF InOrder
  <2> QED BY <1>2, <2>1
<1>6. InOrder(x, at2, method2, epoch)
  BY <1>3, <1>4, <1>5 DEF InOrder
<1> QED BY <1>6 DEF x

LEMMA MissedFrame ==
  ASSUME NEW w, IsWire(w), NEW ring, IsLog(ring), NEW f, f.kind = "frame",
         f.seq = Len(ring) + 1, f.type \in FrameTypes,
         NEW mark, NEW buffer, MissedIn(w, ring, mark, buffer)
  PROVE  MissedIn(Append(w, f), Append(ring, f), mark, buffer)
<1> DEFINE x == Append(w, f)
           r == Append(ring, f)
           n == Len(w) + 1
<1>1. /\ DOMAIN x = 1..n /\ x[n] = f /\ \A i \in DOMAIN x : i \in DOMAIN w \/ i = n
      /\ \A i \in DOMAIN w : x[i] = w[i] /\ i \in DOMAIN x /\ i < n
  BY WireGrows DEF Kinds
<1>2. /\ \A g : Numbered(g, ring) => Numbered(g, r)
      /\ Len(ring) \in Nat
  BY LogGrows, SeqShape DEF IsLog
<1> HIDE DEF x, r, n
<1>3. ASSUME NEW k \in DOMAIN x, x[k].kind = "missed" PROVE k \in DOMAIN w /\ x[k] = w[k]
  BY <1>1, <1>3
<1>4. ASSUME NEW k \in DOMAIN x, x[k].kind = "missed", NEW a \in DOMAIN x[k].frames
      PROVE  /\ Numbered(x[k].frames[a], r)
             /\ \A j \in DOMAIN x : k < j /\ Live(x, j) => x[k].frames[a].seq < x[j].seq
             /\ \/ x[k].frames[a].seq <= mark
                \/ \E i \in DOMAIN x : i < k /\ Live(x, i) /\ x[k].frames[a].seq <= x[i].seq
                \/ buffer = <<>> /\ \A i \in DOMAIN x : i < k => ~Live(x, i)
  <2> DEFINE g == w[k].frames[a]
  <2>1. k \in DOMAIN w /\ x[k] = w[k] /\ w[k].kind = "missed" /\ a \in DOMAIN w[k].frames
    BY <1>3, <1>4
  <2>2. /\ Numbered(g, ring)
        /\ \A j \in DOMAIN w : k < j /\ Live(w, j) => g.seq < w[j].seq
        /\ \/ g.seq <= mark
           \/ \E i \in DOMAIN w : i < k /\ Live(w, i) /\ g.seq <= w[i].seq
           \/ buffer = <<>> /\ \A i \in DOMAIN w : i < k => ~Live(w, i)
    BY <2>1 DEF MissedIn
  <2>3. x[k].frames[a] = g
    BY <2>1
  <2> HIDE DEF g
  <2>4. g.seq < Len(ring) + 1
    BY <1>2, <2>2 DEF Numbered
  <2>5. ASSUME NEW j \in DOMAIN x, k < j, Live(x, j) PROVE g.seq < x[j].seq
    BY <1>1, <2>2, <2>4, <2>5 DEF Live
  <2>6. \/ g.seq <= mark
        \/ \E i \in DOMAIN x : i < k /\ Live(x, i) /\ g.seq <= x[i].seq
        \/ buffer = <<>> /\ \A i \in DOMAIN x : i < k => ~Live(x, i)
    <3>1. CASE \E i \in DOMAIN w : i < k /\ Live(w, i) /\ g.seq <= w[i].seq
      BY <1>1, <3>1 DEF Live
    <3>2. CASE buffer = <<>> /\ \A i \in DOMAIN w : i < k => ~Live(w, i)
      <4>1. ASSUME NEW i \in DOMAIN x, i < k PROVE i \in DOMAIN w
        BY <1>1, <2>1, <4>1
      <4> QED BY <1>1, <3>2, <4>1 DEF Live
    <3> QED BY <2>2, <3>1, <3>2
  <2>7. Numbered(g, r)
    BY <1>2, <2>2
  <2> QED BY <2>3, <2>5, <2>6, <2>7
<1>5. ASSUME NEW k \in DOMAIN x, x[k].kind = "missed"
      PROVE  /\ IsSeq(x[k].frames)
             /\ \A a, b \in DOMAIN x[k].frames :
                  a < b => x[k].frames[a].seq < x[k].frames[b].seq
  BY <1>3, <1>5 DEF MissedIn
<1>6. MissedIn(x, r, mark, buffer)
  BY <1>4, <1>5 DEF MissedIn
<1> QED BY <1>6 DEF x, r

\* There is a last live frame.
LEMMA LastLive ==
  ASSUME NEW w, IsWire(w), NEW ring, NEW mark, NEW done, LiveIn(w, ring, mark, done),
         NEW i \in DOMAIN w, Live(w, i)
  PROVE  \E j \in DOMAIN w : Live(w, j) /\ w[j].seq = Len(ring)
<1> DEFINE T == {d \in Nat : \E j \in DOMAIN w : Live(w, j) /\ d = Len(w) - j}
<1>1. Len(w) \in Nat /\ DOMAIN w = 1..Len(w)
  BY SeqShape DEF IsWire
<1>2. Len(w) - i \in T
  BY <1>1
<1>3. PICK d \in T : \A e \in T : d <= e
  <2>1. T \in SUBSET Nat /\ T # {}
    BY <1>2
  <2> HIDE DEF T
  <2> QED BY <2>1, LeastElement
<1>4. PICK j \in DOMAIN w : Live(w, j) /\ d = Len(w) - j
  BY <1>3
<1>5. ASSUME NEW l \in DOMAIN w, j < l, Live(w, l) PROVE FALSE
  <2>1. Len(w) - l \in T /\ Len(w) - l < d
    BY <1>1, <1>4, <1>5
  <2> QED BY <1>1, <1>3, <1>4, <2>1
<1>6. w[j].seq = Len(ring)
  BY <1>4, <1>5 DEF LiveIn
<1> QED BY <1>4, <1>6

\* Another answer, or none of the records, is sent.
LEMMA MissedOther ==
  ASSUME NEW w, IsWire(w), NEW m, m.kind \in Kinds, m.kind \notin {"frame", "missed"},
         NEW ring, NEW mark, NEW buffer, MissedIn(w, ring, mark, buffer)
  PROVE  MissedIn(Append(w, m), ring, mark, buffer)
<1> DEFINE x == Append(w, m)
           n == Len(w) + 1
<1>1. /\ DOMAIN x = 1..n /\ x[n] = m /\ \A i \in DOMAIN x : i \in DOMAIN w \/ i = n
      /\ \A i \in DOMAIN w : x[i] = w[i] /\ i \in DOMAIN x /\ i < n
  BY WireGrows
<1> HIDE DEF x, n
<1>2. \A i \in DOMAIN x : Live(x, i) => i \in DOMAIN w /\ Live(w, i) /\ x[i] = w[i]
  BY <1>1 DEF Live
<1>3. \A i \in DOMAIN w : i \in DOMAIN x /\ x[i] = w[i] /\ (Live(w, i) => Live(x, i))
  BY <1>1 DEF Live
<1>4. \A i \in DOMAIN x : x[i].kind = "missed" => i \in DOMAIN w /\ x[i] = w[i]
  BY <1>1
<1>5. ASSUME NEW k \in DOMAIN x, x[k].kind = "missed", NEW a \in DOMAIN x[k].frames
      PROVE  /\ Numbered(x[k].frames[a], ring)
             /\ \A j \in DOMAIN x : k < j /\ Live(x, j) => x[k].frames[a].seq < x[j].seq
             /\ \/ x[k].frames[a].seq <= mark
                \/ \E i \in DOMAIN x : i < k /\ Live(x, i) /\ x[k].frames[a].seq <= x[i].seq
                \/ buffer = <<>> /\ \A i \in DOMAIN x : i < k => ~Live(x, i)
  <2> DEFINE g == w[k].frames[a]
  <2>1. k \in DOMAIN w /\ x[k] = w[k] /\ w[k].kind = "missed" /\ a \in DOMAIN w[k].frames
    BY <1>4, <1>5
  <2>2. /\ Numbered(g, ring)
        /\ \A j \in DOMAIN w : k < j /\ Live(w, j) => g.seq < w[j].seq
        /\ \/ g.seq <= mark
           \/ \E i \in DOMAIN w : i < k /\ Live(w, i) /\ g.seq <= w[i].seq
           \/ buffer = <<>> /\ \A i \in DOMAIN w : i < k => ~Live(w, i)
    BY <2>1 DEF MissedIn
  <2>3. x[k].frames[a] = g
    BY <2>1
  <2> HIDE DEF g
  <2>4. \A j \in DOMAIN x : k < j /\ Live(x, j) => g.seq < x[j].seq
    BY <1>2, <2>2
  <2>5. \/ g.seq <= mark
        \/ \E i \in DOMAIN x : i < k /\ Live(x, i) /\ g.seq <= x[i].seq
        \/ buffer = <<>> /\ \A i \in DOMAIN x : i < k => ~Live(x, i)
    BY <1>2, <1>3, <2>2
  <2> QED BY <2>2, <2>3, <2>4, <2>5
<1>6. ASSUME NEW k \in DOMAIN x, x[k].kind = "missed"
      PROVE  /\ IsSeq(x[k].frames)
             /\ \A a, b \in DOMAIN x[k].frames :
                  a < b => x[k].frames[a].seq < x[k].frames[b].seq
  BY <1>4, <1>6 DEF MissedIn
<1>7. MissedIn(x, ring, mark, buffer)
  BY <1>5, <1>6 DEF MissedIn
<1> QED BY <1>7 DEF x

\* The records are sent: whatever is live so far, its last is the last of the log.
LEMMA MissedSaid ==
  ASSUME NEW w, IsWire(w), \A i \in DOMAIN w : w[i].kind # "missed",
         NEW ring, NEW mark, NEW done, NEW buffer,
         LiveIn(w, ring, mark, done), BufferIn(buffer, w, ring, mark, done),
         NEW m, m.kind = "missed", IsSeq(m.frames),
         \A a \in DOMAIN m.frames : Numbered(m.frames[a], ring),
         \A a, b \in DOMAIN m.frames : a < b => m.frames[a].seq < m.frames[b].seq
  PROVE  MissedIn(Append(w, m), ring, mark, buffer)
<1> DEFINE x == Append(w, m)
           n == Len(w) + 1
<1>1. /\ DOMAIN x = 1..n /\ x[n] = m /\ \A i \in DOMAIN x : i \in DOMAIN w \/ i = n
      /\ n \in Nat
      /\ \A i \in DOMAIN w : x[i] = w[i] /\ i \in DOMAIN x /\ i < n
  BY WireGrows DEF Kinds
<1> HIDE DEF x, n
<1>2. \A k \in DOMAIN x : x[k].kind = "missed" => k = n
  BY <1>1
<1>3. ASSUME NEW a \in DOMAIN m.frames
      PROVE  /\ \A j \in DOMAIN x : n < j /\ Live(x, j) => m.frames[a].seq < x[j].seq
             /\ \/ m.frames[a].seq <= mark
                \/ \E i \in DOMAIN x : i < n /\ Live(x, i) /\ m.frames[a].seq <= x[i].seq
                \/ buffer = <<>> /\ \A i \in DOMAIN x : i < n => ~Live(x, i)
  <2>1. m.frames[a].seq <= Len(ring)
    BY DEF Numbered
  <2>0. \A j \in DOMAIN x : ~(n < j)
    BY <1>1
  <2>2. CASE \E i \in DOMAIN w : Live(w, i)
    <3>1. PICK j \in DOMAIN w : Live(w, j) /\ w[j].seq = Len(ring)
      BY <2>2, LastLive
    <3>2. j \in DOMAIN x /\ j < n /\ Live(x, j) /\ x[j].seq = Len(ring)
      BY <1>1, <3>1 DEF Live
    <3>3. m.frames[a].seq <= x[j].seq
      BY <2>1, <3>2
    <3> QED BY <2>0, <3>2, <3>3
  <2>3. CASE ~\E i \in DOMAIN w : Live(w, i)
    <3>1. \A i \in DOMAIN x : i < n => ~Live(x, i)
      BY <1>1, <2>3 DEF Live
    <3>2. buffer # <<>> => mark = Len(ring)
      BY <2>3 DEF BufferIn
    <3> QED BY <2>0, <2>1, <3>1, <3>2
  <2> QED BY <2>2, <2>3
<1>4. MissedIn(x, ring, mark, buffer)
  BY <1>1, <1>2, <1>3 DEF MissedIn
<1> QED BY <1>4 DEF x

\* The head is taken: a frame, which waits in the queue then, or the hello.
LEMMA MissedShifts ==
  ASSUME NEW w, IsWire(w), w # <<>>, w[1].kind # "missed",
         NEW ring, NEW mark, NEW buffer, MissedIn(w, ring, mark, buffer),
         NEW mark2, NEW buffer2,
         \/ mark2 = mark /\ buffer2 = buffer /\ w[1].kind # "frame"
         \/ mark2 = w[1].seq /\ mark < mark2 /\ w[1].kind = "frame"
            /\ mark \in Nat /\ mark2 \in Nat
  PROVE  MissedIn(Tail(w), ring, mark2, buffer2)
<1> DEFINE x == Tail(w)
<1>1. /\ Len(w) \in Nat /\ DOMAIN w = 1..Len(w) /\ DOMAIN x = 1..(Len(w) - 1)
      /\ \A i \in DOMAIN x : x[i] = w[i + 1] /\ i + 1 \in DOMAIN w
      /\ \A i \in DOMAIN w : i = 1 \/ (i - 1 \in DOMAIN x /\ x[i - 1] = w[i])
      /\ 1 \in DOMAIN w
  BY TailSeq, SeqShape DEF IsWire
<1> HIDE DEF x
<1>2. \A i \in DOMAIN x : /\ Live(x, i) <=> Live(w, i + 1)
                          /\ x[i] = w[i + 1] /\ i + 1 \in DOMAIN w /\ i + 1 > 1 /\ i \in Nat
  BY <1>1 DEF Live
<1>3. ASSUME NEW k \in DOMAIN x, x[k].kind = "missed", NEW a \in DOMAIN x[k].frames
      PROVE  /\ Numbered(x[k].frames[a], ring)
             /\ \A j \in DOMAIN x : k < j /\ Live(x, j) => x[k].frames[a].seq < x[j].seq
             /\ \/ x[k].frames[a].seq <= mark2
                \/ \E i \in DOMAIN x : i < k /\ Live(x, i) /\ x[k].frames[a].seq <= x[i].seq
                \/ buffer2 = <<>> /\ \A i \in DOMAIN x : i < k => ~Live(x, i)
  <2> DEFINE g == w[k + 1].frames[a]
  <2>1. k + 1 \in DOMAIN w /\ x[k] = w[k + 1] /\ w[k + 1].kind = "missed" /\ a \in DOMAIN w[k + 1].frames
    BY <1>2, <1>3
  <2>2. /\ Numbered(g, ring)
        /\ \A j \in DOMAIN w : k + 1 < j /\ Live(w, j) => g.seq < w[j].seq
        /\ \/ g.seq <= mark
           \/ \E i \in DOMAIN w : i < k + 1 /\ Live(w, i) /\ g.seq <= w[i].seq
           \/ buffer = <<>> /\ \A i \in DOMAIN w : i < k + 1 => ~Live(w, i)
    BY <2>1 DEF MissedIn
  <2>3. x[k].frames[a] = g
    BY <2>1
  <2> HIDE DEF g
  <2>4. ASSUME NEW j \in DOMAIN x, k < j, Live(x, j) PROVE g.seq < x[j].seq
    <3>1. j + 1 \in DOMAIN w /\ k + 1 < j + 1 /\ Live(w, j + 1) /\ x[j] = w[j + 1]
      BY <1>2, <2>4
    <3> QED BY <2>2, <3>1
  <2>5. g.seq \in Nat
    BY <2>2 DEF Numbered
  <2>6. \/ g.seq <= mark2
        \/ \E i \in DOMAIN x : i < k /\ Live(x, i) /\ g.seq <= x[i].seq
        \/ buffer2 = <<>> /\ \A i \in DOMAIN x : i < k => ~Live(x, i)
    <3>6. CASE g.seq <= mark
      BY <2>5, <3>6
    <3>7. CASE \E i \in DOMAIN w : i < k + 1 /\ Live(w, i) /\ g.seq <= w[i].seq
      <4>1. PICK i \in DOMAIN w : i < k + 1 /\ Live(w, i) /\ g.seq <= w[i].seq
        BY <3>7
      <4>2. CASE i = 1
        BY <4>1, <4>2 DEF Live
      <4>3. CASE i # 1
        <5>1. i - 1 \in DOMAIN x /\ x[i - 1] = w[i] /\ i - 1 < k
          BY <1>1, <1>2, <4>1, <4>3
        <5>2. Live(x, i - 1)
          BY <4>1, <5>1 DEF Live
        <5> QED BY <4>1, <5>1, <5>2
      <4> QED BY <4>2, <4>3
    <3>8. CASE buffer = <<>> /\ \A i \in DOMAIN w : i < k + 1 => ~Live(w, i)
      <4>1. ~Live(w, 1)
        BY <1>1, <1>2, <3>8
      <4>2. buffer2 = <<>>
        BY <3>8, <4>1 DEF Live
      <4>3. ASSUME NEW i \in DOMAIN x, i < k PROVE ~Live(x, i)
        <5>1. i + 1 \in DOMAIN w /\ i + 1 < k + 1
          BY <1>2, <4>3
        <5> QED BY <1>2, <3>8, <5>1
      <4> QED BY <4>2, <4>3
    <3> QED BY <2>2, <3>6, <3>7, <3>8
  <2> QED BY <2>2, <2>3, <2>4, <2>6
<1>4. ASSUME NEW k \in DOMAIN x, x[k].kind = "missed"
      PROVE  /\ IsSeq(x[k].frames)
             /\ \A a, b \in DOMAIN x[k].frames :
                  a < b => x[k].frames[a].seq < x[k].frames[b].seq
  <2>1. k + 1 \in DOMAIN w /\ x[k] = w[k + 1]
    BY <1>2
  <2> QED BY <1>4, <2>1 DEF MissedIn
<1>5. MissedIn(x, ring, mark2, buffer2)
  BY <1>3, <1>4 DEF MissedIn
<1> QED BY <1>5 DEF x

\* The queue, while more is sent.
LEMMA BufferWaits ==
  ASSUME NEW w, IsWire(w), NEW m, m.kind \in Kinds, NEW buffer, NEW ring, NEW mark, NEW done,
         BufferIn(buffer, w, ring, mark, done), NEW ring2,
         \A g : Numbered(g, ring) => Numbered(g, ring2),
         m.kind = "frame" \/ Len(ring2) = Len(ring)
  PROVE  BufferIn(buffer, Append(w, m), ring2, mark, done)
<1> DEFINE x == Append(w, m)
           n == Len(w) + 1
<1>1. /\ DOMAIN x = 1..n /\ x[n] = m /\ n \in DOMAIN x
      /\ \A i \in DOMAIN w : x[i] = w[i] /\ i \in DOMAIN x
  BY WireGrows
<1> HIDE DEF x, n
<1>2. \A i \in DOMAIN w : Live(w, i) => i \in DOMAIN x /\ Live(x, i)
  BY <1>1 DEF Live
<1>3. m.kind = "frame" => n \in DOMAIN x /\ Live(x, n)
  BY <1>1 DEF Live
<1>4. BufferIn(buffer, x, ring2, mark, done)
  BY <1>2, <1>3 DEF BufferIn
<1> QED BY <1>4 DEF x

\* A frame joins the queue.
LEMMA BufferTakes ==
  ASSUME NEW w, IsWire(w), w # <<>>, w[1].kind = "frame",
         NEW buffer, NEW ring, NEW mark \in Nat, NEW done, BufferIn(buffer, w, ring, mark, done),
         LiveIn(w, ring, mark, done)
  PROVE  BufferIn(Append(buffer, w[1]), Tail(w), ring, w[1].seq, done)
<1> DEFINE x == Tail(w)
           more == Append(buffer, w[1])
           n == Len(buffer) + 1
<1>1. /\ DOMAIN w = 1..Len(w) /\ Len(w) \in Nat /\ 1 \in DOMAIN w
      /\ \A i \in DOMAIN w : i = 1 \/ (i - 1 \in DOMAIN x /\ x[i - 1] = w[i])
  BY TailSeq, SeqShape DEF IsWire
<1>2. /\ IsSeq(more) /\ DOMAIN more = 1..n /\ more[n] = w[1] /\ Len(more) = n
      /\ \A b \in DOMAIN buffer : more[b] = buffer[b]
      /\ DOMAIN buffer = 1..Len(buffer) /\ Len(buffer) \in Nat
  BY AppendSeq, SeqShape DEF BufferIn
<1> HIDE DEF x, more
<1>3. Live(w, 1)
  BY DEF Live
<1>4. Numbered(w[1], ring) /\ mark < w[1].seq /\ Newer(w[1].seq, done)
      /\ (w[1].seq = Len(ring) \/ \E j \in DOMAIN w : 1 < j /\ Live(w, j))
  BY <1>1, <1>3 DEF LiveIn
<1>5. w[1].seq \in Nat
  BY <1>4 DEF Numbered
<1>6. ASSUME NEW b \in DOMAIN more
      PROVE  Numbered(more[b], ring) /\ Newer(more[b].seq, done) /\ more[b].seq <= w[1].seq
  <2>1. CASE b = n
    BY <1>2, <1>4, <1>5, <2>1
  <2>2. CASE b \in DOMAIN buffer
    <3>1. Numbered(buffer[b], ring) /\ Newer(buffer[b].seq, done) /\ buffer[b].seq <= mark
      BY <2>2 DEF BufferIn
    <3>2. buffer[b].seq \in Nat
      BY <3>1 DEF Numbered
    <3> QED BY <1>2, <1>4, <1>5, <2>2, <3>1, <3>2
  <2> QED BY <1>2, <2>1, <2>2
<1>7. ASSUME NEW b \in DOMAIN more, NEW c \in DOMAIN more, b < c
      PROVE  more[b].seq < more[c].seq
  <2>1. b \in DOMAIN buffer /\ more[b] = buffer[b]
    BY <1>2, <1>7
  <2>2. CASE c = n
    <3>1. Numbered(buffer[b], ring) /\ buffer[b].seq <= mark
      BY <2>1 DEF BufferIn
    <3>2. buffer[b].seq \in Nat
      BY <3>1 DEF Numbered
    <3> QED BY <1>2, <1>4, <1>5, <2>1, <2>2, <3>1, <3>2
  <2>3. CASE c \in DOMAIN buffer
    BY <1>2, <1>7, <2>1, <2>3 DEF BufferIn
  <2> QED BY <1>2, <2>2, <2>3
<1>8. w[1].seq = Len(ring) \/ \E i \in DOMAIN x : Live(x, i)
  <2>1. ASSUME NEW j \in DOMAIN w, 1 < j, Live(w, j) PROVE \E i \in DOMAIN x : Live(x, i)
    <3>1. j - 1 \in DOMAIN x /\ x[j - 1] = w[j]
      BY <1>1, <2>1
    <3> QED BY <2>1, <3>1 DEF Live
  <2> QED BY <1>4, <2>1
<1>9. BufferIn(more, x, ring, w[1].seq, done)
  BY <1>2, <1>6, <1>7, <1>8 DEF BufferIn
<1> QED BY <1>9 DEF x, more

LEMMA NothingWaits ==
  ASSUME NEW buffer, buffer = <<>>, NEW w, NEW ring, NEW mark, NEW done
  PROVE  BufferIn(buffer, w, ring, mark, done)
<1>1. IsSeq(buffer)
  BY NoSeq
<1>2. DOMAIN buffer = {}
  OBVIOUS
<1> QED BY <1>1, <1>2 DEF BufferIn

LEMMA NothingOnWire ==
  ASSUME NEW w, w = <<>>, NEW ring, NEW mark, NEW done, NEW buffer,
         NEW at, NEW method, NEW epoch
  PROVE  /\ IsWire(w) /\ LiveIn(w, ring, mark, done) /\ MissedIn(w, ring, mark, buffer)
         /\ InOrder(w, at, method, epoch)
<1>1. IsSeq(w)
  BY NoSeq
<1>2. DOMAIN w = {}
  OBVIOUS
<1>3. IsWire(w)
  BY <1>1, <1>2 DEF IsWire
<1>4. LiveIn(w, ring, mark, done)
  BY <1>2 DEF LiveIn
<1>5. MissedIn(w, ring, mark, buffer)
  BY <1>2 DEF MissedIn
<1>6. InOrder(w, at, method, epoch)
  BY <1>2 DEF InOrder
<1> QED BY <1>3, <1>4, <1>5, <1>6

----------------------------------------------------------------------------
(* The inductive invariant.                                                *)

Methods == {"none", "session.resume", "session.events.since", "prompt.submit"}

Places == {"idle", "dial", "resume", "replay", "pump", "delay", "settling"}

\* A socket of the client is on the line.
Linked == stream.at \in {"resume", "replay", "pump"}

\* The watermark, as far as it counts frames of the running gateway process.
Mark == IF replay.epoch \in {0, session.epoch} THEN replay.mark ELSE 0

Ordered(done) ==
  /\ IsSeq(done) /\ \A k \in DOMAIN done : done[k] \in Nat
  /\ \A j, k \in DOMAIN done : j < k => done[j] < done[k]

SessionInv ==
  session \in [turn : 0..MaxTurns, running : BOOLEAN, failed : BOOLEAN,
               blocked : 0..Len(log), revision : Nat, epoch : 1..MaxEpochs,
               frames : 0..MaxFrames]

SocketInv ==
  /\ {"bound", "wire", "request"} \subseteq DOMAIN socket
  /\ socket.bound \in BOOLEAN /\ IsWire(socket.wire)
  /\ socket.request \in [method : Methods, from : Nat]

PlaceInv ==
  /\ {"at", "mode", "known", "attempts", "buffer", "prompt"} \subseteq DOMAIN stream
  /\ stream.at \in Places /\ stream.mode \in {"turn", "reattach"}
  /\ stream.attempts \in 0..MaxReattach

ViewInv == IsTranslator(trans) /\ IsChat(chat)

\* Who is on the line, and what it may be asked.
LinkInv ==
  /\ ~Linked => /\ socket.wire = <<>> /\ ~socket.bound
                /\ socket.request.method \in {"none", "prompt.submit"}
  /\ stream.at # "replay" => stream.buffer = <<>>
  /\ stream.at = "resume" =>
       /\ socket.request.method \in {"none", "session.resume"}
       /\ socket.request.method = "session.resume" => ~socket.bound
       /\ socket.bound => \E k \in DOMAIN socket.wire : socket.wire[k].kind = "resumed"
  /\ stream.at = "replay" => /\ socket.request.method \in {"none", "session.events.since"}
                             /\ replay.mark # 0
  /\ stream.at = "pump" => socket.request.method \in {"none", "prompt.submit"}
  /\ stream.at \in {"replay", "pump"} => socket.bound /\ ~trans.completed
  /\ ~socket.bound => \A i \in DOMAIN socket.wire : socket.wire[i].kind \in {"ready", "refused"}

\* Until the hello of the socket is read, the epoch may be that of another process.
WireInv ==
  /\ InOrder(socket.wire, stream.at, socket.request.method, session.epoch)
  /\ Linked /\ replay.epoch # session.epoch =>
       socket.wire # <<>> /\ socket.wire[1].kind = "ready"

MarkInv ==
  /\ replay \in [epoch : 0..MaxEpochs, mark : Nat]
  /\ replay.epoch <= session.epoch
  /\ replay.epoch = 0 => replay.mark = 0
  /\ Mark <= Len(log)

\* What was projected is behind the watermark, unless a new turn has reset it.
AppliedInv ==
  /\ Ordered(applied)
  /\ \A k \in DOMAIN applied : /\ applied[k] <= Len(log)
                               /\ replay.epoch = session.epoch
                               /\ replay.mark # 0 => applied[k] <= replay.mark

LiveInv == LiveIn(socket.wire, log, Mark, applied)

MissedInv == MissedIn(socket.wire, log, Mark, stream.buffer)

BufferInv == BufferIn(stream.buffer, socket.wire, log, Mark, applied)

\* A turn is blocked on the last frame there is.
BlockedInv ==
  session.blocked # 0 =>
    session.running /\ session.blocked = Len(log) /\ log[Len(log)].type = "prompt"

LiveComes == \E j \in DOMAIN socket.wire : Live(socket.wire, j)

\* The prompt that blocks the turn is shown, or is on its way.
PromptInv ==
  session.blocked # 0 =>
    /\ \A i \in DOMAIN socket.wire : socket.wire[i].kind = "resumed" =>
         socket.wire[i].prompt = session.blocked \/ LiveComes
    /\ stream.at = "replay" =>
         stream.prompt = session.blocked \/ stream.buffer # <<>> \/ LiveComes
    /\ stream.at = "pump" =>
         \/ chat.prompt = session.blocked \/ LiveComes
         \/ \E j \in DOMAIN socket.wire : socket.wire[j].kind = "refused"
         \/ socket.request.method = "prompt.submit"

QuietInv == stream.at = "idle" => chat.prompt = 0 /\ chat.status \in {"idle", "error"}

StreamInv ==
  /\ IsLog(log) /\ SessionInv /\ SocketInv /\ PlaceInv /\ ViewInv /\ drops \in 0..MaxDrops
  /\ LinkInv /\ WireInv /\ MarkInv /\ AppliedInv
  /\ LiveInv /\ MissedInv /\ BufferInv
  /\ BlockedInv /\ PromptInv /\ QuietInv

LEMMA InitHolds == Init => StreamInv
<1> SUFFICES ASSUME Init PROVE StreamInv
  OBVIOUS
<1> USE DEF Init
<1>1. IsLog(log) /\ Len(log) = 0
  <2>1. IsSeq(log)
    BY NoSeq
  <2>2. DOMAIN log = {} /\ Len(log) = 0
    OBVIOUS
  <2> QED BY <2>1, <2>2 DEF IsLog
<1>2. SessionInv
  BY <1>1, StreamConstants DEF SessionInv
<1>3. socket.wire = <<>> /\ stream.buffer = <<>> /\ stream.at = "idle"
  OBVIOUS
<1>4. /\ IsWire(socket.wire) /\ LiveIn(socket.wire, log, Mark, applied)
      /\ MissedIn(socket.wire, log, Mark, stream.buffer)
      /\ InOrder(socket.wire, stream.at, socket.request.method, session.epoch)
  BY <1>3, NothingOnWire
<1>5. SocketInv
  BY <1>4 DEF SocketInv, NoRequest, Methods
<1>6. PlaceInv
  BY StreamConstants DEF PlaceInv, Places
<1>7. ViewInv
  BY DEF ViewInv, NewTranslator, NoRow, IsTranslator, IsChat
<1>8. LinkInv
  <2>1. socket.request.method = "none" /\ ~socket.bound /\ DOMAIN socket.wire = {}
    BY DEF NoRequest
  <2> QED BY <1>3, <2>1 DEF LinkInv, Linked
<1>9. WireInv
  BY <1>3, <1>4 DEF WireInv, Linked
<1>10. MarkInv
  BY <1>1, StreamConstants DEF MarkInv, Mark
<1>11. AppliedInv
  <2>1. IsSeq(applied)
    BY NoSeq
  <2>2. DOMAIN applied = {}
    OBVIOUS
  <2> QED BY <2>1, <2>2 DEF AppliedInv, Ordered
<1>12. BufferInv
  BY <1>3, NothingWaits DEF BufferInv
<1>13. BlockedInv /\ PromptInv /\ QuietInv
  BY DEF BlockedInv, PromptInv, QuietInv, NoRow
<1>14. drops \in 0..MaxDrops
  BY StreamConstants
<1> QED BY <1>1, <1>2, <1>4, <1>5, <1>6, <1>7, <1>8, <1>9, <1>10, <1>11, <1>12, <1>13, <1>14
        DEF StreamInv, LiveInv, MissedInv

\* The stream is over, for good or until it is taken up again.
LEMMA Closes ==
  ASSUME StreamInv, UNCHANGED <<log, session>>, socket' = Closed,
         PlaceInv', stream'.at \in {"settling", "delay"}, stream'.buffer = <<>>,
         ViewInv', (drops \in 0..MaxDrops)', MarkInv', AppliedInv'
  PROVE  StreamInv'
<1>1. IsLog(log)' /\ SessionInv' /\ BlockedInv'
  BY DEF StreamInv, SessionInv, BlockedInv, IsLog
<1>2. /\ socket'.wire = <<>> /\ ~socket'.bound
      /\ socket'.request.method \in {"none", "prompt.submit"}
      /\ socket'.request \in [method : Methods, from : Nat]
      /\ {"bound", "wire", "request"} \subseteq DOMAIN socket' /\ socket'.bound = FALSE
  BY DEF StreamInv, SocketInv, Closed, NoRequest, Methods
<1>3. /\ IsWire(socket'.wire) /\ LiveInv' /\ MissedInv'
      /\ InOrder(socket'.wire, stream'.at, socket'.request.method, session'.epoch)
  BY <1>2, NothingOnWire DEF LiveInv, MissedInv
<1>4. SocketInv'
  BY <1>2, <1>3 DEF SocketInv
<1>5. LinkInv'
  <2>1. DOMAIN socket'.wire = {}
    BY <1>2
  <2> QED BY <1>2, <2>1 DEF LinkInv, Linked
<1>6. WireInv' /\ QuietInv'
  BY <1>3 DEF WireInv, Linked, QuietInv
<1>7. BufferInv'
  BY NothingWaits DEF BufferInv
<1>8. PromptInv'
  <2>1. DOMAIN socket'.wire = {}
    BY <1>2
  <2> QED BY <2>1 DEF PromptInv
<1> QED BY <1>1, <1>3, <1>4, <1>5, <1>6, <1>7, <1>8 DEF StreamInv

----------------------------------------------------------------------------
(* What is projected.                                                      *)

\* The records among frames of the log that come in order, in order.
LEMMA RecordsOrdered ==
  ASSUME NEW frames, IsSeq(frames), NEW ring,
         \A i \in DOMAIN frames : Numbered(frames[i], ring),
         \A i, j \in DOMAIN frames : i < j => frames[i].seq < frames[j].seq
  PROVE  /\ Ordered(DurableIn(frames))
         /\ \A a \in DOMAIN DurableIn(frames) :
              \E i \in DOMAIN frames : DurableIn(frames)[a] = frames[i].seq
<1> DEFINE d == DurableIn(frames)
<1>1. /\ IsSeq(d)
      /\ \A a \in DOMAIN d : \E i \in DOMAIN frames : d[a] = frames[i].seq
      /\ \A a, b \in DOMAIN d : a < b =>
           \E i, j \in DOMAIN frames : i < j /\ d[a] = frames[i].seq /\ d[b] = frames[j].seq
  BY DurableInFrom
<1> HIDE DEF d
<1>2. \A i \in DOMAIN frames : frames[i].seq \in Nat
  BY DEF Numbered
<1>3. Ordered(d)
  BY <1>1, <1>2 DEF Ordered
<1> QED BY <1>1, <1>3 DEF d

\* Newer numbers, projected after the others.
LEMMA DoneGrows ==
  ASSUME NEW done, Ordered(done), NEW seqs, Ordered(seqs),
         \A a \in DOMAIN seqs : Newer(seqs[a], done)
  PROVE  /\ Ordered(done \o seqs)
         /\ \A k \in DOMAIN (done \o seqs) : \/ \E j \in DOMAIN done : (done \o seqs)[k] = done[j]
                                             \/ \E a \in DOMAIN seqs : (done \o seqs)[k] = seqs[a]
<1> DEFINE all == done \o seqs
           n == Len(done)
<1>1. /\ IsSeq(all)
      /\ \A i \in DOMAIN all : \/ i \in DOMAIN done /\ all[i] = done[i]
                               \/ i - n \in DOMAIN seqs /\ i > n /\ all[i] = seqs[i - n]
  BY ConcatSeq DEF Ordered
<1>2. /\ DOMAIN all = 1..Len(all) /\ Len(all) \in Nat
      /\ DOMAIN done = 1..n /\ n \in Nat
  BY <1>1, SeqShape DEF Ordered
<1> HIDE DEF all, n
<1>3. \A k \in DOMAIN all : all[k] \in Nat
  BY <1>1 DEF Ordered
<1>4. ASSUME NEW i \in DOMAIN all, NEW j \in DOMAIN all, i < j PROVE all[i] < all[j]
  <2>1. CASE j \in DOMAIN done /\ all[j] = done[j]
    <3>1. i \in DOMAIN done /\ all[i] = done[i]
      BY <1>1, <1>2, <1>4, <2>1
    <3> QED BY <1>4, <2>1, <3>1 DEF Ordered
  <2>2. CASE j - n \in DOMAIN seqs /\ j > n /\ all[j] = seqs[j - n]
    <3>1. CASE i \in DOMAIN done /\ all[i] = done[i]
      BY <2>2, <3>1 DEF Newer
    <3>2. CASE i - n \in DOMAIN seqs /\ i > n /\ all[i] = seqs[i - n]
      <4>1. i - n < j - n
        BY <1>2, <1>4
      <4> QED BY <2>2, <3>2, <4>1 DEF Ordered
    <3> QED BY <1>1, <3>1, <3>2
  <2> QED BY <1>1, <2>1, <2>2
<1>5. Ordered(all)
  BY <1>1, <1>3, <1>4 DEF Ordered
<1> QED BY <1>1, <1>5 DEF all

\* Once the hello is read, the watermark is that of the running process.
LEMMA Connected ==
  ASSUME StreamInv, Linked, socket.wire = <<>> \/ socket.wire[1].kind # "ready"
  PROVE  replay.epoch = session.epoch /\ Mark = replay.mark
  BY DEF StreamInv, WireInv, Mark

LEMMA Attends ==
  ASSUME StreamInv, stream.at \in {"replay", "pump"}
  PROVE  Linked /\ replay.epoch = session.epoch /\ Mark = replay.mark
<1>1. Linked
  BY DEF Linked
<1>2. socket.wire = <<>> \/ socket.wire[1].kind # "ready"
  <2>1. socket.wire # <<>> => 1 \in DOMAIN socket.wire
    BY TailSeq DEF StreamInv, SocketInv, IsWire
  <2> QED BY <2>1 DEF StreamInv, WireInv, InOrder
<1> QED BY <1>1, <1>2, Connected

\* The queue is handed out, and what has been projected is still in order.
LEMMA QueueDrained ==
  ASSUME StreamInv, NEW done, done = applied \o DurableIn(stream.buffer)
  PROVE  /\ Ordered(done)
         /\ \A k \in DOMAIN done : /\ done[k] <= Len(log)
                                   /\ replay.epoch = session.epoch
                                   /\ replay.mark # 0 => done[k] <= replay.mark
<1> DEFINE seqs == DurableIn(stream.buffer)
<1>1. /\ IsSeq(stream.buffer)
      /\ \A b \in DOMAIN stream.buffer : /\ Numbered(stream.buffer[b], log)
                                         /\ Newer(stream.buffer[b].seq, applied)
                                         /\ stream.buffer[b].seq <= Mark
      /\ \A b, c \in DOMAIN stream.buffer : b < c => stream.buffer[b].seq < stream.buffer[c].seq
      /\ Ordered(applied)
  BY DEF StreamInv, BufferInv, BufferIn, AppliedInv
<1>2. /\ Ordered(seqs)
      /\ \A a \in DOMAIN seqs : \E b \in DOMAIN stream.buffer : seqs[a] = stream.buffer[b].seq
  BY <1>1, RecordsOrdered
<1> HIDE DEF seqs
<1>3. \A a \in DOMAIN seqs : Newer(seqs[a], applied)
  BY <1>1, <1>2
<1>4. /\ Ordered(done)
      /\ \A k \in DOMAIN done : \/ \E j \in DOMAIN applied : done[k] = applied[j]
                                \/ \E a \in DOMAIN seqs : done[k] = seqs[a]
  BY <1>1, <1>2, <1>3, DoneGrows DEF seqs
<1>5. ASSUME NEW b \in DOMAIN stream.buffer
      PROVE  /\ stream.buffer[b].seq <= Len(log) /\ replay.epoch = session.epoch
             /\ stream.buffer[b].seq <= replay.mark
  <2>1. stream.at = "replay"
    <3>1. stream.buffer # <<>>
      BY <1>5
    <3> QED BY <3>1 DEF StreamInv, LinkInv
  <2>2. replay.epoch = session.epoch /\ Mark = replay.mark
    BY <2>1, Attends
  <2> QED BY <1>1, <2>2 DEF Numbered
<1>6. \A j \in DOMAIN applied : /\ applied[j] <= Len(log)
                                /\ replay.epoch = session.epoch
                                /\ replay.mark # 0 => applied[j] <= replay.mark
  BY DEF StreamInv, AppliedInv
<1>7. ASSUME NEW k \in DOMAIN done
      PROVE  /\ done[k] <= Len(log)
             /\ replay.epoch = session.epoch
             /\ replay.mark # 0 => done[k] <= replay.mark
  BY <1>2, <1>4, <1>5, <1>6
<1> QED BY <1>4, <1>7

----------------------------------------------------------------------------
(* The gateway's steps.                                                    *)

\* Without a socket of its client the gateway sends nothing live.
LEMMA NothingLive ==
  ASSUME StreamInv, ~socket.bound
  PROVE  /\ \A i \in DOMAIN socket.wire : socket.wire[i].kind \in {"ready", "refused"}
         /\ stream.buffer = <<>>
         /\ \A ring, mark, done, buffer :
              /\ LiveIn(socket.wire, ring, mark, done)
              /\ MissedIn(socket.wire, ring, mark, buffer)
<1>1. /\ \A i \in DOMAIN socket.wire : socket.wire[i].kind \in {"ready", "refused"}
      /\ stream.buffer = <<>>
  BY DEF StreamInv, LinkInv
<1>2. \A i \in DOMAIN socket.wire : ~Live(socket.wire, i) /\ socket.wire[i].kind # "missed"
  BY <1>1 DEF Live
<1> QED BY <1>1, <1>2 DEF LiveIn, MissedIn

LEMMA EmitKeeps ==
  ASSUME StreamInv, NEW type \in FrameTypes, Emit(type) PROVE StreamInv'
<1> DEFINE f == Frame(type, session.turn, Len(log) + 1)
<1>1. f.kind = "frame" /\ f.seq = Len(log) + 1 /\ f.type = type
      /\ (type = "todo" => f.ref = session.revision + 1)
  BY DEF Frame
<1>2. /\ log' = Append(log, f)
      /\ socket' = IF socket.bound THEN [socket EXCEPT !.wire = Append(@, f)] ELSE socket
      /\ session' = [session EXCEPT
           !.running = type \notin Terminal,
           !.failed = type = "error",
           !.frames = IF type \in Terminal THEN @ ELSE @ + 1,
           !.blocked = CASE type = "prompt" -> f.seq
                         [] type \in Terminal \cup {"expire"} -> 0
                         [] OTHER -> @,
           !.revision = IF type = "todo" THEN f.ref ELSE @]
      /\ UNCHANGED <<stream, replay, trans, chat, row, applied, drops>>
      /\ type \in Terminal \/ session.frames < MaxFrames
      /\ MayEmit(type) /\ session.running
  BY DEF Emit
<1> HIDE DEF f
<1>3. /\ IsLog(log) /\ IsSeq(log) /\ Len(log) \in Nat
  BY SeqShape DEF StreamInv, IsLog
<1>4. /\ IsLog(log') /\ Len(log') = Len(log) + 1 /\ Numbered(f, log')
      /\ \A g : Numbered(g, log) => Numbered(g, log')
  BY <1>1, <1>2, <1>3, LogGrows
<1>5. log'[Len(log')] = f
  BY <1>1, <1>4 DEF Numbered
<1>6. SessionInv' /\ session'.epoch = session.epoch
  <2>1. session \in [turn : 0..MaxTurns, running : BOOLEAN, failed : BOOLEAN,
                     blocked : 0..Len(log), revision : Nat, epoch : 1..MaxEpochs,
                     frames : 0..MaxFrames]
    BY DEF StreamInv, SessionInv
  <2>2. session.frames + 1 \in 0..MaxFrames \/ type \in Terminal
    <3>1. session.frames \in 0..MaxFrames /\ MaxFrames \in Nat
      BY <2>1, StreamConstants
    <3>2. type \in Terminal \/ session.frames < MaxFrames
      BY <1>2
    <3> QED BY <3>1, <3>2
  <2>3. f.seq \in 0..Len(log') /\ session.blocked \in 0..Len(log') /\ 0 \in 0..Len(log')
    BY <1>1, <1>3, <1>4, <2>1
  <2>4. type = "todo" => f.ref \in Nat
    BY <1>1, <2>1
  <2> DEFINE b == CASE type = "prompt" -> f.seq
                    [] type \in Terminal \cup {"expire"} -> 0
                    [] OTHER -> session.blocked
             n == IF type \in Terminal THEN session.frames ELSE session.frames + 1
             r == IF type = "todo" THEN f.ref ELSE session.revision
  <2>5. b \in 0..Len(log') /\ n \in 0..MaxFrames /\ r \in Nat
    BY <2>1, <2>2, <2>3, <2>4
  <2>6. session' = [session EXCEPT !.running = type \notin Terminal, !.failed = type = "error",
                                   !.frames = n, !.blocked = b, !.revision = r]
    BY <1>2, <2>1
  <2> HIDE DEF b, n, r
  <2> QED BY <2>1, <2>5, <2>6 DEF SessionInv
<1>7. Mark' = Mark /\ MarkInv' /\ AppliedInv' /\ Mark \in Nat /\ Mark <= Len(log)
  <2>1. Mark' = Mark
    BY <1>2, <1>6 DEF Mark
  <2>2. MarkInv /\ AppliedInv
    BY DEF StreamInv
  <2>3. Mark \in Nat /\ Mark <= Len(log)
    BY <2>2 DEF MarkInv, Mark
  <2>4. Mark' <= Len(log')
    BY <1>3, <1>4, <2>1, <2>3
  <2>5. MarkInv'
    BY <1>2, <1>6, <2>2, <2>4 DEF MarkInv
  <2>6. AppliedInv'
    <3>1. \A k \in DOMAIN applied : applied[k] \in Nat
      BY <2>2 DEF AppliedInv, Ordered
    <3> QED BY <1>2, <1>3, <1>4, <1>6, <2>2, <3>1 DEF AppliedInv, Ordered
  <2> QED BY <2>1, <2>3, <2>5, <2>6
<1>8. session'.blocked # 0 => type = "prompt" /\ session'.blocked = Len(log')
  <2>1. SessionInv
    BY DEF StreamInv
  <2>2. session'.blocked = CASE type = "prompt" -> f.seq
                             [] type \in Terminal \cup {"expire"} -> 0
                             [] OTHER -> session.blocked
    BY <1>2, <2>1 DEF SessionInv
  <2>3. type \notin Terminal \cup {"prompt", "expire"} => session.blocked = 0
    BY <1>2 DEF MayEmit, FrameTypes, Durable, ToolFrames, Terminal
  <2> QED BY <1>1, <1>4, <2>2, <2>3
<1>9. BlockedInv'
  <2>1. session'.running = (type \notin Terminal)
    BY <1>2 DEF StreamInv, SessionInv
  <2> QED BY <1>1, <1>5, <1>8, <2>1 DEF BlockedInv, Terminal
<1>10. CASE ~socket.bound
  <2>1. socket' = socket
    BY <1>2, <1>10
  <2>2. LiveInv' /\ MissedInv' /\ stream.buffer = <<>>
        /\ \A i \in DOMAIN socket.wire : socket.wire[i].kind \in {"ready", "refused"}
    BY <1>2, <1>10, <2>1, NothingLive DEF LiveInv, MissedInv
  <2>3. BufferInv'
    BY <1>2, <2>2, NothingWaits DEF BufferInv
  <2>4. SocketInv' /\ PlaceInv' /\ ViewInv' /\ LinkInv' /\ WireInv' /\ QuietInv'
        /\ (drops \in 0..MaxDrops)'
    BY <1>2, <1>6, <2>1
       DEF StreamInv, SocketInv, PlaceInv, ViewInv, LinkInv, WireInv, QuietInv, Linked
  <2>5. PromptInv'
    <3>1. stream.at \notin {"replay", "pump"}
      BY <1>10 DEF StreamInv, LinkInv
    <3> QED BY <1>2, <2>1, <2>2, <3>1 DEF PromptInv
  <2> QED BY <1>4, <1>6, <1>7, <1>9, <2>2, <2>3, <2>4, <2>5 DEF StreamInv
<1>11. CASE socket.bound
  <2> DEFINE w == socket.wire
             x == socket'.wire
  <2>1. /\ x = Append(w, f) /\ socket'.bound = socket.bound /\ socket'.request = socket.request
        /\ {"bound", "wire", "request"} \subseteq DOMAIN socket' /\ IsWire(w)
    BY <1>2, <1>11 DEF StreamInv, SocketInv
  <2>2. /\ IsWire(x) /\ DOMAIN x = 1..(Len(w) + 1) /\ x[Len(w) + 1] = f
        /\ \A i \in DOMAIN w : x[i] = w[i] /\ i \in DOMAIN x
        /\ Len(w) \in Nat /\ DOMAIN w = 1..Len(w)
    BY <1>1, <2>1, WireGrows DEF Kinds
  <2>3. Linked
    BY <1>11 DEF StreamInv, LinkInv
  <2>4. SocketInv' /\ PlaceInv' /\ ViewInv' /\ QuietInv' /\ (drops \in 0..MaxDrops)'
    BY <1>2, <2>1, <2>2 DEF StreamInv, SocketInv, PlaceInv, ViewInv, QuietInv
  <2>5. Len(w) + 1 \in DOMAIN x /\ Live(x, Len(w) + 1)
    BY <1>1, <2>2 DEF Live
  <2>6. LinkInv'
    <3>1. stream.at = "resume" => \E k \in DOMAIN x : x[k].kind = "resumed"
      <4>1. stream.at = "resume" => \E k \in DOMAIN w : w[k].kind = "resumed"
        BY <1>11 DEF StreamInv, LinkInv
      <4> QED BY <2>2, <4>1
    <3>2. LinkInv /\ Linked'
      BY <1>2, <2>3 DEF StreamInv, Linked
    <3> HIDE DEF x
    <3>3. socket'.wire = x
      BY DEF x
    <3> QED BY <1>2, <1>11, <2>1, <3>1, <3>2, <3>3 DEF LinkInv
  <2>7. InOrder(x, stream.at, socket.request.method, session.epoch)
    <3>1. InOrder(w, stream.at, socket.request.method, session.epoch)
      BY DEF StreamInv, WireInv
    <3>2. stream.at = "resume" => \E k \in DOMAIN w : w[k].kind = "resumed"
      BY <1>11 DEF StreamInv, LinkInv
    <3>3. socket.request.method = "none" \/ \A i \in DOMAIN w : w[i].kind # "missed"
      BY <3>1 DEF InOrder
    <3> HIDE DEF w, x
    <3> QED BY <1>1, <2>1, <3>1, <3>2, <3>3, OrderGrows DEF Kinds
  <2>8. WireInv'
    <3>1. w # <<>> /\ w[1].kind = "ready" => x # <<>> /\ x[1].kind = "ready"
      <4>1. w # <<>> => 1 \in DOMAIN w
        BY <2>1, TailSeq DEF IsWire
      <4>2. x # <<>>
        BY <2>5
      <4> QED BY <2>2, <4>1, <4>2
    <3> QED BY <1>2, <1>6, <2>1, <2>7, <3>1 DEF StreamInv, WireInv, Linked
  <2>9. LiveInv'
    <3>1. LiveIn(w, log, Mark, applied)
      BY DEF StreamInv, LiveInv
    <3>2. \A k \in DOMAIN applied : applied[k] \in Nat /\ applied[k] <= Len(log)
      BY DEF StreamInv, AppliedInv, Ordered
    <3>3. LiveIn(Append(w, f), Append(log, f), Mark, applied)
      <4> HIDE DEF w
      <4> QED BY <1>1, <1>3, <1>7, <2>1, <3>1, <3>2, SaysFrame
    <3> QED BY <1>2, <1>7, <2>1, <3>3 DEF LiveInv
  <2>10. MissedInv'
    <3>1. MissedIn(w, log, Mark, stream.buffer)
      BY DEF StreamInv, MissedInv
    <3>2. MissedIn(Append(w, f), Append(log, f), Mark, stream.buffer)
      <4> HIDE DEF w
      <4> QED BY <1>1, <1>3, <2>1, <3>1, MissedFrame
    <3> QED BY <1>2, <1>7, <2>1, <3>2 DEF MissedInv
  <2>11. BufferInv'
    <3>1. BufferIn(stream.buffer, w, log, Mark, applied)
      BY DEF StreamInv, BufferInv
    <3>2. BufferIn(stream.buffer, Append(w, f), log', Mark, applied)
      <4> HIDE DEF w
      <4> QED BY <1>1, <1>4, <2>1, <3>1, BufferWaits DEF Kinds
    <3> QED BY <1>2, <1>7, <2>1, <3>2 DEF BufferInv
  <2>12. PromptInv'
    <3>1. LiveComes'
      BY <2>5 DEF LiveComes
    <3> QED BY <3>1 DEF PromptInv
  <2> QED BY <1>4, <1>6, <1>7, <1>9, <2>4, <2>6, <2>8, <2>9, <2>10, <2>11, <2>12 DEF StreamInv
<1> QED BY <1>10, <1>11

\* Only the session changes, and nothing blocks its turn.
LEMMA SessionKeeps ==
  ASSUME StreamInv, SessionInv', session'.blocked = 0, session'.epoch = session.epoch,
         UNCHANGED <<log, socket, stream, replay, trans, chat, applied, drops>>
  PROVE  StreamInv'
<1>1. Mark' = Mark
  BY DEF Mark
<1>2. SocketInv' /\ PlaceInv' /\ ViewInv' /\ LinkInv' /\ WireInv' /\ QuietInv'
      /\ (drops \in 0..MaxDrops)' /\ IsLog(log)'
  BY DEF StreamInv, SocketInv, PlaceInv, ViewInv, LinkInv, WireInv, QuietInv, Linked
<1>3. MarkInv' /\ AppliedInv'
  BY <1>1 DEF StreamInv, MarkInv, AppliedInv
<1>4. LiveInv' /\ MissedInv' /\ BufferInv'
  BY <1>1 DEF StreamInv, LiveInv, MissedInv, BufferInv
<1>5. BlockedInv' /\ PromptInv'
  BY DEF BlockedInv, PromptInv
<1> QED BY <1>2, <1>3, <1>4, <1>5 DEF StreamInv

LEMMA PromptAnsweredKeeps == StreamInv /\ PromptAnswered => StreamInv'
<1> SUFFICES ASSUME StreamInv, PromptAnswered PROVE StreamInv'
  OBVIOUS
<1>1. SessionInv' /\ session'.blocked = 0 /\ session'.epoch = session.epoch
  BY SeqShape DEF PromptAnswered, StreamInv, SessionInv, IsLog
<1> QED BY <1>1, SessionKeeps DEF PromptAnswered

LEMMA StartsTurnIs ==
  ASSUME StreamInv, ~session.running, session.turn < MaxTurns, session' = StartsTurn,
         UNCHANGED log
  PROVE  SessionInv' /\ session'.blocked = 0 /\ session'.epoch = session.epoch
<1>1. session.blocked = 0
  BY DEF StreamInv, BlockedInv
<1>2. SessionInv
  BY DEF StreamInv
<1>3. session.turn + 1 \in 0..MaxTurns
  BY <1>2, StreamConstants DEF SessionInv
<1> QED BY <1>1, <1>2, <1>3 DEF SessionInv, StartsTurn

LEMMA ForeignTurnKeeps == StreamInv /\ ForeignTurn => StreamInv'
<1> SUFFICES ASSUME StreamInv, ForeignTurn PROVE StreamInv'
  OBVIOUS
<1> QED BY StartsTurnIs, SessionKeeps DEF ForeignTurn

\* Nothing is on the line.
LEMMA Unlinked ==
  ASSUME StreamInv, ~Linked
  PROVE  /\ socket.wire = <<>> /\ ~socket.bound /\ stream.buffer = <<>>
         /\ DOMAIN socket.wire = {}
         /\ socket.request.method \in {"none", "prompt.submit"}
         /\ \A ring, mark, done, at, method, epoch :
              /\ LiveIn(socket.wire, ring, mark, done)
              /\ MissedIn(socket.wire, ring, mark, stream.buffer)
              /\ BufferIn(stream.buffer, socket.wire, ring, mark, done)
              /\ InOrder(socket.wire, at, method, epoch)
<1>1. socket.wire = <<>> /\ ~socket.bound /\ stream.buffer = <<>>
      /\ socket.request.method \in {"none", "prompt.submit"}
  BY DEF StreamInv, LinkInv, Linked
<1> QED BY <1>1, NothingOnWire, NothingWaits

LEMMA RestartKeeps == StreamInv /\ Restart => StreamInv'
<1> SUFFICES ASSUME StreamInv, Restart PROVE StreamInv'
  OBVIOUS
<1>1. ~Linked
  BY DEF Restart, Linked
<1>2. UNCHANGED <<socket, stream, replay, trans, chat, drops>> /\ log' = <<>> /\ applied' = <<>>
  BY DEF Restart
<1>3. IsLog(log') /\ Len(log') = 0 /\ IsSeq(applied')
  <2>1. IsSeq(log') /\ IsSeq(applied') /\ DOMAIN log' = {} /\ Len(log') = 0
    BY <1>2, NoSeq
  <2> QED BY <2>1 DEF IsLog
<1>4. SessionInv' /\ session'.blocked = 0 /\ session'.epoch = session.epoch + 1
  <2>1. SessionInv
    BY DEF StreamInv
  <2>2. session.epoch + 1 \in 1..MaxEpochs
    BY <2>1, StreamConstants DEF SessionInv, Restart
  <2>3. 0 \in 0..Len(log')
    BY <1>3
  <2> DEFINE e == session.epoch + 1
  <2>4. session' = [session EXCEPT !.epoch = e, !.running = FALSE, !.failed = FALSE, !.blocked = 0]
    BY <2>1 DEF Restart, SessionInv
  <2>5. e \in 1..MaxEpochs
    BY <2>2
  <2>6. session'.epoch = e
    BY <2>1, <2>4 DEF SessionInv
  <2> HIDE DEF e
  <2>7. SessionInv' /\ session'.blocked = 0
    BY <2>1, <2>3, <2>4, <2>5 DEF SessionInv
  <2> QED BY <2>6, <2>7 DEF e
<1>5. Mark' = 0 /\ MarkInv'
  <2>1. MarkInv /\ session.epoch \in Nat
    BY DEF StreamInv, SessionInv
  <2>2. Mark' = 0
    BY <1>2, <1>4, <2>1 DEF MarkInv, Mark
  <2> QED BY <1>2, <1>3, <1>4, <2>1, <2>2 DEF MarkInv
<1>6. AppliedInv'
  <2>1. DOMAIN applied' = {}
    BY <1>2
  <2> QED BY <1>3, <2>1 DEF AppliedInv, Ordered
<1>7. LiveInv' /\ MissedInv' /\ BufferInv'
  BY <1>1, <1>2, Unlinked DEF LiveInv, MissedInv, BufferInv
<1>8. SocketInv' /\ PlaceInv' /\ ViewInv' /\ LinkInv' /\ QuietInv' /\ (drops \in 0..MaxDrops)'
  BY <1>2 DEF StreamInv, SocketInv, PlaceInv, ViewInv, LinkInv, QuietInv, Linked
<1>9. WireInv'
  BY <1>1, <1>2, Unlinked DEF WireInv, Linked
<1>10. BlockedInv' /\ PromptInv'
  BY <1>4 DEF BlockedInv, PromptInv
<1> QED BY <1>3, <1>4, <1>5, <1>6, <1>7, <1>8, <1>9, <1>10 DEF StreamInv

\* The answer to a submit needs no socket, and says nothing then.
LEMMA SubmitDone ==
  ASSUME StreamInv, socket.request.method = "prompt.submit",
         socket' = [socket EXCEPT !.request = NoRequest],
         UNCHANGED <<log, stream, replay, trans, chat, applied, drops>>,
         \/ UNCHANGED session /\ ~socket.bound
         \/ SessionInv' /\ session'.blocked = 0 /\ session'.epoch = session.epoch
  PROVE  StreamInv'
<1>1. /\ {"bound", "wire", "request"} \subseteq DOMAIN socket'
      /\ socket'.bound = socket.bound /\ socket'.wire = socket.wire
      /\ socket'.request = NoRequest
  BY DEF StreamInv, SocketInv
<1>2. SessionInv' /\ session'.epoch = session.epoch
  BY DEF StreamInv, SessionInv
<1>3. Mark' = Mark /\ MarkInv' /\ AppliedInv'
  <2>1. Mark' = Mark
    BY <1>2 DEF Mark
  <2> QED BY <1>2, <2>1 DEF StreamInv, MarkInv, AppliedInv
<1>4. LiveInv' /\ MissedInv' /\ BufferInv'
  BY <1>1, <1>3 DEF StreamInv, LiveInv, MissedInv, BufferInv
<1>5. stream.at \notin {"resume", "replay"} /\ (stream.at = "pump" => socket.bound)
  BY DEF StreamInv, LinkInv
<1>6. SocketInv'
  BY <1>1 DEF StreamInv, SocketInv, NoRequest, Methods
<1>7. PlaceInv' /\ ViewInv' /\ QuietInv' /\ (drops \in 0..MaxDrops)' /\ IsLog(log)'
  BY DEF StreamInv, PlaceInv, ViewInv, QuietInv
<1>8. LinkInv'
  <2>1. socket'.request.method = "none"
    BY <1>1 DEF NoRequest
  <2> QED BY <1>1, <1>5, <2>1 DEF StreamInv, LinkInv, Linked
<1>9. WireInv'
  <2>1. InOrder(socket'.wire, stream'.at, socket'.request.method, session'.epoch)
    BY <1>1, <1>2, <1>5 DEF StreamInv, WireInv, InOrder
  <2> QED BY <1>1, <1>2, <2>1 DEF StreamInv, WireInv, Linked
<1>10. BlockedInv' /\ PromptInv'
  <2>1. CASE session'.blocked = 0
    BY <2>1 DEF BlockedInv, PromptInv
  <2>2. CASE UNCHANGED session /\ ~socket.bound
    <3>1. BlockedInv'
      BY <2>2 DEF StreamInv, BlockedInv
    <3>2. stream.at \notin {"replay", "pump"}
      BY <2>2 DEF StreamInv, LinkInv
    <3>3. \A i \in DOMAIN socket.wire : socket.wire[i].kind # "resumed"
      BY <2>2 DEF StreamInv, LinkInv
    <3> QED BY <1>1, <3>1, <3>2, <3>3 DEF PromptInv
  <2> QED BY <2>1, <2>2
<1> QED BY <1>2, <1>3, <1>4, <1>6, <1>7, <1>8, <1>9, <1>10 DEF StreamInv

LEMMA RequestLostKeeps == StreamInv /\ RequestLost => StreamInv'
<1> SUFFICES ASSUME StreamInv, RequestLost PROVE StreamInv'
  OBVIOUS
<1> QED BY SubmitDone DEF RequestLost

\* The gateway answers on the socket of a stream.
LEMMA SaysKeeps ==
  ASSUME StreamInv, Linked,
         UNCHANGED <<log, session, stream, replay, trans, chat, applied>>,
         (drops \in 0..MaxDrops)',
         {"bound", "wire", "request"} \subseteq DOMAIN socket', socket'.request = NoRequest,
         socket'.bound \in BOOLEAN,
         NEW m, m.kind \in {"resumed", "missed", "refused"},
         socket'.wire = Append(socket.wire, m),
         IF m.kind = "resumed" THEN socket'.bound ELSE socket'.bound = socket.bound,
         stream.at = "pump" => m.kind = "refused",
         m.kind = "resumed" =>
           stream.at = "resume" /\ ~socket.bound /\ m.prompt = session.blocked,
         m.kind = "missed" =>
           /\ stream.at = "replay" /\ socket.request.method # "none" /\ IsSeq(m.frames)
           /\ \A a \in DOMAIN m.frames : Numbered(m.frames[a], log)
           /\ \A a, b \in DOMAIN m.frames : a < b => m.frames[a].seq < m.frames[b].seq
  PROVE  StreamInv'
<1> DEFINE w == socket.wire
           x == socket'.wire
<1>1. IsWire(w) /\ m.kind \in Kinds \ {"ready"} /\ m.kind \in Kinds /\ m.kind # "frame"
  BY DEF StreamInv, SocketInv, Kinds
<1>2. /\ IsWire(x) /\ DOMAIN x = 1..(Len(w) + 1) /\ x[Len(w) + 1] = m
      /\ Len(w) + 1 \in DOMAIN x
      /\ \A i \in DOMAIN w : x[i] = w[i] /\ i \in DOMAIN x
      /\ \A i \in DOMAIN x : i \in DOMAIN w \/ i = Len(w) + 1
      /\ Len(w) \in Nat /\ DOMAIN w = 1..Len(w)
  BY <1>1, WireGrows
<1>3. Mark' = Mark /\ MarkInv' /\ AppliedInv' /\ SessionInv' /\ IsLog(log)'
  <2>1. Mark' = Mark
    BY DEF Mark
  <2> QED BY <2>1 DEF StreamInv, MarkInv, AppliedInv, SessionInv, IsLog
<1>4. SocketInv'
  BY <1>2 DEF SocketInv, NoRequest, Methods
<1>5. PlaceInv' /\ ViewInv' /\ QuietInv' /\ BlockedInv'
  BY DEF StreamInv, PlaceInv, ViewInv, QuietInv, BlockedInv
<1>6. socket'.request.method = "none"
  BY DEF NoRequest
<1>7. InOrder(w, stream.at, socket.request.method, session.epoch)
  BY DEF StreamInv, WireInv
<1>8. InOrder(x, stream.at, "none", session.epoch)
  <2>1. m.kind = "resumed" => stream.at = "resume" /\ \A i \in DOMAIN w : w[i].kind # "resumed"
    BY NothingLive
  <2>2. m.kind = "missed" => stream.at = "replay" /\ \A i \in DOMAIN w : w[i].kind # "missed"
    BY <1>7 DEF InOrder
  <2> HIDE DEF w
  <2>3. InOrder(Append(w, m), stream.at, "none", session.epoch)
    BY <1>1, <1>7, <2>1, <2>2, OrderGrows
  <2> QED BY <2>3 DEF w
<1>9. WireInv'
  <2>1. w # <<>> /\ w[1].kind = "ready" => x # <<>> /\ x[1].kind = "ready"
    <3>1. w # <<>> => 1 \in DOMAIN w
      BY <1>1, TailSeq DEF IsWire
    <3>2. x # <<>>
      BY <1>2
    <3> QED BY <1>2, <3>1, <3>2
  <2> QED BY <1>6, <1>8, <2>1 DEF StreamInv, WireInv, Linked
<1>10. LinkInv'
  <2>1. LinkInv /\ Linked'
    BY DEF StreamInv, Linked
  <2>2. stream.at = "resume" /\ socket'.bound => \E k \in DOMAIN x : x[k].kind = "resumed"
    <3>1. stream.at = "resume" /\ socket.bound => \E k \in DOMAIN w : w[k].kind = "resumed"
      BY <2>1 DEF LinkInv
    <3> QED BY <1>2, <3>1
  <2>3. ~socket'.bound => \A i \in DOMAIN x : x[i].kind \in {"ready", "refused"}
    <3>1. ~socket.bound => \A i \in DOMAIN w : w[i].kind \in {"ready", "refused"}
      BY <2>1 DEF LinkInv
    <3>2. ~socket'.bound => ~socket.bound /\ m.kind = "refused"
      BY <2>1 DEF LinkInv
    <3> QED BY <1>2, <3>1, <3>2
  <2>4. stream.at \in {"replay", "pump"} => socket'.bound
    BY <2>1 DEF LinkInv
  <2> QED BY <1>6, <2>1, <2>2, <2>3, <2>4 DEF LinkInv
<1>11. LiveInv'
  <2>1. LiveIn(w, log, Mark, applied)
    BY DEF StreamInv, LiveInv
  <2> HIDE DEF w
  <2>2. LiveIn(Append(w, m), log, Mark, applied)
    BY <1>1, <2>1, SaysOther
  <2> QED BY <1>3, <2>2 DEF LiveInv, w
<1>12. BufferInv'
  <2>1. BufferIn(stream.buffer, w, log, Mark, applied)
    BY DEF StreamInv, BufferInv
  <2> HIDE DEF w
  <2>2. BufferIn(stream.buffer, Append(w, m), log, Mark, applied)
    BY <1>1, <2>1, BufferWaits
  <2> QED BY <1>3, <2>2 DEF BufferInv, w
<1>13. MissedInv'
  <2>1. MissedIn(w, log, Mark, stream.buffer) /\ LiveIn(w, log, Mark, applied)
        /\ BufferIn(stream.buffer, w, log, Mark, applied)
    BY DEF StreamInv, MissedInv, LiveInv, BufferInv
  <2>2. m.kind = "missed" => \A i \in DOMAIN w : w[i].kind # "missed"
    BY <1>7 DEF InOrder
  <2> HIDE DEF w
  <2>3. MissedIn(Append(w, m), log, Mark, stream.buffer)
    <3>1. CASE m.kind = "missed"
      BY <1>1, <2>1, <2>2, <3>1, MissedSaid
    <3>2. CASE m.kind # "missed"
      BY <1>1, <2>1, <3>2, MissedOther
    <3> QED BY <3>1, <3>2
  <2> QED BY <1>3, <2>3 DEF MissedInv, w
<1>14. PromptInv'
  <2>1. LiveComes => LiveComes'
    BY <1>2 DEF LiveComes, Live
  <2>2. ASSUME session.blocked # 0, NEW i \in DOMAIN x, x[i].kind = "resumed"
        PROVE  x[i].prompt = session.blocked \/ LiveComes'
    <3>1. i \in DOMAIN w => w[i].prompt = session.blocked \/ LiveComes
      BY <1>2, <2>2 DEF StreamInv, PromptInv
    <3> QED BY <1>2, <2>1, <2>2, <3>1
  <2>3. stream.at = "replay" /\ session.blocked # 0 =>
          stream.prompt = session.blocked \/ stream.buffer # <<>> \/ LiveComes'
    BY <2>1 DEF StreamInv, PromptInv
  <2>4. stream.at = "pump" => \E j \in DOMAIN x : x[j].kind = "refused"
    BY <1>2
  <2> QED BY <2>2, <2>3, <2>4 DEF PromptInv
<1> QED BY <1>3, <1>4, <1>5, <1>9, <1>10, <1>11, <1>12, <1>13, <1>14 DEF StreamInv

\* What the gateway has numbered after a watermark.
LEMMA AfterMark ==
  ASSUME NEW ring, IsLog(ring), NEW from \in Nat, NEW after,
         after = SubSeq(ring, from + 1, Len(ring))
  PROVE  /\ IsSeq(after)
         /\ \A i \in DOMAIN after : Numbered(after[i], ring)
         /\ \A i, j \in DOMAIN after : i < j => after[i].seq < after[j].seq
         /\ \A i \in DOMAIN after : from < after[i].seq
<1>1. PICK S : ring \in Seq(S)
  BY DEF IsLog, IsSeq
<1>2. Len(ring) \in Nat /\ DOMAIN ring = 1..Len(ring)
  BY SeqShape DEF IsLog
<1> DEFINE n == IF from + 1 <= Len(ring) THEN Len(ring) - from ELSE 0
<1>3. /\ DOMAIN after = 1..n
      /\ \A i \in 1..n : after[i] = ring[from + i] /\ from + i \in DOMAIN ring
      /\ IsSeq(after)
  <2>1. after \in Seq(S)
    BY <1>1, <1>2
  <2>2. Len(after) = n /\ \A i \in 1..n : after[i] = ring[from + i]
    BY <1>1, <1>2
  <2>3. DOMAIN after = 1..n
    BY <2>1, <2>2
  <2>4. IsSeq(after)
    BY <2>1, SeqIs
  <2>5. \A i \in 1..n : from + i \in 1..Len(ring)
    BY <1>2
  <2> HIDE DEF n
  <2> QED BY <1>2, <2>2, <2>3, <2>4, <2>5
<1>4. n \in Nat
  BY <1>2
<1> HIDE DEF n
<1>5. ASSUME NEW i \in DOMAIN after PROVE after[i].seq = from + i /\ after[i].kind = "frame"
  <2>1. after[i] = ring[from + i] /\ from + i \in DOMAIN ring
    BY <1>3
  <2> QED BY <2>1 DEF IsLog
<1>6. \A i \in DOMAIN after : Numbered(after[i], ring)
  BY <1>2, <1>3, <1>5 DEF Numbered
<1>7. \A i, j \in DOMAIN after : i < j => after[i].seq < after[j].seq
  BY <1>3, <1>4, <1>5
<1>8. \A i \in DOMAIN after : from < after[i].seq
  BY <1>3, <1>4, <1>5
<1> QED BY <1>3, <1>6, <1>7, <1>8

\* The records among the frames after a watermark, too.
LEMMA RecordsAfter ==
  ASSUME NEW frames, NEW ring, IsSeq(frames),
         \A i \in DOMAIN frames : Numbered(frames[i], ring),
         \A i, j \in DOMAIN frames : i < j => frames[i].seq < frames[j].seq,
         NEW I
  PROVE  /\ IsSeq(Picked(frames, I))
         /\ \A a \in DOMAIN Picked(frames, I) : Numbered(Picked(frames, I)[a], ring)
         /\ \A a, b \in DOMAIN Picked(frames, I) :
              a < b => Picked(frames, I)[a].seq < Picked(frames, I)[b].seq
<1>1. /\ IsSeq(Picked(frames, I))
      /\ \A a \in DOMAIN Picked(frames, I) :
           \E i \in DOMAIN frames : i \in I /\ Picked(frames, I)[a] = frames[i]
      /\ \A a, b \in DOMAIN Picked(frames, I) : a < b =>
           \E i, j \in DOMAIN frames :
             i < j /\ Picked(frames, I)[a] = frames[i] /\ Picked(frames, I)[b] = frames[j]
  BY PickedFrom
<1> DEFINE p == Picked(frames, I)
<1> HIDE DEF p
<1>2. \A a \in DOMAIN p : Numbered(p[a], ring)
  BY <1>1 DEF p
<1>3. ASSUME NEW a \in DOMAIN p, NEW b \in DOMAIN p, a < b PROVE p[a].seq < p[b].seq
  BY <1>1, <1>3 DEF p
<1> QED BY <1>1, <1>2, <1>3 DEF p

LEMMA AnswersResumeKeeps ==
  ASSUME StreamInv, AnswersResume, UNCHANGED <<log, stream, replay, trans, chat, applied>>
  PROVE  StreamInv'
<1>1. stream.at = "resume" /\ ~socket.bound /\ Linked /\ UNCHANGED session
  BY DEF AnswersResume, StreamInv, LinkInv, Linked, PlaceInv, Places
<1>2. {"bound", "wire", "request"} \subseteq DOMAIN socket /\ drops \in 0..MaxDrops
  BY DEF StreamInv, SocketInv
<1>3. ASSUME NEW text, UNCHANGED drops,
             socket' = [bound |-> TRUE, request |-> NoRequest,
                        wire |-> Append(socket.wire,
                          [kind |-> "resumed", running |-> session.running,
                           failed |-> session.failed, text |-> text,
                           prompt |-> session.blocked, at |-> Len(log)])]
      PROVE  StreamInv'
  <2>0. PICK m : m = [kind |-> "resumed", running |-> session.running, failed |-> session.failed,
                      text |-> text, prompt |-> session.blocked, at |-> Len(log)]
    OBVIOUS
  <2>1. m.kind = "resumed" /\ m.prompt = session.blocked
    BY <2>0
  <2>2. socket' = [bound |-> TRUE, request |-> NoRequest, wire |-> Append(socket.wire, m)]
    BY <1>3, <2>0
  <2>3. /\ {"bound", "wire", "request"} \subseteq DOMAIN socket' /\ socket'.request = NoRequest
        /\ socket'.bound \in BOOLEAN /\ socket'.bound /\ socket'.wire = Append(socket.wire, m)
    BY <2>2
  <2>4. (drops \in 0..MaxDrops)'
    BY <1>2, <1>3
  <2>5. UNCHANGED <<log, session, stream, replay, trans, chat, applied>>
    BY <1>1
  <2>6. IF m.kind = "resumed" THEN socket'.bound ELSE socket'.bound = socket.bound
    BY <2>1, <2>3
  <2>7. m.kind = "missed" =>
          /\ stream.at = "replay" /\ socket.request.method # "none" /\ IsSeq(m.frames)
          /\ \A a \in DOMAIN m.frames : Numbered(m.frames[a], log)
          /\ \A a, b \in DOMAIN m.frames : a < b => m.frames[a].seq < m.frames[b].seq
    BY <2>1
  <2>8. m.kind = "resumed" =>
          stream.at = "resume" /\ ~socket.bound /\ m.prompt = session.blocked
    BY <1>1, <2>1
  <2>9. stream.at = "pump" => m.kind = "refused"
    BY <1>1
  <2>10. socket'.bound \in BOOLEAN /\ socket'.wire = Append(socket.wire, m) /\ Linked
    BY <1>1, <2>3
  <2>11. m.kind \in {"resumed", "missed", "refused"}
    BY <2>1
  <2>12. {"bound", "wire", "request"} \subseteq DOMAIN socket' /\ socket'.request = NoRequest
    BY <2>3
  <2> QED BY <2>12, <2>4, <2>5, <2>6, <2>7, <2>8, <2>9, <2>10, <2>11, SaysKeeps
<1>4. ASSUME Drop, NEW notFound, Says(Refusal(notFound)) PROVE StreamInv'
  <2> DEFINE m == Refusal(notFound)
  <2>1. m.kind = "refused"
    BY DEF Refusal
  <2> HIDE DEF m
  <2>2. /\ {"bound", "wire", "request"} \subseteq DOMAIN socket' /\ socket'.request = NoRequest
        /\ socket'.bound = socket.bound /\ socket'.wire = Append(socket.wire, m)
    BY <1>2, <1>4 DEF Says, m
  <2>3. (drops \in 0..MaxDrops)'
    BY <1>2, <1>4, StreamConstants DEF Drop
  <2>4. socket'.bound \in BOOLEAN
    BY <2>2 DEF StreamInv, SocketInv
  <2> QED BY <1>1, <2>1, <2>2, <2>3, <2>4, SaysKeeps
<1> QED BY <1>3, <1>4 DEF AnswersResume

LEMMA AnswersMissedKeeps ==
  ASSUME StreamInv, AnswersMissed, UNCHANGED <<log, stream, replay, trans, chat, applied>>
  PROVE  StreamInv'
<1>1. /\ stream.at = "replay" /\ Linked /\ UNCHANGED <<session, drops>>
      /\ socket.request.method = "session.events.since" /\ socket.request.from \in Nat
      /\ {"bound", "wire", "request"} \subseteq DOMAIN socket /\ socket.bound \in BOOLEAN
      /\ drops \in 0..MaxDrops /\ IsLog(log)
  BY DEF AnswersMissed, StreamInv, LinkInv, Linked, PlaceInv, Places, SocketInv
<1> DEFINE after == SubSeq(log, socket.request.from + 1, Len(log))
           I == {i \in DOMAIN after : after[i].type \in Durable}
           found == Picked(after, I)
<1>2. /\ IsSeq(after)
      /\ \A i \in DOMAIN after : Numbered(after[i], log)
      /\ \A i, j \in DOMAIN after : i < j => after[i].seq < after[j].seq
  BY <1>1, AfterMark
<1>3. DurableOf(after) = found
  BY DEF DurableOf
<1> HIDE DEF after, I
<1>4. /\ IsSeq(found)
      /\ \A a \in DOMAIN found : Numbered(found[a], log)
      /\ \A a, b \in DOMAIN found : a < b => found[a].seq < found[b].seq
  BY <1>2, RecordsAfter
<1> HIDE DEF found
<1>5. ASSUME NEW frames, IsSeq(frames), \A a \in DOMAIN frames : Numbered(frames[a], log),
             \A a, b \in DOMAIN frames : a < b => frames[a].seq < frames[b].seq,
             Says([kind |-> "missed", frames |-> frames])
      PROVE  StreamInv'
  <2> DEFINE m == [kind |-> "missed", frames |-> frames]
  <2>1. m.kind = "missed" /\ m.frames = frames
    OBVIOUS
  <2>2. Says(m)
    BY <1>5
  <2> HIDE DEF m
  <2>3. /\ {"bound", "wire", "request"} \subseteq DOMAIN socket' /\ socket'.request = NoRequest
        /\ socket'.bound = socket.bound /\ socket'.wire = Append(socket.wire, m)
    BY <1>1, <2>2 DEF Says
  <2> QED BY <1>1, <1>5, <2>1, <2>3, SaysKeeps
<1>6. \/ Says([kind |-> "missed", frames |-> found])
      \/ Says([kind |-> "missed", frames |-> <<>>])
  BY <1>3 DEF AnswersMissed, after
<1>7. IsSeq(<<>>) /\ DOMAIN <<>> = {}
  BY NoSeq
<1>8. CASE Says([kind |-> "missed", frames |-> <<>>])
  <2> DEFINE none == <<>>
  <2>1. IsSeq(none) /\ DOMAIN none = {} /\ Says([kind |-> "missed", frames |-> none])
    BY <1>7, <1>8
  <2> HIDE DEF none
  <2> QED BY <1>5, <2>1
<1> QED BY <1>4, <1>5, <1>6, <1>8

LEMMA AnswersSubmitKeeps ==
  ASSUME StreamInv, AnswersSubmit, UNCHANGED <<log, stream, replay, trans, chat, applied>>
  PROVE  StreamInv'
<1>1. /\ socket.request.method = "prompt.submit" /\ UNCHANGED drops
      /\ {"bound", "wire", "request"} \subseteq DOMAIN socket /\ socket.bound \in BOOLEAN
      /\ drops \in 0..MaxDrops
  BY DEF AnswersSubmit, StreamInv, SocketInv
<1>2. CASE socket.bound /\ Says(Refusal(FALSE)) /\ UNCHANGED session
  <2> DEFINE m == Refusal(FALSE)
  <2>1. m.kind = "refused"
    BY DEF Refusal
  <2>2. Linked
    BY <1>2 DEF StreamInv, LinkInv
  <2> HIDE DEF m
  <2>3. /\ {"bound", "wire", "request"} \subseteq DOMAIN socket' /\ socket'.request = NoRequest
        /\ socket'.bound = socket.bound /\ socket'.wire = Append(socket.wire, m)
    BY <1>1, <1>2 DEF Says, m
  <2> QED BY <1>1, <1>2, <2>1, <2>2, <2>3, SaysKeeps
<1>3. CASE ~socket.bound /\ socket' = [socket EXCEPT !.request = NoRequest] /\ UNCHANGED session
  BY <1>1, <1>3, SubmitDone
<1>4. CASE /\ ~session.running /\ session.turn # MaxTurns /\ session' = StartsTurn
           /\ socket' = [socket EXCEPT !.request = NoRequest]
  <2>1. session.turn < MaxTurns
    BY <1>4, StreamConstants DEF StreamInv, SessionInv
  <2> QED BY <1>1, <1>4, <2>1, StartsTurnIs, SubmitDone
<1> QED BY <1>2, <1>3, <1>4 DEF AnswersSubmit

LEMMA AnswerKeeps == StreamInv /\ Answer => StreamInv'
  BY AnswersResumeKeeps, AnswersMissedKeeps, AnswersSubmitKeeps DEF Answer

----------------------------------------------------------------------------
(* The client's steps.                                                     *)

LEMMA ErrorView ==
  ASSUME NEW v, IsView(v)
  PROVE  IsView([v EXCEPT !.chat = TransportError(v.chat)])
<1> DEFINE c == TransportError(v.chat)
<1>1. IsChat(c)
  BY DEF IsView, IsChat, TransportError
<1> HIDE DEF c
<1>2. IsView([v EXCEPT !.chat = c])
  BY <1>1 DEF IsView
<1> QED BY <1>2 DEF c

\* The stream ends, fails or is taken up again.
LEMMA EndsKeeps ==
  ASSUME StreamInv, UNCHANGED <<log, session>>, NEW v, IsView(v),
         Ends(v) \/ Fails(v) \/ Disconnected(v),
         (drops \in 0..MaxDrops)', MarkInv', AppliedInv'
  PROVE  StreamInv'
<1>1. {"at", "mode", "known", "attempts", "buffer", "prompt"} \subseteq DOMAIN stream
      /\ stream.mode \in {"turn", "reattach"} /\ stream.attempts \in 0..MaxReattach
  BY DEF StreamInv, PlaceInv
<1>2. ASSUME NEW u, IsView(u), Ends(u) PROVE StreamInv'
  <2>1. PlaceInv' /\ stream'.at = "settling" /\ stream'.buffer = <<>>
    BY <1>1, <1>2 DEF Ends, PlaceInv, Places
  <2>2. ViewInv'
    BY <1>2 DEF Ends, Show, ViewInv, IsView
  <2>3. socket' = Closed
    BY <1>2 DEF Ends
  <2> QED BY <2>1, <2>2, <2>3, Closes
<1>3. ASSUME Fails(v) PROVE StreamInv'
  <2> DEFINE u == [v EXCEPT !.chat = TransportError(v.chat)]
  <2>1. IsView(u) /\ Ends(u)
    BY <1>3, ErrorView DEF Fails
  <2> HIDE DEF u
  <2> QED BY <1>2, <2>1
<1>4. CASE MayReattach /\ Disconnected(v)
  <2>1. /\ stream' = [stream EXCEPT !.at = "delay", !.attempts = @ + 1, !.buffer = <<>>,
                                    !.prompt = 0]
        /\ socket' = Closed /\ Show(v) /\ stream.attempts < MaxReattach
    BY <1>4 DEF Disconnected, MayReattach
  <2>2. stream.attempts + 1 \in 0..MaxReattach
    BY <1>1, <2>1, StreamConstants
  <2>3. PlaceInv' /\ stream'.at = "delay" /\ stream'.buffer = <<>>
    <3> DEFINE n == stream.attempts + 1
    <3>1. stream' = [stream EXCEPT !.at = "delay", !.attempts = n, !.buffer = <<>>, !.prompt = 0]
      BY <2>1
    <3>2. n \in 0..MaxReattach
      BY <2>2
    <3> HIDE DEF n
    <3> QED BY <1>1, <3>1, <3>2 DEF PlaceInv, Places
  <2>4. ViewInv'
    BY <2>1 DEF Show, ViewInv, IsView
  <2> QED BY <2>1, <2>3, <2>4, Closes
<1>5. CASE ~MayReattach /\ Disconnected(v)
  BY <1>3, <1>5 DEF Disconnected
<1> QED BY <1>2, <1>3, <1>4, <1>5

\* Nothing is on the line, and nothing comes on it.
LEMMA StaysOff ==
  ASSUME StreamInv, ~Linked, PlaceInv', stream'.at \in {"idle", "dial", "settling", "delay"},
         stream'.buffer = <<>>, ViewInv', QuietInv',
         UNCHANGED <<log, session, socket, replay, applied, drops>>
  PROVE  StreamInv'
<1>1. Mark' = Mark
  BY DEF Mark
<1>2. SessionInv' /\ SocketInv' /\ BlockedInv' /\ (drops \in 0..MaxDrops)' /\ IsLog(log)'
  BY DEF StreamInv, SessionInv, SocketInv, BlockedInv
<1>3. MarkInv' /\ AppliedInv'
  BY <1>1 DEF StreamInv, MarkInv, AppliedInv
<1>4. LiveInv' /\ MissedInv' /\ BufferInv'
  BY <1>1, Unlinked DEF LiveInv, MissedInv, BufferInv
<1>5. LinkInv' /\ WireInv' /\ PromptInv'
  BY Unlinked DEF LinkInv, WireInv, PromptInv, Linked
<1> QED BY <1>2, <1>3, <1>4, <1>5 DEF StreamInv

LEMMA OpenKeeps == StreamInv /\ (Send \/ ResumeTurn) => StreamInv'
<1> SUFFICES ASSUME StreamInv, NEW mode \in {"turn", "reattach"}, Open(mode) PROVE StreamInv'
  BY DEF Send, ResumeTurn
<1>1. ~Linked
  BY DEF Open, Linked
<1>2. PlaceInv' /\ stream'.at = "dial" /\ stream'.buffer = <<>>
  BY StreamConstants DEF Open, PlaceInv, Places
<1>3. ViewInv' /\ QuietInv'
  BY <1>2 DEF Open, StreamInv, ViewInv, FreshRow, IsChat, QuietInv
<1> QED BY <1>1, <1>2, <1>3, StaysOff DEF Open

LEMMA ReattachKeeps == StreamInv /\ Reattach => StreamInv'
<1> SUFFICES ASSUME StreamInv, Reattach PROVE StreamInv'
  OBVIOUS
<1>1. ~Linked
  BY DEF Reattach, Linked
<1>2. PlaceInv' /\ stream'.at = "dial" /\ stream'.buffer = <<>>
  BY DEF Reattach, StreamInv, PlaceInv, Places, LinkInv
<1>3. ViewInv' /\ QuietInv'
  BY <1>2 DEF Reattach, StreamInv, ViewInv, QuietInv
<1> QED BY <1>1, <1>2, <1>3, StaysOff DEF Reattach

LEMMA SettleKeeps == StreamInv /\ Settle => StreamInv'
<1> SUFFICES ASSUME StreamInv, Settle PROVE StreamInv'
  OBVIOUS
<1>1. ~Linked
  BY DEF Settle, Linked
<1>2. PlaceInv' /\ stream'.at = "idle" /\ stream'.buffer = <<>>
  BY DEF Settle, StreamInv, PlaceInv, Places, LinkInv
<1>3. ASSUME NEW c, IsChat(c)
      PROVE  IsChat(Settled(c)) /\ Settled(c).prompt = 0 /\ Settled(c).status \in {"idle", "error"}
  BY <1>3 DEF IsChat, Settled
<1>4. IsChat(chat) /\ IsChat(TimelineReconciled(chat))
  BY DEF StreamInv, ViewInv, IsChat, TimelineReconciled
<1>5. IsChat(chat') /\ chat'.prompt = 0 /\ chat'.status \in {"idle", "error"}
  BY <1>3, <1>4 DEF Settle
<1>6. ViewInv' /\ QuietInv'
  BY <1>5 DEF Settle, ViewInv, QuietInv, IsTranslator, NewTranslator
<1> QED BY <1>1, <1>2, <1>6, StaysOff DEF Settle

LEMMA DialledKeeps == StreamInv /\ Dialled => StreamInv'
<1> SUFFICES ASSUME StreamInv, Dialled PROVE StreamInv'
  OBVIOUS
<1>1. ~Linked /\ Mark' = Mark
  BY DEF Dialled, Linked, Mark
<1>2. UNCHANGED <<log, session, replay, trans, chat, applied, drops>>
  BY DEF Dialled
<1> DEFINE hello == [kind |-> "ready", epoch |-> session.epoch]
<1>3. hello.kind = "ready" /\ hello.epoch = session.epoch
  OBVIOUS
<1>4. socket' = [bound |-> FALSE, wire |-> <<hello>>,
                 request |-> [method |-> "session.resume", from |-> 0]]
  BY DEF Dialled
<1> HIDE DEF hello
<1>5. /\ {"bound", "wire", "request"} \subseteq DOMAIN socket' /\ socket'.bound = FALSE
      /\ socket'.wire = <<hello>> /\ socket'.request.method = "session.resume"
      /\ socket'.request \in [method : Methods, from : Nat]
  BY <1>4 DEF Methods
<1>6. /\ IsSeq(socket'.wire) /\ DOMAIN socket'.wire = {1} /\ socket'.wire[1] = hello
      /\ socket'.wire # <<>>
  <2> DEFINE w == <<hello>>
  <2>1. w \in Seq({hello}) /\ Len(w) = 1 /\ w[1] = hello /\ w # <<>>
    OBVIOUS
  <2> HIDE DEF w
  <2>2. IsSeq(w) /\ DOMAIN w = {1}
    BY <2>1, SeqIs
  <2> QED BY <1>5, <2>1, <2>2 DEF w
<1>7. SocketInv'
  BY <1>3, <1>5, <1>6 DEF SocketInv, IsWire, Kinds
<1>8. PlaceInv' /\ stream'.at = "resume" /\ stream'.buffer = <<>>
  BY <1>1 DEF Dialled, StreamInv, PlaceInv, Places, LinkInv, Linked
<1>9. \A i \in DOMAIN socket'.wire : i = 1 /\ socket'.wire[i].kind = "ready"
                                     /\ ~Live(socket'.wire, i)
  BY <1>3, <1>6 DEF Live
<1>10. LinkInv'
  BY <1>5, <1>8, <1>9 DEF LinkInv, Linked
<1>11. WireInv'
  BY <1>2, <1>3, <1>5, <1>6, <1>8, <1>9 DEF WireInv, InOrder
<1>12. LiveInv' /\ MissedInv'
  BY <1>9 DEF LiveInv, LiveIn, MissedInv, MissedIn
<1>13. BufferInv'
  BY <1>8, NothingWaits DEF BufferInv
<1>14. IsLog(log)' /\ SessionInv' /\ ViewInv' /\ BlockedInv' /\ (drops \in 0..MaxDrops)'
  BY <1>2 DEF StreamInv, SessionInv, ViewInv, BlockedInv
<1>15. MarkInv' /\ AppliedInv'
  BY <1>1, <1>2 DEF StreamInv, MarkInv, AppliedInv
<1>16. PromptInv' /\ QuietInv'
  BY <1>8, <1>9 DEF PromptInv, QuietInv
<1> QED BY <1>7, <1>8, <1>10, <1>11, <1>12, <1>13, <1>14, <1>15, <1>16 DEF StreamInv

\* What is on the screen, and what the queue makes of it.
LEMMA CurrentView ==
  ASSUME StreamInv
  PROVE  IsView(View) /\ IsView(Started) /\ ~Started.trans.completed
<1>1. IsView(View)
  BY DEF StreamInv, ViewInv, View, IsView
<1> QED BY <1>1, StartView DEF Started

LEMMA NumberedType ==
  ASSUME NEW ring, IsLog(ring), NEW f, Numbered(f, ring) PROVE f.type \in FrameTypes
  BY SeqShape DEF Numbered, IsLog

LEMMA DrainedView ==
  ASSUME StreamInv PROVE IsView(Drained)
<1>1. IsView(View)
  BY CurrentView
<1> DEFINE none == <<>>
<1>2. IsSeq(none) /\ DOMAIN none = {}
  BY NoSeq
<1>3. IsView(FoldLeft(Translate, View, none))
  <2> HIDE DEF none
  <2> QED BY <1>1, <1>2, FramesTranslated
<1>4. IsView(Attached(none))
  <2> HIDE DEF none
  <2> QED BY <1>3, PendingReplayed DEF Attached
<1>5. IsSeq(stream.buffer) /\ \A i \in DOMAIN stream.buffer : stream.buffer[i].type \in FrameTypes
  BY NumberedType DEF StreamInv, BufferInv, BufferIn
<1>6. IsView(FoldLeft(Translate, Attached(none), stream.buffer))
  <2> HIDE DEF none
  <2> QED BY <1>4, <1>5, FramesTranslated
<1> QED BY <1>1, <1>6 DEF Drained

LEMMA DropCounts ==
  ASSUME drops \in 0..MaxDrops, Drop PROVE (drops \in 0..MaxDrops)'
  BY StreamConstants DEF Drop

LEMMA DialFailsKeeps == StreamInv /\ DialFails => StreamInv'
<1> SUFFICES ASSUME StreamInv, DialFails PROVE StreamInv'
  OBVIOUS
<1>1. Drop /\ UNCHANGED <<log, session, replay, applied>>
      /\ (Disconnected(View) \/ Fails(View))
  BY DEF DialFails
<1>2. (drops \in 0..MaxDrops)'
  BY <1>1, DropCounts DEF StreamInv
<1>3. MarkInv' /\ AppliedInv'
  BY <1>1 DEF StreamInv, MarkInv, AppliedInv, Mark
<1>4. PICK v : v = View
  OBVIOUS
<1>5. IsView(v) /\ (Disconnected(v) \/ Fails(v))
  BY <1>1, <1>4, CurrentView
<1> QED BY <1>1, <1>2, <1>3, <1>5, EndsKeeps

\* The queue is handed out before the end is reported.
LEMMA DrainsKeep ==
  ASSUME StreamInv, Drains
  PROVE  /\ (drops \in 0..MaxDrops)' /\ MarkInv' /\ AppliedInv' /\ UNCHANGED <<log, session>>
<1>1. Drop /\ UNCHANGED <<log, session, replay>> /\ applied' = applied \o DurableIn(stream.buffer)
  BY DEF Drains
<1>2. (drops \in 0..MaxDrops)'
  BY <1>1, DropCounts DEF StreamInv
<1>3. MarkInv'
  BY <1>1 DEF StreamInv, MarkInv, Mark
<1>4. AppliedInv'
  <2>1. PICK done : done = applied \o DurableIn(stream.buffer)
    OBVIOUS
  <2>2. /\ Ordered(done)
        /\ \A k \in DOMAIN done : /\ done[k] <= Len(log)
                                  /\ replay.epoch = session.epoch
                                  /\ replay.mark # 0 => done[k] <= replay.mark
    BY <2>1, QueueDrained
  <2>3. applied' = done
    BY <1>1, <2>1
  <2> QED BY <1>1, <2>2, <2>3 DEF AppliedInv
<1> QED BY <1>1, <1>2, <1>3, <1>4

LEMMA LoseKeeps == StreamInv /\ Lose => StreamInv'
<1> SUFFICES ASSUME StreamInv, Lose PROVE StreamInv'
  OBVIOUS
<1>1. (drops \in 0..MaxDrops)' /\ MarkInv' /\ AppliedInv' /\ UNCHANGED <<log, session>>
  BY DrainsKeep DEF Lose
<1>2. PICK v : v = Drained
  OBVIOUS
<1>3. IsView(v) /\ (Ends(v) \/ Disconnected(v))
  BY <1>2, DrainedView DEF Lose
<1> QED BY <1>1, <1>3, EndsKeeps

LEMMA CloseQueueKeeps == StreamInv /\ CloseQueue => StreamInv'
<1> SUFFICES ASSUME StreamInv, CloseQueue PROVE StreamInv'
  OBVIOUS
<1>1. (drops \in 0..MaxDrops)' /\ MarkInv' /\ AppliedInv' /\ UNCHANGED <<log, session>>
  BY DrainsKeep DEF CloseQueue
<1>2. IsView(View) /\ IsView(Finish(Drained, Drained.trans.content, FALSE))
  BY CurrentView, DrainedView, FinishedView
<1>3. PICK v : /\ IsView(v)
               /\ Disconnected(v) \/ Ends(v)
  <2>1. CASE Disconnected(View)
    <3>1. PICK v : v = View
      OBVIOUS
    <3> QED BY <1>2, <2>1, <3>1
  <2>2. CASE Ends(Finish(Drained, Drained.trans.content, FALSE))
    <3>1. PICK v : v = Finish(Drained, Drained.trans.content, FALSE)
      OBVIOUS
    <3> QED BY <1>2, <2>2, <3>1
  <2> QED BY <2>1, <2>2 DEF CloseQueue
<1> QED BY <1>1, <1>3, EndsKeeps

\* x is what follows the head of w.
Follows(x, w) ==
  /\ w # <<>> /\ 1 \in DOMAIN w /\ IsWire(w) /\ IsWire(x) /\ x = Tail(w)
  /\ \A i \in DOMAIN x : x[i] = w[i + 1] /\ i + 1 \in DOMAIN w /\ i + 1 > 1 /\ i \in Nat
  /\ \A i \in DOMAIN w : i = 1 \/ (i - 1 \in DOMAIN x /\ x[i - 1] = w[i])
  /\ (\E j \in DOMAIN w : j # 1 /\ Live(w, j)) => \E j \in DOMAIN x : Live(x, j)

\* The head of the wire, and the rest.
LEMMA Rest ==
  ASSUME StreamInv, NEW w, w = socket.wire, w # <<>>, NEW x, x = Tail(w)
  PROVE  Linked /\ Head(w) = w[1] /\ Follows(x, w)
<1>1. IsWire(w) /\ Linked
  BY DEF StreamInv, SocketInv, LinkInv
<1>2. /\ IsSeq(x) /\ DOMAIN x = 1..(Len(w) - 1)
      /\ \A i \in DOMAIN x : x[i] = w[i + 1] /\ i + 1 \in DOMAIN w
      /\ Head(w) = w[1] /\ 1 \in DOMAIN w
      /\ \A i \in DOMAIN w : i = 1 \/ (i - 1 \in DOMAIN x /\ x[i - 1] = w[i])
      /\ Len(w) \in Nat
  BY <1>1, TailSeq, SeqShape DEF IsWire
<1>3. \A i \in DOMAIN x : i + 1 > 1 /\ i \in Nat
  BY <1>2
<1>4. IsWire(x)
  BY <1>1, <1>2 DEF IsWire
<1>5. ASSUME NEW j \in DOMAIN w, j # 1, Live(w, j) PROVE \E i \in DOMAIN x : Live(x, i)
  <2>1. j - 1 \in DOMAIN x /\ x[j - 1] = w[j]
    BY <1>2, <1>5
  <2> QED BY <1>5, <2>1 DEF Live
<1>6. Follows(x, w)
  BY <1>1, <1>2, <1>3, <1>4, <1>5 DEF Follows
<1> QED BY <1>1, <1>2, <1>6

LEMMA ReadyKeeps ==
  ASSUME StreamInv, socket.wire # <<>>, socket.wire[1].kind = "ready",
         HandleReady(socket.wire[1]), UNCHANGED <<log, session, drops>>
  PROVE  StreamInv'
<1>1. PICK w : w = socket.wire
  OBVIOUS
<1>2. PICK x : x = Tail(w)
  OBVIOUS
<1>0. w # <<>> /\ w[1].kind = "ready"
  BY <1>1
<1>3. Linked /\ Follows(x, w)
  BY <1>0, <1>1, <1>2, Rest
<1>4. /\ InOrder(w, stream.at, socket.request.method, session.epoch)
      /\ LiveIn(w, log, Mark, applied) /\ MissedIn(w, log, Mark, stream.buffer)
  BY <1>1 DEF StreamInv, WireInv, LiveInv, MissedInv
<1>5. stream.at = "resume" /\ w[1].epoch = session.epoch /\ stream.buffer = <<>>
  <2>1. stream.at = "resume" /\ w[1].epoch = session.epoch
    BY <1>0, <1>3, <1>4 DEF InOrder, Follows
  <2> QED BY <2>1 DEF StreamInv, LinkInv
<1>6. replay' = [epoch |-> session.epoch, mark |-> Mark]
  BY <1>1, <1>5 DEF HandleReady, Adopt, Mark
<1>7. /\ socket'.bound = socket.bound /\ socket'.request = socket.request /\ socket'.wire = x
      /\ {"bound", "wire", "request"} \subseteq DOMAIN socket'
      /\ UNCHANGED <<stream, trans, chat, applied>>
  BY <1>1, <1>2 DEF HandleReady, StreamInv, SocketInv
<1>8. Mark' = Mark
  BY <1>6 DEF Mark
<1>9. MarkInv'
  <2>1. MarkInv /\ session.epoch \in 1..MaxEpochs
    BY DEF StreamInv, SessionInv
  <2>2. Mark \in Nat /\ Mark <= Len(log) /\ session.epoch \in 0..MaxEpochs
        /\ session.epoch # 0 /\ session.epoch <= session.epoch
    BY <2>1, StreamConstants DEF MarkInv, Mark
  <2> QED BY <1>6, <1>8, <2>2 DEF MarkInv
<1>10. AppliedInv'
  <2>1. AppliedInv
    BY DEF StreamInv
  <2>2. \A k \in DOMAIN applied : Mark = replay.mark
    BY <2>1 DEF AppliedInv, Mark
  <2> QED BY <1>6, <1>7, <2>1, <2>2 DEF AppliedInv
<1>11. SocketInv'
  BY <1>0, <1>3, <1>7 DEF StreamInv, SocketInv, Follows
<1>12. LinkInv'
  <2>1. socket.bound => \E k \in DOMAIN x : x[k].kind = "resumed"
    <3>1. socket.bound => \E k \in DOMAIN w : w[k].kind = "resumed"
      BY <1>1, <1>5 DEF StreamInv, LinkInv
    <3>2. ASSUME NEW k \in DOMAIN w, w[k].kind = "resumed" PROVE \E l \in DOMAIN x : x[l].kind = "resumed"
      <4>1. k # 1
        BY <1>0, <3>2
      <4>2. k - 1 \in DOMAIN x /\ x[k - 1] = w[k]
        BY <1>3, <4>1 DEF Follows
      <4> QED BY <3>2, <4>2
    <3> QED BY <3>1, <3>2
  <2>2. ~socket.bound => \A i \in DOMAIN x : x[i].kind \in {"ready", "refused"}
    BY <1>0, <1>1, <1>3 DEF StreamInv, LinkInv, Follows
  <2> QED BY <1>5, <1>7, <2>1, <2>2 DEF StreamInv, LinkInv, Linked
<1>13. WireInv'
  <2>1. InOrder(Tail(w), stream.at, socket.request.method, session.epoch)
    BY <1>0, <1>3, <1>4, OrderShifts DEF Follows
  <2> QED BY <1>2, <1>6, <1>7, <2>1 DEF WireInv
<1>14. LiveInv'
  <2>1. \A i \in DOMAIN w : i > 1 /\ Live(w, i) => Mark < w[i].seq /\ Newer(w[i].seq, applied)
    BY <1>4 DEF LiveIn
  <2>2. LiveIn(Tail(w), log, Mark, applied)
    BY <1>0, <1>3, <1>4, <2>1, LiveShifts DEF Follows
  <2> QED BY <1>2, <1>7, <1>8, <2>2 DEF LiveInv
<1>15. MissedInv'
  <2>1. MissedIn(Tail(w), log, Mark, stream.buffer)
    BY <1>0, <1>3, <1>4, MissedShifts DEF Follows
  <2> QED BY <1>2, <1>7, <1>8, <2>1 DEF MissedInv
<1>16. BufferInv'
  BY <1>5, <1>7, NothingWaits DEF BufferInv
<1>17. IsLog(log)' /\ SessionInv' /\ PlaceInv' /\ ViewInv' /\ BlockedInv' /\ QuietInv'
       /\ (drops \in 0..MaxDrops)'
  BY <1>7 DEF StreamInv, SessionInv, PlaceInv, ViewInv, BlockedInv, QuietInv
<1>18. PromptInv'
  <2>1. LiveComes => LiveComes'
    <3>1. ~Live(w, 1)
      BY <1>0, <1>3 DEF Live, Follows
    <3> QED BY <1>0, <1>1, <1>3, <1>7, <3>1 DEF LiveComes, Follows
  <2>2. ASSUME session.blocked # 0, NEW i \in DOMAIN x, x[i].kind = "resumed"
        PROVE  x[i].prompt = session.blocked \/ LiveComes'
    BY <1>0, <1>1, <1>3, <2>1, <2>2 DEF StreamInv, PromptInv, Follows
  <2> QED BY <1>5, <1>7, <2>2 DEF PromptInv
<1> QED BY <1>9, <1>10, <1>11, <1>12, <1>13, <1>14, <1>15, <1>16, <1>17, <1>18 DEF StreamInv

\* The watermark moves to a frame that arrives.
LEMMA FrameArrives ==
  ASSUME StreamInv, socket.wire # <<>>, socket.wire[1].kind = "frame", NEW m, m = socket.wire[1]
  PROVE  /\ stream.at \in {"replay", "pump"} /\ replay.epoch = session.epoch /\ Mark = replay.mark
         /\ Numbered(m, log) /\ m.seq \in Nat /\ m.seq # 0 /\ m.seq <= Len(log)
         /\ Mark < m.seq /\ Mark \in Nat /\ Newer(m.seq, applied) /\ Absorb(m.seq) = m.seq
         /\ m.seq = Len(log) \/ \E j \in DOMAIN socket.wire : j # 1 /\ Live(socket.wire, j)
         /\ \A j \in DOMAIN socket.wire :
              j > 1 /\ Live(socket.wire, j) => m.seq < socket.wire[j].seq
<1>1. PICK w : w = socket.wire
  OBVIOUS
<1>2. Linked /\ 1 \in DOMAIN w /\ IsWire(w) /\ w[1] = m /\ Live(w, 1)
  <2>1. PICK x : x = Tail(w)
    OBVIOUS
  <2> QED BY <1>1, <2>1, Rest DEF Live, Follows
<1>3. /\ InOrder(w, stream.at, socket.request.method, session.epoch)
      /\ LiveIn(w, log, Mark, applied)
  BY <1>1 DEF StreamInv, WireInv, LiveInv
<1>4. stream.at # "resume"
  <2>1. \A k \in DOMAIN w : ~(k < 1)
    BY <1>2, SeqShape DEF IsWire
  <2> QED BY <1>2, <1>3, <2>1 DEF InOrder, Live
<1>5. stream.at \in {"replay", "pump"}
  BY <1>2, <1>4 DEF Linked
<1>6. replay.epoch = session.epoch /\ Mark = replay.mark
  BY <1>5, Attends
<1>7. Numbered(m, log) /\ Mark < m.seq /\ Newer(m.seq, applied)
      /\ (m.seq = Len(log) \/ \E j \in DOMAIN w : 1 < j /\ Live(w, j))
      /\ \A j \in DOMAIN w : 1 < j /\ Live(w, j) => m.seq < w[j].seq
  BY <1>2, <1>3 DEF LiveIn
<1>8. m.seq \in Nat /\ m.seq # 0 /\ m.seq <= Len(log)
  BY <1>7, SeqShape DEF Numbered, StreamInv, IsLog
<1>9. Mark \in Nat
  BY <1>6 DEF StreamInv, MarkInv
<1>10. Absorb(m.seq) = m.seq
  BY <1>6, <1>7 DEF Absorb
<1>11. \A j \in DOMAIN w : j > 1 <=> 1 < j
  BY <1>2, SeqShape DEF IsWire
<1> QED BY <1>1, <1>5, <1>6, <1>7, <1>8, <1>9, <1>10, <1>11

LEMMA MarkMoves ==
  ASSUME StreamInv, replay.epoch = session.epoch, UNCHANGED <<log, session>>,
         NEW n \in Nat, n <= Len(log), replay' = [replay EXCEPT !.mark = n]
  PROVE  MarkInv' /\ Mark' = n /\ replay'.epoch = session'.epoch /\ replay'.mark = n
<1>1. replay' = [epoch |-> replay.epoch, mark |-> n] /\ MarkInv
  BY DEF StreamInv, MarkInv
<1>2. session.epoch # 0
  BY DEF StreamInv, SessionInv
<1>3. Mark' = n
  BY <1>1 DEF Mark
<1> QED BY <1>1, <1>2, <1>3 DEF MarkInv

LEMMA QueuedKeeps ==
  ASSUME StreamInv, socket.wire # <<>>, NEW m, m = socket.wire[1], m.kind = "frame",
         stream.at = "replay",
         replay' = [replay EXCEPT !.mark = m.seq],
         stream' = [stream EXCEPT !.buffer = Append(@, m)],
         socket' = [socket EXCEPT !.wire = Tail(@)],
         UNCHANGED <<log, session, drops, trans, chat, row, applied>>
  PROVE  StreamInv'
<1>1. PICK w : w = socket.wire
  OBVIOUS
<1>2. PICK x : x = Tail(w)
  OBVIOUS
<1>3. Linked /\ Follows(x, w) /\ w[1] = m
  BY <1>1, <1>2, Rest
<1>4. /\ replay.epoch = session.epoch /\ Mark = replay.mark
      /\ Numbered(m, log) /\ m.seq \in Nat /\ m.seq # 0 /\ m.seq <= Len(log)
      /\ Mark < m.seq /\ Mark \in Nat /\ Newer(m.seq, applied)
      /\ \A j \in DOMAIN w : j > 1 /\ Live(w, j) => m.seq < w[j].seq
  BY <1>1, FrameArrives
<1>5. MarkInv' /\ Mark' = m.seq /\ replay'.epoch = session'.epoch /\ replay'.mark = m.seq
  BY <1>4, MarkMoves
<1>6. /\ socket'.bound = socket.bound /\ socket'.request = socket.request /\ socket'.wire = x
      /\ {"bound", "wire", "request"} \subseteq DOMAIN socket'
  BY <1>1, <1>2 DEF StreamInv, SocketInv
<1>7. /\ PlaceInv' /\ stream'.at = stream.at /\ stream'.prompt = stream.prompt
      /\ stream'.buffer = Append(stream.buffer, m)
  BY DEF StreamInv, PlaceInv
<1>8. /\ InOrder(w, stream.at, socket.request.method, session.epoch)
      /\ LiveIn(w, log, Mark, applied) /\ MissedIn(w, log, Mark, stream.buffer)
      /\ BufferIn(stream.buffer, w, log, Mark, applied)
  BY <1>1 DEF StreamInv, WireInv, LiveInv, MissedInv, BufferInv
<1>9. SocketInv'
  BY <1>3, <1>6 DEF StreamInv, SocketInv, Follows
<1>10. AppliedInv'
  <2>1. AppliedInv
    BY DEF StreamInv
  <2>2. \A k \in DOMAIN applied : applied[k] \in Nat /\ applied[k] <= m.seq
    BY <1>4, <2>1 DEF Newer, AppliedInv, Ordered
  <2> QED BY <1>5, <2>1, <2>2 DEF AppliedInv
<1>11. LinkInv'
  <2>1. socket.bound
    BY DEF StreamInv, LinkInv
  <2> QED BY <1>4, <1>5, <1>6, <1>7, <2>1 DEF StreamInv, LinkInv, Linked
<1>12. WireInv'
  <2>1. InOrder(Tail(w), stream.at, socket.request.method, session.epoch)
    BY <1>3, <1>8, OrderShifts DEF Follows
  <2> QED BY <1>2, <1>5, <1>6, <1>7, <2>1 DEF WireInv
<1>13. LiveInv'
  <2>1. \A i \in DOMAIN w : i > 1 /\ Live(w, i) => m.seq < w[i].seq /\ Newer(w[i].seq, applied)
    BY <1>4, <1>8 DEF LiveIn
  <2>2. LiveIn(Tail(w), log, m.seq, applied)
    BY <1>3, <1>8, <2>1, LiveShifts DEF Follows
  <2> QED BY <1>2, <1>5, <1>6, <2>2 DEF LiveInv
<1>14. MissedInv'
  <2>1. PICK buffer : buffer = Append(stream.buffer, m)
    OBVIOUS
  <2>2. MissedIn(Tail(w), log, m.seq, buffer)
    BY <1>3, <1>4, <1>8, MissedShifts DEF Follows
  <2> QED BY <1>2, <1>5, <1>6, <1>7, <2>1, <2>2 DEF MissedInv
<1>15. BufferInv'
  <2>1. BufferIn(Append(stream.buffer, w[1]), Tail(w), log, w[1].seq, applied)
    BY <1>3, <1>4, <1>8, BufferTakes DEF Follows
  <2> QED BY <1>2, <1>3, <1>5, <1>6, <1>7, <2>1 DEF BufferInv
<1>16. IsLog(log)' /\ SessionInv' /\ ViewInv' /\ BlockedInv' /\ (drops \in 0..MaxDrops)'
  BY DEF StreamInv, SessionInv, ViewInv, BlockedInv
<1>17. QuietInv'
  BY <1>7 DEF QuietInv
<1>18. PromptInv'
  <2>1. stream'.buffer # <<>>
    BY <1>7, <1>8, AppendSeq DEF BufferIn
  <2>2. \A i \in DOMAIN x : x[i].kind # "resumed"
    BY <1>3, <1>8 DEF Follows, InOrder
  <2> QED BY <1>6, <1>7, <2>1, <2>2 DEF PromptInv
<1> QED BY <1>5, <1>7, <1>9, <1>10, <1>11, <1>12, <1>13, <1>14, <1>15, <1>16, <1>17, <1>18
        DEF StreamInv

\* A frame the pump takes.
LEMMA PumpedKeeps ==
  ASSUME StreamInv, socket.wire # <<>>, NEW m, m = socket.wire[1], m.kind = "frame",
         stream.at = "pump",
         replay' = [replay EXCEPT !.mark = m.seq],
         Pump(View, <<m>>),
         UNCHANGED <<log, session, drops>>
  PROVE  StreamInv'
<1>1. PICK w : w = socket.wire
  OBVIOUS
<1>2. PICK x : x = Tail(w)
  OBVIOUS
<1>3. Linked /\ Follows(x, w) /\ w[1] = m
  BY <1>1, <1>2, Rest
<1>4. /\ replay.epoch = session.epoch /\ Mark = replay.mark
      /\ Numbered(m, log) /\ m.seq \in Nat /\ m.seq # 0 /\ m.seq <= Len(log)
      /\ Mark < m.seq /\ Mark \in Nat /\ Newer(m.seq, applied)
      /\ (m.seq = Len(log) \/ \E j \in DOMAIN w : j # 1 /\ Live(w, j))
      /\ \A j \in DOMAIN w : j > 1 /\ Live(w, j) => m.seq < w[j].seq
  BY <1>1, FrameArrives
<1>5. MarkInv' /\ Mark' = m.seq /\ replay'.epoch = session'.epoch /\ replay'.mark = m.seq
  BY <1>4, MarkMoves
<1>6. PICK one : one = <<m>>
  OBVIOUS
<1>7. IsSeq(one) /\ DOMAIN one = {1} /\ one[1] = m /\ Len(one) = 1 /\ one # <<>>
  <2>1. one \in Seq({m}) /\ Len(one) = 1 /\ one[1] = m /\ one # <<>>
    BY <1>6
  <2> QED BY <2>1, SeqIs
<1>8. PICK after : after = FoldLeft(Translate, View, one)
  OBVIOUS
<1>9. /\ applied' = applied \o DurableIn(one)
      /\ IF after.trans.completed THEN Ends(after)
         ELSE /\ stream' = [stream EXCEPT !.at = "pump", !.attempts = 0, !.buffer = <<>>,
                                          !.prompt = 0]
              /\ socket' = [socket EXCEPT !.wire = Tail(@)]
              /\ Show(after)
  BY <1>6, <1>8 DEF Pump
<1>10. m.type \in FrameTypes /\ IsLog(log)
  BY <1>4, NumberedType DEF StreamInv
<1>11. IsView(after) /\ (m.type = "prompt" /\ ~after.trans.completed => after.chat.prompt = m.seq)
  <2>1. IsView(View)
    BY CurrentView
  <2>2. \A i \in DOMAIN one : one[i].type \in FrameTypes
    BY <1>7, <1>10
  <2> QED BY <1>7, <1>8, <2>1, <2>2, FramesTranslated
<1>12. PICK done : done = applied \o DurableIn(one)
  OBVIOUS
<1>13. Ordered(done) /\ \A k \in DOMAIN done : done[k] <= m.seq
  <2> DEFINE seqs == DurableIn(one)
  <2>1. Ordered(seqs) /\ \A a \in DOMAIN seqs : seqs[a] = m.seq
    <3>1. /\ \A i \in DOMAIN one : Numbered(one[i], log)
          /\ \A i, j \in DOMAIN one : i < j => one[i].seq < one[j].seq
      BY <1>4, <1>7
    <3>2. /\ Ordered(seqs)
          /\ \A a \in DOMAIN seqs : \E i \in DOMAIN one : seqs[a] = one[i].seq
      BY <1>7, <3>1, RecordsOrdered
    <3> HIDE DEF seqs
    <3> QED BY <1>7, <3>2
  <2> HIDE DEF seqs
  <2>2. Ordered(applied)
    BY DEF StreamInv, AppliedInv
  <2>3. \A a \in DOMAIN seqs : Newer(seqs[a], applied)
    BY <1>4, <2>1
  <2>4. /\ Ordered(done)
        /\ \A k \in DOMAIN done : \/ \E j \in DOMAIN applied : done[k] = applied[j]
                                  \/ \E a \in DOMAIN seqs : done[k] = seqs[a]
    BY <1>12, <2>1, <2>2, <2>3, DoneGrows DEF seqs
  <2>5. \A j \in DOMAIN applied : applied[j] \in Nat /\ applied[j] <= m.seq
    BY <1>4, <2>2 DEF Newer, Ordered
  <2> QED BY <1>4, <2>1, <2>4, <2>5
<1>14. AppliedInv'
  <2>1. Len(log) \in Nat /\ \A k \in DOMAIN done : done[k] <= Len(log)
    BY <1>4, <1>10, <1>13, SeqShape DEF IsLog, Ordered
  <2> QED BY <1>5, <1>9, <1>12, <1>13, <2>1 DEF AppliedInv
<1>15. (drops \in 0..MaxDrops)'
  BY DEF StreamInv
<1>16. CASE after.trans.completed
  BY <1>5, <1>9, <1>11, <1>14, <1>15, <1>16, EndsKeeps
<1>17. CASE ~after.trans.completed
  <2>1. /\ stream' = [stream EXCEPT !.at = "pump", !.attempts = 0, !.buffer = <<>>, !.prompt = 0]
        /\ socket' = [socket EXCEPT !.wire = Tail(@)]
        /\ Show(after)
    BY <1>9, <1>17
  <2>2. /\ socket'.bound = socket.bound /\ socket'.request = socket.request /\ socket'.wire = x
        /\ {"bound", "wire", "request"} \subseteq DOMAIN socket'
    BY <1>1, <1>2, <2>1 DEF StreamInv, SocketInv
  <2>3. PlaceInv' /\ stream'.at = "pump" /\ stream'.buffer = <<>>
    BY <2>1, StreamConstants DEF StreamInv, PlaceInv, Places
  <2>4. /\ InOrder(w, stream.at, socket.request.method, session.epoch)
        /\ LiveIn(w, log, Mark, applied)
    BY <1>1 DEF StreamInv, WireInv, LiveInv
  <2>5. \A i \in DOMAIN x : x[i].kind \notin {"resumed", "missed"}
    BY <1>3, <2>4 DEF Follows, InOrder
  <2>6. SocketInv'
    BY <1>3, <2>2 DEF StreamInv, SocketInv, Follows
  <2>7. LinkInv'
    <3>1. socket.bound /\ socket.request.method \in {"none", "prompt.submit"}
      BY DEF StreamInv, LinkInv
    <3> QED BY <1>17, <2>1, <2>2, <2>3, <3>1 DEF LinkInv, Linked, Show
  <2>8. WireInv'
    <3>1. InOrder(Tail(w), stream.at, socket.request.method, session.epoch)
      BY <1>3, <2>4, OrderShifts DEF Follows
    <3> QED BY <1>2, <1>5, <2>2, <2>3, <3>1 DEF WireInv
  <2>9. LiveInv'
    <3>1. \A i \in DOMAIN w : i > 1 /\ Live(w, i) => m.seq < w[i].seq /\ Newer(w[i].seq, done)
      <4>1. ASSUME NEW i \in DOMAIN w, i > 1, Live(w, i)
            PROVE  m.seq < w[i].seq /\ w[i].seq \in Nat
        <5>1. Numbered(w[i], log)
          BY <2>4, <4>1 DEF LiveIn
        <5> QED BY <1>4, <4>1, <5>1 DEF Numbered
      <4> QED BY <1>4, <1>13, <4>1 DEF Newer, Ordered
    <3>2. LiveIn(Tail(w), log, m.seq, done)
      BY <1>3, <2>4, <3>1, LiveShifts DEF Follows
    <3> QED BY <1>2, <1>5, <1>9, <1>12, <2>2, <3>2 DEF LiveInv
  <2>10. MissedInv'
    BY <2>2, <2>5 DEF MissedInv, MissedIn
  <2>11. BufferInv'
    BY <2>3, NothingWaits DEF BufferInv
  <2>12. IsLog(log)' /\ SessionInv' /\ BlockedInv' /\ QuietInv'
    BY <2>3 DEF StreamInv, SessionInv, BlockedInv, QuietInv
  <2>13. ViewInv'
    BY <1>11, <2>1 DEF Show, ViewInv, IsView
  <2>14. PromptInv'
    <3> SUFFICES ASSUME session.blocked # 0, ~\E j \in DOMAIN x : Live(x, j)
                 PROVE  chat'.prompt = session.blocked
      BY <2>2, <2>3, <2>5 DEF PromptInv, LiveComes
    <3>1. m.seq = Len(log)
      BY <1>3, <1>4 DEF Follows
    <3>2. session.blocked = Len(log) /\ log[Len(log)].type = "prompt"
      BY DEF StreamInv, BlockedInv
    <3>3. m.type = "prompt"
      BY <1>4, <3>1, <3>2 DEF Numbered
    <3>4. chat' = after.chat
      BY <2>1 DEF Show
    <3> QED BY <1>11, <1>17, <3>1, <3>2, <3>3, <3>4
  <2> QED BY <1>5, <1>14, <1>15, <2>3, <2>6, <2>7, <2>8, <2>9, <2>10, <2>11, <2>12, <2>13, <2>14
          DEF StreamInv
<1> QED BY <1>16, <1>17

LEMMA FrameKeeps ==
  ASSUME StreamInv, socket.wire # <<>>, socket.wire[1].kind = "frame",
         HandleFrame(socket.wire[1]), UNCHANGED <<log, session, drops>>
  PROVE  StreamInv'
<1>1. PICK m : m = socket.wire[1]
  OBVIOUS
<1>2. stream.at \in {"replay", "pump"} /\ Absorb(m.seq) = m.seq
  BY <1>1, FrameArrives
<1>3. /\ replay' = [replay EXCEPT !.mark = m.seq]
      /\ IF stream.at = "pump" THEN Pump(View, <<m>>)
         ELSE /\ stream' = [stream EXCEPT !.buffer = Append(@, m)]
              /\ socket' = [socket EXCEPT !.wire = Tail(@)]
              /\ UNCHANGED <<trans, chat, row, applied>>
  BY <1>1, <1>2 DEF HandleFrame
<1>4. CASE stream.at = "pump"
  BY <1>1, <1>3, <1>4, PumpedKeeps
<1>5. CASE stream.at = "replay"
  BY <1>1, <1>3, <1>5, QueuedKeeps
<1> QED BY <1>2, <1>4, <1>5

\* The session has been resumed, and it is turned to.
LEMMA ResumedHead ==
  ASSUME StreamInv, NEW w, w = socket.wire, w # <<>>, w[1].kind = "resumed"
  PROVE  /\ stream.at = "resume" /\ socket.bound /\ socket.request.method = "none"
         /\ stream.buffer = <<>> /\ replay.epoch = session.epoch /\ Mark = replay.mark
         /\ \A i \in DOMAIN w : i > 1 => w[i].kind \notin {"ready", "resumed", "missed"}
         /\ session.blocked # 0 =>
              w[1].prompt = session.blocked \/ \E j \in DOMAIN w : j # 1 /\ Live(w, j)
<1>1. PICK x : x = Tail(w)
  OBVIOUS
<1>2. Linked /\ 1 \in DOMAIN w /\ DOMAIN w = 1..Len(w) /\ Len(w) \in Nat
  BY <1>1, Rest, SeqShape DEF Follows, IsWire
<1>3. InOrder(w, stream.at, socket.request.method, session.epoch)
  BY DEF StreamInv, WireInv
<1>4. stream.at = "resume"
  BY <1>2, <1>3 DEF InOrder
<1>5. socket.bound
  BY <1>2 DEF StreamInv, LinkInv
<1>6. socket.request.method = "none" /\ stream.buffer = <<>>
  BY <1>4, <1>5 DEF StreamInv, LinkInv
<1>7. replay.epoch = session.epoch /\ Mark = replay.mark
  BY <1>2, Connected
<1>8. ASSUME NEW i \in DOMAIN w, i > 1 PROVE w[i].kind \notin {"ready", "resumed", "missed"}
  <2>1. i # 1
    BY <1>8
  <2> QED BY <1>2, <1>3, <1>4, <2>1 DEF InOrder
<1>9. ASSUME session.blocked # 0
      PROVE  w[1].prompt = session.blocked \/ \E j \in DOMAIN w : j # 1 /\ Live(w, j)
  <2>1. w[1].prompt = session.blocked \/ LiveComes
    BY <1>2, <1>9 DEF StreamInv, PromptInv
  <2>2. ~Live(w, 1)
    BY DEF Live
  <2> QED BY <2>1, <2>2 DEF LiveComes
<1> QED BY <1>4, <1>5, <1>6, <1>7, <1>8, <1>9

LEMMA JoinsKeeps ==
  ASSUME StreamInv, NEW w, w = socket.wire, w # <<>>, w[1].kind = "resumed",
         UNCHANGED <<log, session, drops, applied>>,
         PlaceInv', stream'.at \in {"replay", "pump"}, stream'.buffer = stream.buffer,
         {"bound", "wire", "request"} \subseteq DOMAIN socket',
         socket'.wire = Tail(w), socket'.bound = socket.bound,
         socket'.request \in [method : Methods, from : Nat],
         stream'.at = "replay" =>
           socket'.request.method \in {"none", "session.events.since"} /\ replay'.mark # 0,
         stream'.at = "pump" => socket'.request.method \in {"none", "prompt.submit"},
         NEW n \in Nat, n \in {0, replay.mark}, replay' = [replay EXCEPT !.mark = n],
         ViewInv', ~trans'.completed,
         w[1].prompt # 0 => \/ stream'.at = "replay" /\ stream'.prompt = w[1].prompt
                            \/ stream'.at = "pump" /\ chat'.prompt = w[1].prompt
                            \/ stream'.at = "pump" /\ socket'.request.method = "prompt.submit"
  PROVE  StreamInv'
<1>1. PICK x : x = Tail(w)
  OBVIOUS
<1>2. Linked /\ Follows(x, w)
  BY <1>1, Rest
<1>3. /\ stream.at = "resume" /\ socket.bound /\ stream.buffer = <<>>
      /\ replay.epoch = session.epoch /\ Mark = replay.mark
      /\ \A i \in DOMAIN w : i > 1 => w[i].kind \notin {"ready", "resumed", "missed"}
      /\ session.blocked # 0 =>
           w[1].prompt = session.blocked \/ \E j \in DOMAIN w : j # 1 /\ Live(w, j)
  BY ResumedHead
<1>4. /\ InOrder(w, stream.at, socket.request.method, session.epoch)
      /\ LiveIn(w, log, Mark, applied)
  BY DEF StreamInv, WireInv, LiveInv
<1>5. replay.mark \in Nat /\ replay.mark <= Len(log) /\ Len(log) \in Nat /\ IsLog(log)
  BY <1>3, SeqShape DEF StreamInv, MarkInv, IsLog
<1>6. n <= Len(log) /\ n <= Mark
  BY <1>3, <1>5
<1>7. MarkInv' /\ Mark' = n /\ replay'.epoch = session'.epoch /\ replay'.mark = n
  BY <1>3, <1>6, MarkMoves
<1>8. AppliedInv'
  <2>1. AppliedInv
    BY DEF StreamInv
  <2> QED BY <1>7, <2>1 DEF AppliedInv
<1>9. \A i \in DOMAIN x : x[i].kind \notin {"ready", "resumed", "missed"}
  BY <1>2, <1>3 DEF Follows
<1>10. SocketInv'
  BY <1>1, <1>2 DEF StreamInv, SocketInv, Follows
<1>11. LinkInv'
  BY <1>3 DEF LinkInv, Linked
<1>12. WireInv'
  <2>1. InOrder(x, stream'.at, socket'.request.method, session'.epoch)
    BY <1>9 DEF InOrder
  <2> QED BY <1>1, <1>7, <2>1 DEF WireInv
<1>13. LiveInv'
  <2>1. \A i \in DOMAIN w : i > 1 /\ Live(w, i) => n < w[i].seq /\ Newer(w[i].seq, applied)
    <3>1. ASSUME NEW i \in DOMAIN w, Live(w, i)
          PROVE  Mark < w[i].seq /\ Newer(w[i].seq, applied) /\ w[i].seq \in Nat
      BY <1>4, <3>1 DEF LiveIn, Numbered
    <3> QED BY <1>3, <1>5, <1>6, <3>1
  <2>2. LiveIn(Tail(w), log, n, applied)
    BY <1>2, <1>4, <2>1, LiveShifts DEF Follows
  <2> QED BY <1>7, <2>2 DEF LiveInv
<1>14. MissedInv' /\ BufferInv'
  <2>1. MissedInv'
    BY <1>1, <1>9 DEF MissedInv, MissedIn
  <2> QED BY <1>3, <2>1, NothingWaits DEF BufferInv
<1>15. IsLog(log)' /\ SessionInv' /\ BlockedInv' /\ QuietInv' /\ (drops \in 0..MaxDrops)'
  BY DEF StreamInv, SessionInv, BlockedInv, QuietInv
<1>16. PromptInv'
  <2> SUFFICES ASSUME session.blocked # 0, ~\E j \in DOMAIN x : Live(x, j)
               PROVE  \/ stream'.at = "replay" /\ stream'.prompt = session.blocked
                      \/ stream'.at = "pump" /\ chat'.prompt = session.blocked
                      \/ stream'.at = "pump" /\ socket'.request.method = "prompt.submit"
    BY <1>1, <1>9 DEF PromptInv, LiveComes
  <2>1. w[1].prompt = session.blocked
    BY <1>2, <1>3 DEF Follows
  <2> QED BY <2>1
<1> QED BY <1>7, <1>8, <1>10, <1>11, <1>12, <1>13, <1>14, <1>15, <1>16 DEF StreamInv

LEMMA SeededView ==
  ASSUME StreamInv, NEW m PROVE IsView(Seeded(m)) /\ ~Seeded(m).trans.completed
<1>1. IsView(Started) /\ ~Started.trans.completed
  BY CurrentView
<1>2. IsView(Delta(Started, m.text))
      /\ Delta(Started, m.text).trans.completed = Started.trans.completed
  BY <1>1, DeltaView
<1> QED BY <1>1, <1>2 DEF Seeded

LEMMA ResumedKeeps ==
  ASSUME StreamInv, socket.wire # <<>>, socket.wire[1].kind = "resumed",
         HandleResumed(socket.wire[1]), UNCHANGED <<log, session, drops>>
  PROVE  StreamInv'
<1>1. PICK w : w = socket.wire
  OBVIOUS
<1>2. w # <<>> /\ w[1].kind = "resumed"
  BY <1>1
<1>3. PICK m : m = w[1]
  OBVIOUS
<1>4. \/ HandleResumedForTurn(m) \/ RebuildFailedTurn(m) \/ NothingRuns(m)
      \/ AskForMissed(m) \/ NothingMissed(m)
  BY <1>1, <1>3 DEF HandleResumed
<1>5. /\ stream.at = "resume" /\ socket.bound /\ socket.request.method = "none"
      /\ stream.buffer = <<>> /\ replay.epoch = session.epoch /\ Mark = replay.mark
  BY <1>1, <1>2, ResumedHead
<1>6. /\ {"bound", "wire", "request"} \subseteq DOMAIN socket
      /\ socket.request \in [method : Methods, from : Nat]
      /\ {"at", "mode", "known", "attempts", "buffer", "prompt"} \subseteq DOMAIN stream
      /\ stream.mode \in {"turn", "reattach"} /\ 0 \in 0..MaxReattach
      /\ replay \in [epoch : 0..MaxEpochs, mark : Nat]
  BY StreamConstants DEF StreamInv, SocketInv, PlaceInv, MarkInv
<1>7. CASE HandleResumedForTurn(m)
  <2>1. /\ stream' = [stream EXCEPT !.at = "pump", !.attempts = 0, !.known = TRUE]
        /\ socket' = [socket EXCEPT !.request = [method |-> "prompt.submit", from |-> 0],
                                    !.wire = Tail(@)]
        /\ replay' = [replay EXCEPT !.mark = 0] /\ Show(Started) /\ UNCHANGED applied
    BY <1>7 DEF HandleResumedForTurn, Call
  <2>2. PlaceInv' /\ stream'.at = "pump" /\ stream'.buffer = stream.buffer
    BY <1>6, <2>1 DEF PlaceInv, Places
  <2>3. /\ {"bound", "wire", "request"} \subseteq DOMAIN socket'
        /\ socket'.wire = Tail(w) /\ socket'.bound = socket.bound
        /\ socket'.request \in [method : Methods, from : Nat]
        /\ socket'.request.method = "prompt.submit"
    BY <1>1, <1>6, <2>1 DEF Methods
  <2>4. ViewInv' /\ ~trans'.completed
    BY <2>1, CurrentView DEF Show, ViewInv, IsView
  <2> QED BY <1>1, <1>2, <2>1, <2>2, <2>3, <2>4, JoinsKeeps
<1>8. CASE RebuildFailedTurn(m) \/ NothingRuns(m)
  <2>1. PICK v : IsView(v) /\ Ends(v)
    <3>1. CASE RebuildFailedTurn(m)
      <4>1. PICK v : v = FinishWithTurnError(Started, m.text)
        OBVIOUS
      <4>2. IsView(v)
        BY <4>1, CurrentView, FailedView
      <4> QED BY <3>1, <4>1, <4>2 DEF RebuildFailedTurn
    <3>2. CASE NothingRuns(m)
      <4>1. PICK v : v = View
        OBVIOUS
      <4> QED BY <3>2, <4>1, CurrentView DEF NothingRuns
    <3> QED BY <1>8, <3>1, <3>2
  <2>2. UNCHANGED <<replay, applied>>
    BY <1>8 DEF RebuildFailedTurn, NothingRuns
  <2>3. MarkInv' /\ AppliedInv' /\ (drops \in 0..MaxDrops)'
    BY <2>2 DEF StreamInv, MarkInv, AppliedInv, Mark
  <2> QED BY <2>1, <2>3, EndsKeeps
<1>9. PICK n : n = replay.mark
  OBVIOUS
<1>10. n \in Nat /\ replay = [replay EXCEPT !.mark = n]
  BY <1>6, <1>9
<1>11. CASE AskForMissed(m)
  <2>1. /\ stream' = [stream EXCEPT !.at = "replay", !.attempts = 0, !.prompt = m.prompt]
        /\ socket' = [socket EXCEPT
             !.request = [method |-> "session.events.since", from |-> replay.mark],
             !.wire = Tail(@)]
        /\ Show(Seeded(m)) /\ UNCHANGED <<replay, applied>> /\ replay.mark # 0
    BY <1>11 DEF AskForMissed, Call
  <2>2. PlaceInv' /\ stream'.at = "replay" /\ stream'.buffer = stream.buffer
        /\ stream'.prompt = m.prompt
    BY <1>6, <2>1 DEF PlaceInv, Places
  <2>3. /\ {"bound", "wire", "request"} \subseteq DOMAIN socket'
        /\ socket'.wire = Tail(w) /\ socket'.bound = socket.bound
        /\ socket'.request \in [method : Methods, from : Nat]
        /\ socket'.request.method = "session.events.since"
    BY <1>1, <1>6, <2>1 DEF Methods
  <2>4. ViewInv' /\ ~trans'.completed
    BY <2>1, SeededView DEF Show, ViewInv, IsView
  <2>5. replay' = [replay EXCEPT !.mark = n] /\ replay'.mark # 0
    BY <1>10, <2>1
  <2>6. /\ n \in Nat /\ n \in {0, replay.mark} /\ UNCHANGED <<log, session, drops, applied>>
        /\ stream'.prompt = w[1].prompt /\ stream'.at # "pump"
        /\ stream'.at \in {"replay", "pump"}
    BY <1>3, <1>9, <1>10, <2>1, <2>2
  <2>7. socket'.request.method \in {"none", "session.events.since"}
    BY <2>3
  <2> QED BY <1>1, <1>2, <2>2, <2>3, <2>4, <2>5, <2>6, <2>7, JoinsKeeps
<1>12. CASE NothingMissed(m)
  <2>1. /\ stream' = [stream EXCEPT !.at = "pump", !.attempts = 0]
        /\ socket' = [socket EXCEPT !.wire = Tail(@)]
        /\ Show(ReplayPendingPrompts(Seeded(m), m.prompt)) /\ UNCHANGED <<replay, applied>>
    BY <1>12 DEF NothingMissed
  <2>2. PlaceInv' /\ stream'.at = "pump" /\ stream'.buffer = stream.buffer
    BY <1>6, <2>1 DEF PlaceInv, Places
  <2>3. /\ {"bound", "wire", "request"} \subseteq DOMAIN socket'
        /\ socket'.wire = Tail(w) /\ socket'.bound = socket.bound
        /\ socket'.request = socket.request
    BY <1>1, <1>6, <2>1
  <2>4. PICK v : v = ReplayPendingPrompts(Seeded(m), m.prompt)
    OBVIOUS
  <2>5. IsView(v) /\ ~v.trans.completed /\ (m.prompt # 0 => v.chat.prompt = m.prompt)
    BY <2>4, SeededView, PendingReplayed
  <2>6. trans' = v.trans /\ chat' = v.chat
    BY <2>1, <2>4 DEF Show
  <2>7. ViewInv' /\ ~trans'.completed /\ (m.prompt # 0 => chat'.prompt = m.prompt)
    BY <2>5, <2>6 DEF ViewInv, IsView
  <2>8. replay' = [replay EXCEPT !.mark = n]
    BY <1>10, <2>1
  <2>9. socket'.request.method = "none" /\ socket'.request \in [method : Methods, from : Nat]
    BY <1>5, <1>6, <2>3
  <2>10. /\ n \in Nat /\ n \in {0, replay.mark} /\ UNCHANGED <<log, session, drops, applied>>
         /\ stream'.at # "replay" /\ stream'.at \in {"replay", "pump"}
         /\ (w[1].prompt # 0 => chat'.prompt = w[1].prompt)
         /\ socket'.request.method \in {"none", "prompt.submit"}
    BY <1>3, <1>9, <1>10, <2>1, <2>2, <2>7, <2>9
  <2> QED BY <1>1, <1>2, <2>2, <2>3, <2>7, <2>8, <2>9, <2>10, JoinsKeeps
<1> QED BY <1>4, <1>7, <1>8, <1>11, <1>12

\* The records missed, as they are found at the head of the wire: none of them
\* is new once anything live has overtaken them.
LEMMA MissedHead ==
  ASSUME StreamInv, NEW w, w = socket.wire, w # <<>>, w[1].kind = "missed",
         NEW new, new = Unseen(w[1].frames)
  PROVE  /\ stream.at = "replay" /\ socket.request.method = "none"
         /\ replay.epoch = session.epoch /\ Mark = replay.mark /\ replay.mark \in Nat \ {0}
         /\ \A i \in DOMAIN w : i > 1 => w[i].kind \notin {"ready", "resumed", "missed"}
         /\ IsSeq(new)
         /\ \A a \in DOMAIN new :
              /\ Numbered(new[a], log) /\ replay.mark < new[a].seq /\ stream.buffer = <<>>
              /\ \A j \in DOMAIN w : j > 1 /\ Live(w, j) => new[a].seq < w[j].seq
         /\ \A a, b \in DOMAIN new : a < b => new[a].seq < new[b].seq
<1> DEFINE frames == w[1].frames
           I == {i \in DOMAIN frames : frames[i].seq > replay.mark}
<1>1. PICK x : x = Tail(w)
  OBVIOUS
<1>2. Linked /\ 1 \in DOMAIN w /\ DOMAIN w = 1..Len(w) /\ Len(w) \in Nat
  BY <1>1, Rest, SeqShape DEF Follows, IsWire
<1>3. /\ InOrder(w, stream.at, socket.request.method, session.epoch)
      /\ MissedIn(w, log, Mark, stream.buffer)
  BY DEF StreamInv, WireInv, MissedInv
<1>4. stream.at = "replay" /\ socket.request.method = "none"
  BY <1>2, <1>3 DEF InOrder
<1>5. replay.epoch = session.epoch /\ Mark = replay.mark
  BY <1>4, Attends
<1>6. replay.mark \in Nat \ {0}
  BY <1>4 DEF StreamInv, MarkInv, LinkInv
<1>7. ASSUME NEW i \in DOMAIN w, i > 1 PROVE w[i].kind \notin {"ready", "resumed", "missed"}
  <2>1. i # 1
    BY <1>7
  <2> QED BY <1>2, <1>3, <1>4, <2>1 DEF InOrder
<1>8. /\ IsSeq(frames)
      /\ \A a \in DOMAIN frames :
           /\ Numbered(frames[a], log)
           /\ \A j \in DOMAIN w : 1 < j /\ Live(w, j) => frames[a].seq < w[j].seq
           /\ \/ frames[a].seq <= Mark
              \/ \E i \in DOMAIN w : i < 1 /\ Live(w, i) /\ frames[a].seq <= w[i].seq
              \/ stream.buffer = <<>>
      /\ \A a, b \in DOMAIN frames : a < b => frames[a].seq < frames[b].seq
  BY <1>2, <1>3 DEF MissedIn
<1>9. new = Picked(frames, I)
  BY DEF Unseen
<1> HIDE DEF frames
<1>10. \A i \in I : i \in DOMAIN frames /\ frames[i].seq > replay.mark
  OBVIOUS
<1> HIDE DEF I
<1>11. /\ IsSeq(new)
       /\ \A a \in DOMAIN new : Numbered(new[a], log)
       /\ \A a, b \in DOMAIN new : a < b => new[a].seq < new[b].seq
  BY <1>8, <1>9, RecordsAfter
<1>12. \A a \in DOMAIN new : \E i \in DOMAIN frames : i \in I /\ new[a] = frames[i]
  BY <1>8, <1>9, PickedFrom
<1>13. \A i \in DOMAIN w : ~(i < 1)
  BY <1>2
<1>14. ASSUME NEW a \in DOMAIN new
       PROVE  /\ replay.mark < new[a].seq /\ stream.buffer = <<>>
              /\ \A j \in DOMAIN w : j > 1 /\ Live(w, j) => new[a].seq < w[j].seq
  <2>1. PICK i \in DOMAIN frames : i \in I /\ new[a] = frames[i]
    BY <1>12
  <2>2. frames[i].seq > replay.mark /\ frames[i].seq \in Nat
    BY <1>8, <1>10, <2>1 DEF Numbered
  <2>3. \A j \in DOMAIN w : j > 1 <=> 1 < j
    BY <1>2
  <2> QED BY <1>5, <1>6, <1>8, <1>13, <2>1, <2>2, <2>3
<1> QED BY <1>4, <1>5, <1>6, <1>7, <1>11, <1>14

\* What the replay and the queue add, and where the watermark goes.
LEMMA MissedProjected ==
  ASSUME StreamInv, NEW w, w = socket.wire, w # <<>>, w[1].kind = "missed",
         NEW new, new = Unseen(w[1].frames),
         NEW n, n = (IF DurableIn(new) = <<>> THEN replay.mark ELSE Last(DurableIn(new))),
         NEW done, done = applied \o DurableIn(new) \o DurableIn(stream.buffer)
  PROVE  /\ n \in Nat \ {0} /\ n <= Len(log)
         /\ Ordered(done) /\ \A k \in DOMAIN done : done[k] <= n
         /\ \A j \in DOMAIN w : j > 1 /\ Live(w, j) => n < w[j].seq
<1> DEFINE seqs == DurableIn(new)
           late == DurableIn(stream.buffer)
           most == applied \o seqs
<1>1. /\ stream.at = "replay" /\ socket.request.method = "none"
      /\ replay.epoch = session.epoch /\ Mark = replay.mark /\ replay.mark \in Nat \ {0}
      /\ IsSeq(new)
      /\ \A a \in DOMAIN new :
           /\ Numbered(new[a], log) /\ replay.mark < new[a].seq /\ stream.buffer = <<>>
           /\ \A j \in DOMAIN w : j > 1 /\ Live(w, j) => new[a].seq < w[j].seq
      /\ \A a, b \in DOMAIN new : a < b => new[a].seq < new[b].seq
  BY MissedHead
<1>2. /\ Ordered(applied) /\ \A k \in DOMAIN applied : applied[k] <= replay.mark
      /\ Len(log) \in Nat /\ replay.mark <= Len(log)
  BY <1>1, SeqShape DEF StreamInv, AppliedInv, MarkInv, IsLog
<1>3. /\ Ordered(seqs)
      /\ \A a \in DOMAIN seqs : \E i \in DOMAIN new : seqs[a] = new[i].seq
  BY <1>1, RecordsOrdered
<1>4. /\ IsSeq(stream.buffer)
      /\ \A b \in DOMAIN stream.buffer : /\ Numbered(stream.buffer[b], log)
                                         /\ Newer(stream.buffer[b].seq, applied)
                                         /\ stream.buffer[b].seq <= Mark
      /\ \A b, c \in DOMAIN stream.buffer : b < c => stream.buffer[b].seq < stream.buffer[c].seq
      /\ LiveIn(w, log, Mark, applied)
  BY DEF StreamInv, BufferInv, BufferIn, LiveInv
<1>5. /\ Ordered(late)
      /\ \A a \in DOMAIN late : \E b \in DOMAIN stream.buffer : late[a] = stream.buffer[b].seq
  BY <1>4, RecordsOrdered
<1> HIDE DEF seqs, late
<1>6. \A a \in DOMAIN seqs : /\ seqs[a] \in Nat /\ seqs[a] <= Len(log) /\ replay.mark < seqs[a]
                             /\ stream.buffer = <<>>
                             /\ \A j \in DOMAIN w : j > 1 /\ Live(w, j) => seqs[a] < w[j].seq
  BY <1>1, <1>3 DEF Ordered, Numbered
<1>7. /\ Ordered(most)
      /\ \A k \in DOMAIN most : \/ \E j \in DOMAIN applied : most[k] = applied[j]
                                \/ \E a \in DOMAIN seqs : most[k] = seqs[a]
  <2>1. \A a \in DOMAIN seqs : Newer(seqs[a], applied)
    <3>1. \A k \in DOMAIN applied : applied[k] \in Nat
      BY <1>2 DEF Ordered
    <3> QED BY <1>1, <1>2, <1>6, <3>1 DEF Newer
  <2>2. Ordered(applied) /\ Ordered(seqs)
    BY <1>2, <1>3
  <2> HIDE DEF most
  <2> QED BY <2>1, <2>2, DoneGrows DEF most
<1> HIDE DEF most
<1>8. /\ Ordered(done)
      /\ \A k \in DOMAIN done : \/ \E j \in DOMAIN most : done[k] = most[j]
                                \/ \E a \in DOMAIN late : done[k] = late[a]
  <2>1. done = most \o late
    BY DEF most, seqs, late
  <2>2. ASSUME NEW a \in DOMAIN late PROVE Newer(late[a], most)
    <3>1. PICK b \in DOMAIN stream.buffer : late[a] = stream.buffer[b].seq
      BY <1>5
    <3>2. stream.buffer # <<>>
      BY <3>1
    <3>3. DOMAIN seqs = {}
      BY <1>6, <3>2
    <3> QED BY <1>4, <1>7, <3>1, <3>3 DEF Newer
  <2> QED BY <1>5, <1>7, <2>1, <2>2, DoneGrows
<1>9. n = IF seqs = <<>> THEN replay.mark ELSE Last(seqs)
  BY DEF seqs
<1>10. Len(seqs) \in Nat /\ DOMAIN seqs = 1..Len(seqs) /\ (seqs # <<>> <=> Len(seqs) # 0)
  BY <1>3, SeqShape, NotEmpty DEF Ordered
<1>11. CASE seqs = <<>>
  <2>1. n = replay.mark /\ DOMAIN seqs = {}
    BY <1>9, <1>10, <1>11
  <2>2. ASSUME NEW k \in DOMAIN done PROVE done[k] <= n
    <3>1. \A a \in DOMAIN late : late[a] <= n
      BY <1>1, <1>4, <1>5, <2>1
    <3>2. \A j \in DOMAIN most : most[j] <= n
      BY <1>2, <1>7, <2>1
    <3> QED BY <1>8, <3>1, <3>2
  <2>3. \A j \in DOMAIN w : j > 1 /\ Live(w, j) => n < w[j].seq
    BY <1>1, <1>4, <2>1 DEF LiveIn
  <2> QED BY <1>1, <1>2, <1>8, <2>1, <2>2, <2>3
<1>12. CASE seqs # <<>>
  <2>1. n = seqs[Len(seqs)] /\ Len(seqs) \in DOMAIN seqs
    BY <1>9, <1>10, <1>12 DEF Last
  <2>2. n \in Nat /\ n <= Len(log) /\ replay.mark < n /\ stream.buffer = <<>>
        /\ \A j \in DOMAIN w : j > 1 /\ Live(w, j) => n < w[j].seq
    BY <1>6, <2>1
  <2>3. \A a \in DOMAIN seqs : seqs[a] <= n
    <3>1. ASSUME NEW a \in DOMAIN seqs PROVE seqs[a] <= n
      <4>1. a = Len(seqs) \/ a < Len(seqs)
        BY <1>10
      <4> QED BY <1>3, <1>6, <2>1, <4>1 DEF Ordered
    <3> QED BY <3>1
  <2>4. \A k \in DOMAIN applied : applied[k] <= n
    <3>1. \A k \in DOMAIN applied : applied[k] \in Nat
      BY <1>2 DEF Ordered
    <3> QED BY <1>1, <1>2, <2>2, <3>1
  <2>5. \A a \in DOMAIN late : FALSE
    <3>1. DOMAIN stream.buffer = {}
      BY <2>2
    <3> QED BY <1>5, <3>1
  <2>6. \A k \in DOMAIN most : most[k] <= n
    BY <1>7, <2>3, <2>4
  <2>7. \A k \in DOMAIN done : done[k] <= n
    BY <1>8, <2>5, <2>6
  <2>8. n \in Nat \ {0}
    BY <1>1, <2>2
  <2> QED BY <1>8, <2>2, <2>7, <2>8
<1> QED BY <1>11, <1>12

\* What the replay shows before the queue: the prompt of the snapshot last.
LEMMA AttachedView ==
  ASSUME StreamInv, NEW frames, IsSeq(frames),
         \A i \in DOMAIN frames : frames[i].type \in FrameTypes
  PROVE  /\ IsView(Attached(frames))
         /\ stream.prompt # 0 /\ ~Attached(frames).trans.completed
              => Attached(frames).chat.prompt = stream.prompt
<1>1. PICK v : v = FoldLeft(Translate, View, frames)
  OBVIOUS
<1>2. IsView(v)
  BY <1>1, CurrentView, FramesTranslated
<1>3. /\ IsView(ReplayPendingPrompts(v, stream.prompt))
      /\ ReplayPendingPrompts(v, stream.prompt).trans.completed = v.trans.completed
      /\ stream.prompt # 0 /\ ~v.trans.completed
           => ReplayPendingPrompts(v, stream.prompt).chat.prompt = stream.prompt
  BY <1>2, PendingReplayed
<1> QED BY <1>1, <1>3 DEF Attached

LEMMA MissedKeeps ==
  ASSUME StreamInv, socket.wire # <<>>, socket.wire[1].kind = "missed",
         HandleMissed(socket.wire[1]), UNCHANGED <<log, session, drops>>
  PROVE  StreamInv'
<1>1. PICK w : w = socket.wire
  OBVIOUS
<1>2. w # <<>> /\ w[1].kind = "missed"
  BY <1>1
<1>3. PICK x : x = Tail(w)
  OBVIOUS
<1>4. Linked /\ Follows(x, w)
  BY <1>1, <1>2, <1>3, Rest
<1>5. PICK new : new = Unseen(w[1].frames)
  OBVIOUS
<1>6. PICK n : n = IF DurableIn(new) = <<>> THEN replay.mark ELSE Last(DurableIn(new))
  OBVIOUS
<1>7. PICK done : done = applied \o DurableIn(new) \o DurableIn(stream.buffer)
  OBVIOUS
<1>8. PICK after : after = FoldLeft(Translate, Attached(new), stream.buffer)
  OBVIOUS
<1>9. /\ replay' = [replay EXCEPT !.mark = n]
      /\ applied' = done
      /\ IF after.trans.completed THEN Ends(after)
         ELSE /\ stream' = [stream EXCEPT !.at = "pump", !.buffer = <<>>, !.prompt = 0]
              /\ socket' = [socket EXCEPT !.wire = Tail(@)]
              /\ Show(after)
  <2>1. /\ replay' = [replay EXCEPT !.mark = IF DurableIn(new) = <<>> THEN @
                                             ELSE Last(DurableIn(new))]
        /\ applied' = applied \o DurableIn(new) \o DurableIn(stream.buffer)
        /\ IF after.trans.completed THEN Ends(after)
           ELSE /\ stream' = [stream EXCEPT !.at = "pump", !.buffer = <<>>, !.prompt = 0]
                /\ socket' = [socket EXCEPT !.wire = Tail(@)]
                /\ Show(after)
    BY <1>1, <1>5, <1>8 DEF HandleMissed
  <2> QED BY <1>6, <1>7, <2>1
<1>10. /\ stream.at = "replay" /\ socket.request.method = "none"
       /\ replay.epoch = session.epoch /\ Mark = replay.mark
       /\ \A i \in DOMAIN w : i > 1 => w[i].kind \notin {"ready", "resumed", "missed"}
       /\ IsSeq(new) /\ \A a \in DOMAIN new : Numbered(new[a], log)
  BY <1>1, <1>2, <1>5, MissedHead
<1>11. /\ n \in Nat \ {0} /\ n <= Len(log)
       /\ Ordered(done) /\ \A k \in DOMAIN done : done[k] <= n
       /\ \A j \in DOMAIN w : j > 1 /\ Live(w, j) => n < w[j].seq
  BY <1>1, <1>2, <1>5, <1>6, <1>7, MissedProjected
<1>12. MarkInv' /\ Mark' = n /\ replay'.epoch = session'.epoch /\ replay'.mark = n
  BY <1>9, <1>10, <1>11, MarkMoves
<1>13. IsLog(log) /\ Len(log) \in Nat
  BY SeqShape DEF StreamInv, IsLog
<1>14. AppliedInv'
  <2>1. \A k \in DOMAIN done : done[k] \in Nat /\ done[k] <= Len(log)
    BY <1>11, <1>13 DEF Ordered
  <2> QED BY <1>9, <1>11, <1>12, <2>1 DEF AppliedInv
<1>15. /\ IsSeq(stream.buffer)
       /\ \A b \in DOMAIN stream.buffer : Numbered(stream.buffer[b], log)
       /\ stream.buffer # <<>> => /\ stream.buffer[Len(stream.buffer)].seq = Mark
                                  /\ Mark = Len(log) \/ \E i \in DOMAIN w : Live(w, i)
  BY <1>1 DEF StreamInv, BufferInv, BufferIn
<1>16. /\ \A a \in DOMAIN new : new[a].type \in FrameTypes
       /\ \A b \in DOMAIN stream.buffer : stream.buffer[b].type \in FrameTypes
  BY <1>10, <1>13, <1>15, NumberedType
<1>17. PICK v : v = Attached(new)
  OBVIOUS
<1>18. /\ IsView(v)
       /\ stream.prompt # 0 /\ ~v.trans.completed => v.chat.prompt = stream.prompt
  BY <1>10, <1>16, <1>17, AttachedView
<1>19. /\ IsView(after)
       /\ stream.buffer = <<>> => after = v
       /\ stream.buffer # <<>> /\ stream.buffer[Len(stream.buffer)].type = "prompt"
            /\ ~after.trans.completed
            => after.chat.prompt = stream.buffer[Len(stream.buffer)].seq
  BY <1>8, <1>15, <1>16, <1>17, <1>18, FramesTranslated
<1>20. (drops \in 0..MaxDrops)'
  BY DEF StreamInv
<1>21. CASE after.trans.completed
  BY <1>9, <1>12, <1>14, <1>19, <1>20, <1>21, EndsKeeps
<1>22. CASE ~after.trans.completed
  <2>1. /\ stream' = [stream EXCEPT !.at = "pump", !.buffer = <<>>, !.prompt = 0]
        /\ socket' = [socket EXCEPT !.wire = Tail(@)]
        /\ Show(after)
    BY <1>9, <1>22
  <2>2. /\ socket'.bound = socket.bound /\ socket'.request = socket.request /\ socket'.wire = x
        /\ {"bound", "wire", "request"} \subseteq DOMAIN socket'
    BY <1>1, <1>3, <2>1 DEF StreamInv, SocketInv
  <2>3. PlaceInv' /\ stream'.at = "pump" /\ stream'.buffer = <<>>
    BY <2>1 DEF StreamInv, PlaceInv, Places
  <2>4. \A i \in DOMAIN x : x[i].kind \notin {"ready", "resumed", "missed"}
    BY <1>4, <1>10 DEF Follows
  <2>5. SocketInv'
    BY <1>4, <2>2 DEF StreamInv, SocketInv, Follows
  <2>6. trans' = after.trans /\ chat' = after.chat
    BY <2>1 DEF Show
  <2>7. LinkInv'
    <3>1. socket.bound
      BY <1>10 DEF StreamInv, LinkInv
    <3> QED BY <1>10, <1>22, <2>2, <2>3, <2>6, <3>1 DEF LinkInv, Linked
  <2>8. WireInv'
    <3>1. InOrder(x, stream'.at, socket'.request.method, session'.epoch)
      BY <2>3, <2>4 DEF InOrder
    <3> QED BY <1>12, <2>2, <3>1 DEF WireInv
  <2>9. LiveInv'
    <3>1. LiveIn(w, log, Mark, applied)
      BY <1>1 DEF StreamInv, LiveInv
    <3>2. ASSUME NEW i \in DOMAIN w, i > 1, Live(w, i)
          PROVE  n < w[i].seq /\ Newer(w[i].seq, done)
      <4>1. w[i].seq \in Nat
        BY <3>1, <3>2 DEF LiveIn, Numbered
      <4> QED BY <1>11, <3>2, <4>1 DEF Newer, Ordered
    <3>3. LiveIn(Tail(w), log, n, done)
      BY <1>4, <3>1, <3>2, LiveShifts DEF Follows
    <3> QED BY <1>3, <1>9, <1>12, <2>2, <3>3 DEF LiveInv
  <2>10. MissedInv'
    BY <2>2, <2>4 DEF MissedInv, MissedIn
  <2>11. BufferInv'
    BY <2>3, NothingWaits DEF BufferInv
  <2>12. IsLog(log)' /\ SessionInv' /\ BlockedInv' /\ QuietInv'
    BY <2>3 DEF StreamInv, SessionInv, BlockedInv, QuietInv
  <2>13. ViewInv'
    BY <1>19, <2>6 DEF ViewInv, IsView
  <2>14. PromptInv'
    <3> SUFFICES ASSUME session.blocked # 0, ~\E j \in DOMAIN x : Live(x, j)
                 PROVE  chat'.prompt = session.blocked
      BY <2>2, <2>3, <2>4 DEF PromptInv, LiveComes
    <3>1. ~\E j \in DOMAIN w : Live(w, j)
      BY <1>2, <1>4 DEF Follows, Live
    <3>2. stream.prompt = session.blocked \/ stream.buffer # <<>>
      BY <1>1, <1>10, <3>1 DEF StreamInv, PromptInv, LiveComes
    <3>3. CASE stream.buffer = <<>>
      BY <1>18, <1>19, <1>22, <2>6, <3>2, <3>3
    <3>4. CASE stream.buffer # <<>>
      <4> DEFINE l == stream.buffer[Len(stream.buffer)]
      <4>1. l.seq = Len(log) /\ Numbered(l, log)
        <5>1. Len(stream.buffer) \in DOMAIN stream.buffer
          BY <1>15, <3>4, SeqShape, NotEmpty
        <5> QED BY <1>15, <3>1, <3>4, <5>1
      <4>2. session.blocked = Len(log) /\ log[Len(log)].type = "prompt"
        BY DEF StreamInv, BlockedInv
      <4>3. l.type = "prompt"
        BY <4>1, <4>2 DEF Numbered
      <4> QED BY <1>19, <1>22, <2>6, <3>4, <4>1, <4>2, <4>3
    <3> QED BY <3>3, <3>4
  <2> QED BY <1>12, <1>14, <1>20, <2>3, <2>5, <2>7, <2>8, <2>9, <2>10, <2>11, <2>12, <2>13, <2>14
          DEF StreamInv
<1> QED BY <1>21, <1>22

LEMMA RefusedKeeps ==
  ASSUME StreamInv, NEW m, HandleRefused(m), UNCHANGED <<log, session, drops>>
  PROVE  StreamInv'
<1>1. UNCHANGED <<replay, applied>> /\ (Ends(View) \/ Fails(View))
  BY DEF HandleRefused
<1>2. MarkInv' /\ AppliedInv' /\ (drops \in 0..MaxDrops)'
  BY <1>1 DEF StreamInv, MarkInv, AppliedInv, Mark
<1>3. PICK v : v = View
  OBVIOUS
<1>4. IsView(v) /\ (Ends(v) \/ Fails(v))
  BY <1>1, <1>3, CurrentView
<1> QED BY <1>2, <1>4, EndsKeeps

LEMMA DeliverKeeps == StreamInv /\ Deliver => StreamInv'
<1> SUFFICES ASSUME StreamInv, Deliver PROVE StreamInv'
  OBVIOUS
<1>1. PICK w : w = socket.wire
  OBVIOUS
<1>2. PICK x : x = Tail(w)
  OBVIOUS
<1>3. w # <<>> /\ UNCHANGED <<log, session, drops>>
  BY <1>1 DEF Deliver
<1>4. Head(w) = w[1] /\ Follows(x, w)
  BY <1>1, <1>2, <1>3, Rest
<1>5. PICK m : m = w[1]
  OBVIOUS
<1>6. m.kind \in Kinds /\ m = Head(socket.wire) /\ m = socket.wire[1] /\ socket.wire # <<>>
  BY <1>1, <1>3, <1>4, <1>5 DEF Follows, IsWire
<1>7. CASE m.kind = "ready"
  <2>1. HandleReady(m)
    BY <1>6, <1>7 DEF Deliver
  <2> QED BY <1>3, <1>6, <1>7, <2>1, ReadyKeeps
<1>8. CASE m.kind = "frame"
  <2>1. HandleFrame(m)
    BY <1>6, <1>8 DEF Deliver
  <2> QED BY <1>3, <1>6, <1>8, <2>1, FrameKeeps
<1>9. CASE m.kind = "resumed"
  <2>1. HandleResumed(m)
    BY <1>6, <1>9 DEF Deliver
  <2> QED BY <1>3, <1>6, <1>9, <2>1, ResumedKeeps
<1>10. CASE m.kind = "missed"
  <2>1. HandleMissed(m)
    BY <1>6, <1>10 DEF Deliver
  <2> QED BY <1>3, <1>6, <1>10, <2>1, MissedKeeps
<1>11. CASE m.kind = "refused"
  <2>1. HandleRefused(m)
    BY <1>6, <1>11 DEF Deliver
  <2> QED BY <1>3, <2>1, RefusedKeeps
<1> QED BY <1>6, <1>7, <1>8, <1>9, <1>10, <1>11 DEF Kinds

----------------------------------------------------------------------------
(* The theorems.                                                           *)

LEMMA StutterKeeps == StreamInv /\ UNCHANGED vars => StreamInv'
<1> SUFFICES ASSUME StreamInv, UNCHANGED vars PROVE StreamInv'
  OBVIOUS
<1>1. Mark' = Mark
  BY DEF vars, Mark
<1>2. IsLog(log)' /\ SessionInv' /\ SocketInv' /\ PlaceInv' /\ ViewInv' /\ LinkInv' /\ WireInv'
      /\ (drops \in 0..MaxDrops)'
  BY DEF vars, StreamInv, SessionInv, SocketInv, PlaceInv, ViewInv, LinkInv, WireInv, Linked
<1>3. MarkInv' /\ AppliedInv' /\ LiveInv' /\ MissedInv' /\ BufferInv'
  BY <1>1 DEF vars, StreamInv, MarkInv, AppliedInv, LiveInv, MissedInv, BufferInv
<1>4. BlockedInv' /\ PromptInv' /\ QuietInv'
  BY DEF vars, StreamInv, BlockedInv, PromptInv, QuietInv, LiveComes
<1> QED BY <1>2, <1>3, <1>4 DEF StreamInv

LEMMA StepKeeps == StreamInv /\ [Next]_vars => StreamInv'
<1> SUFFICES ASSUME StreamInv, [Next]_vars PROVE StreamInv'
  OBVIOUS
<1>1. CASE Gateway
  BY <1>1, EmitKeeps, PromptAnsweredKeeps, ForeignTurnKeeps, RestartKeeps, AnswerKeeps,
     RequestLostKeeps DEF Gateway
<1>2. CASE Client
  BY <1>2, OpenKeeps, DialledKeeps, DeliverKeeps, ReattachKeeps, SettleKeeps, DialFailsKeeps,
     LoseKeeps, CloseQueueKeeps DEF Client
<1>3. CASE UNCHANGED vars
  BY <1>3, StutterKeeps
<1> QED BY <1>1, <1>2, <1>3 DEF Next

LEMMA StreamSafe == Spec => []StreamInv
  BY InitHolds, StepKeeps, PTL DEF Spec

\* Every variable has its type, in every state.
THEOREM TypeCorrect == Spec => []TypeOK
<1>1. StreamInv => TypeOK
  <2> SUFFICES ASSUME StreamInv PROVE TypeOK
    OBVIOUS
  <2>1. \A i \in DOMAIN log : log[i].seq = i /\ log[i].type \in FrameTypes
    BY DEF StreamInv, IsLog
  <2>2. SessionInv /\ drops \in 0..MaxDrops /\ replay \in [epoch : 0..MaxEpochs, mark : Nat]
    BY DEF StreamInv, MarkInv
  <2>3. socket.bound \in BOOLEAN /\ socket.request.method \in Methods
    BY DEF StreamInv, SocketInv
  <2>4. /\ stream.at \in Places /\ stream.mode \in {"turn", "reattach"}
        /\ stream.attempts \in 0..MaxReattach
        /\ stream.buffer # <<>> => stream.at = "replay"
    BY DEF StreamInv, PlaceInv, LinkInv
  <2>5. chat.status \in {"idle", "submitting", "streaming", "error"}
    BY DEF StreamInv, ViewInv, IsChat
  <2> QED BY <2>1, <2>2, <2>3, <2>4, <2>5 DEF TypeOK, SessionInv, Methods, Places
<1> QED BY <1>1, StreamSafe, PTL

\* No durable record (a tool's step, a plan) is projected twice and none out of
\* order, whether it arrived live, waited in the queue while the records missed
\* were asked for, or was replayed: TurnEventQueue, pump and replayMissedEvents
\* of services/gateway/gateway-client, over any number of reconnections.
THEOREM RecordsAreProjectedOnce == Spec => []RecordsInOrder
<1>1. StreamInv => \A i, j \in DOMAIN applied : i < j => applied[i] < applied[j]
  BY DEF StreamInv, AppliedInv, Ordered
<1> QED BY <1>1, TypeCorrect, StreamSafe, PTL DEF RecordsInOrder

\* The watermark (absorbGatewayEvent, adoptReplayEpoch) claims no frame that the
\* running gateway process has not emitted, whichever processes came before it.
THEOREM WatermarkIsSound == Spec => []WatermarkSound
<1>1. StreamInv => WatermarkSound
  BY DEF StreamInv, MarkInv, Mark, WatermarkSound
<1> QED BY <1>1, StreamSafe, PTL

\* A prompt that blocks the turn is on the screen once the stream has caught up
\* (replayPendingPrompts and the translator), also when it was asked while the
\* client was away.
THEOREM PromptIsShown == Spec => []PromptReachesUser
<1>1. StreamInv => PromptReachesUser
  <2> SUFFICES ASSUME StreamInv, stream.at = "pump", socket.wire = <<>>,
                      socket.request = NoRequest, session.blocked # 0
               PROVE  chat.prompt = session.blocked
    BY DEF PromptReachesUser
  <2>1. DOMAIN socket.wire = {} /\ socket.request.method = "none"
    BY DEF NoRequest
  <2> QED BY <2>1 DEF StreamInv, PromptInv, LiveComes
<1> QED BY <1>1, StreamSafe, PTL

\* A settled conversation waits for nothing: whatever ended the stream, the
\* row is left with no prompt, and either idle or with its error.
THEOREM SettledIsAlwaysQuiet == Spec => []SettledIsQuiet
<1>1. StreamInv => SettledIsQuiet
  BY DEF StreamInv, QuietInv, SettledIsQuiet
<1> QED BY <1>1, StreamSafe, PTL

----------------------------------------------------------------------------
(* What a row says, and the pieces of a turn.                              *)

Texts == Seq(Nat)

IsPart(p) ==
  \/ p.type = "task" /\ "type" \in DOMAIN p
  \/ /\ p.type = "text" /\ p.sealed \in BOOLEAN /\ p.text \in Texts
     /\ DOMAIN p = {"type", "text", "sealed"}

IsRow(parts) == IsSeq(parts) /\ \A i \in DOMAIN parts : IsPart(parts[i])

Said(parts) == FoldLeft(LAMBDA said, part : said \o Words(part), <<>>, parts)

LEMMA WordsText ==
  ASSUME NEW p, IsPart(p) PROVE Words(p) \in Texts
  BY DEF IsPart, Words, Texts

LEMMA ConcatTexts ==
  ASSUME NEW s \in Texts, NEW t \in Texts
  PROVE  s \o t \in Texts /\ s \o <<>> = s /\ <<>> \o s = s /\ <<>> \in Texts
  BY DEF Texts

LEMMA ConcatAssoc ==
  ASSUME NEW s \in Texts, NEW t \in Texts, NEW u \in Texts
  PROVE  (s \o t) \o u = s \o (t \o u)
  BY DEF Texts

LEMMA SaidSteps ==
  ASSUME NEW parts, IsRow(parts)
  PROVE  \E said : /\ said[0] = <<>>
                   /\ \A m \in 1..Len(parts) : said[m] = said[m - 1] \o Words(parts[m])
                   /\ \A m \in 0..Len(parts) : said[m] \in Texts
                   /\ Said(parts) = said[Len(parts)]
<1> DEFINE n == Len(parts)
           fold == [kind |-> "say", over |-> parts]
           Unfolds(f) == f = [D \in SUBSET (1..n) |->
                                IF D = {} THEN <<>>
                                ELSE f[D \ {Max(D)}] \o Words(parts[Max(D)])]
           states == CHOOSE f : Unfolds(f)
           said == [m \in 0..n |-> states[1..m]]
<1>1. n \in Nat /\ DOMAIN parts = 1..n
  BY SeqShape DEF IsRow
<1>2. Said(parts) = states[1..n]
  BY <1>1 DEF Said, FoldLeft, MapThenFoldSet
<1>3. \A f : Folding(fold, <<>>, n, f) <=> Unfolds(f)
  <2>1. \A x, i : Step(fold, x, i) = x \o Words(parts[i])
    BY DEF Step
  <2> HIDE DEF fold
  <2> QED BY <2>1 DEF Folding
<1>4. \E f : Unfolds(f)
  <2>1. \E f : Folding(fold, <<>>, n, f)
    <3> HIDE DEF fold, n
    <3> QED BY <1>1, FoldingExists
  <2> QED BY <1>3, <2>1
<1>5. Unfolds(states)
  BY <1>4
<1> HIDE DEF states, Unfolds
<1>6. /\ states[1..0] = <<>>
      /\ \A m \in 1..n : states[1..m] = Step(fold, states[1..(m - 1)], m)
  <2>1. Folding(fold, <<>>, n, states)
    BY <1>3, <1>5
  <2> HIDE DEF fold, n
  <2> QED BY <1>1, <2>1, FoldingSteps
<1>7. \A m \in 1..n : states[1..m] = states[1..(m - 1)] \o Words(parts[m])
  BY <1>6 DEF Step
<1> HIDE DEF fold
<1>8. \A m \in 0..n : said[m] = states[1..m]
  OBVIOUS
<1> HIDE DEF said
<1>9. said[0] = <<>> /\ Said(parts) = said[n]
  BY <1>1, <1>2, <1>6, <1>8
<1>10. \A m \in 1..n : said[m] = said[m - 1] \o Words(parts[m])
  <2> SUFFICES ASSUME NEW m \in 1..n PROVE said[m] = said[m - 1] \o Words(parts[m])
    OBVIOUS
  <2>1. m \in 0..n /\ m - 1 \in 0..n
    BY <1>1
  <2> QED BY <1>7, <1>8, <2>1
<1>11. \A m \in 0..n : said[m] \in Texts
  <2> DEFINE S == {m \in Nat : m <= n => said[m] \in Texts}
  <2>1. 0 \in S
    <3>1. said[0] \in Texts
      BY <1>9 DEF Texts
    <3> QED BY <3>1
  <2>2. ASSUME NEW m \in S PROVE m + 1 \in S
    <3> SUFFICES ASSUME m + 1 <= n PROVE said[m + 1] \in Texts
      OBVIOUS
    <3>1. m + 1 \in 1..n /\ (m + 1) - 1 = m /\ said[m] \in Texts
      BY <1>1
    <3>2. Words(parts[m + 1]) \in Texts
      BY <1>1, <3>1, WordsText DEF IsRow
    <3>3. said[m + 1] = said[m] \o Words(parts[m + 1])
      BY <1>10, <3>1
    <3> QED BY <3>1, <3>2, <3>3, ConcatTexts
  <2>3. S = Nat
    <3>1. S \in SUBSET Nat
      OBVIOUS
    <3> HIDE DEF S
    <3> QED BY <2>1, <2>2, <3>1, Induction
  <2> QED BY <1>1, <2>3
<1> QED BY <1>9, <1>10, <1>11

\* Rows whose first n parts say the same.
SaysUpTo(parts, n, said) ==
  said[0] = <<>> /\ \A m \in 1..n : said[m] = said[m - 1] \o Words(parts[m])

LEMMA SameWords ==
  ASSUME NEW p, NEW q, NEW n \in Nat, NEW a, NEW b, SaysUpTo(p, n, a), SaysUpTo(q, n, b),
         \A m \in 1..n : Words(p[m]) = Words(q[m])
  PROVE  a[n] = b[n]
<1> DEFINE S == {m \in Nat : m <= n => a[m] = b[m]}
<1>0. SaysUpTo(p, n, a) /\ SaysUpTo(q, n, b)
  OBVIOUS
<1>1. 0 \in S
  BY <1>0 DEF SaysUpTo
<1>2. ASSUME NEW m \in S PROVE m + 1 \in S
  <2> SUFFICES ASSUME m + 1 <= n PROVE a[m + 1] = b[m + 1]
    OBVIOUS
  <2>1. m + 1 \in 1..n /\ (m + 1) - 1 = m /\ a[m] = b[m]
    OBVIOUS
  <2>2. a[m + 1] = a[m] \o Words(p[m + 1]) /\ b[m + 1] = b[m] \o Words(q[m + 1])
    BY <1>0, <2>1 DEF SaysUpTo
  <2> QED BY <2>1, <2>2
<1>3. S = Nat
  <2>1. S \in SUBSET Nat
    OBVIOUS
  <2> HIDE DEF S
  <2> QED BY <1>1, <1>2, <2>1, Induction
<1>4. n \in S
  BY <1>3
<1> QED BY <1>4

LEMMA SaidSame ==
  ASSUME NEW p, NEW q, IsRow(p), IsRow(q), Len(p) = Len(q),
         \A i \in DOMAIN p : Words(p[i]) = Words(q[i])
  PROVE  Said(p) = Said(q)
<1>1. PICK a : /\ a[0] = <<>>
               /\ \A m \in 1..Len(p) : a[m] = a[m - 1] \o Words(p[m])
               /\ Said(p) = a[Len(p)]
  BY SaidSteps
<1>2. PICK b : /\ b[0] = <<>>
               /\ \A m \in 1..Len(q) : b[m] = b[m - 1] \o Words(q[m])
               /\ Said(q) = b[Len(q)]
  BY SaidSteps
<1>3. Len(p) \in Nat /\ DOMAIN p = 1..Len(p)
  BY SeqShape DEF IsRow
<1>4. a[Len(p)] = b[Len(p)]
  <2>1. SaysUpTo(p, Len(p), a) /\ SaysUpTo(q, Len(p), b)
    BY <1>1, <1>2 DEF SaysUpTo
  <2>2. \A m \in 1..Len(p) : Words(p[m]) = Words(q[m])
    BY <1>3
  <2> QED BY <1>3, <2>1, <2>2, SameWords
<1> QED BY <1>1, <1>2, <1>4

\* A part is added.
LEMMA SaidMore ==
  ASSUME NEW p, IsRow(p), NEW x, IsPart(x)
  PROVE  IsRow(Append(p, x)) /\ Said(Append(p, x)) = Said(p) \o Words(x) /\ Said(p) \in Texts
<1> DEFINE q == Append(p, x)
           n == Len(p)
<1>1. /\ IsSeq(q) /\ Len(q) = n + 1 /\ DOMAIN q = 1..(n + 1) /\ q[n + 1] = x
      /\ \A i \in DOMAIN p : q[i] = p[i]
      /\ n \in Nat /\ DOMAIN p = 1..n
  BY AppendSeq, SeqShape DEF IsRow
<1> HIDE DEF q, n
<1>2. IsRow(q)
  BY <1>1 DEF IsRow
<1>3. PICK a : /\ a[0] = <<>>
               /\ \A m \in 1..n : a[m] = a[m - 1] \o Words(p[m])
               /\ \A m \in 0..n : a[m] \in Texts
               /\ Said(p) = a[n]
  BY SaidSteps DEF n
<1>4. PICK b : /\ b[0] = <<>>
               /\ \A m \in 1..(n + 1) : b[m] = b[m - 1] \o Words(q[m])
               /\ Said(q) = b[n + 1]
  BY <1>1, <1>2, SaidSteps
<1>5. a[n] = b[n]
  <2>1. \A m \in 1..n : m \in 1..(n + 1) /\ q[m] = p[m]
    BY <1>1
  <2>2. SaysUpTo(p, n, a) /\ SaysUpTo(q, n, b)
    <3>1. \A m \in 1..n : m \in 1..(n + 1)
      BY <1>1
    <3>2. SaysUpTo(p, n, a)
      BY <1>3 DEF SaysUpTo
    <3>3. SaysUpTo(q, n, b)
      BY <1>4, <3>1 DEF SaysUpTo
    <3> QED BY <3>2, <3>3
  <2>3. \A m \in 1..n : Words(p[m]) = Words(q[m])
    BY <2>1
  <2> QED BY <1>1, <2>2, <2>3, SameWords
<1>6. b[n + 1] = b[n] \o Words(x)
  BY <1>1, <1>4
<1> QED BY <1>1, <1>2, <1>3, <1>4, <1>5, <1>6 DEF q

\* The last part says more.
LEMMA SaidOn ==
  ASSUME NEW p, IsRow(p), NEW q, IsRow(q), Len(p) # 0, Len(q) = Len(p), NEW t \in Texts,
         \A i \in 1..(Len(p) - 1) : q[i] = p[i],
         Words(q[Len(p)]) = Words(p[Len(p)]) \o t
  PROVE  Said(q) = Said(p) \o t
<1> DEFINE n == Len(p)
<1>1. n \in Nat /\ DOMAIN p = 1..n /\ n - 1 \in Nat
  BY SeqShape DEF IsRow
<1> HIDE DEF n
<1>2. PICK a : /\ a[0] = <<>>
               /\ \A m \in 1..n : a[m] = a[m - 1] \o Words(p[m])
               /\ \A m \in 0..n : a[m] \in Texts
               /\ Said(p) = a[n]
  BY SaidSteps DEF n
<1>3. PICK b : /\ b[0] = <<>>
               /\ \A m \in 1..n : b[m] = b[m - 1] \o Words(q[m])
               /\ Said(q) = b[n]
  <2>1. Len(q) = n
    BY DEF n
  <2> QED BY <2>1, SaidSteps
<1>4. a[n - 1] = b[n - 1]
  <2>1. \A m \in 1..(n - 1) : m \in 1..n /\ q[m] = p[m]
    BY <1>1 DEF n
  <2>2. SaysUpTo(p, n - 1, a) /\ SaysUpTo(q, n - 1, b)
    <3>1. \A m \in 1..(n - 1) : m \in 1..n
      BY <1>1
    <3>2. SaysUpTo(p, n - 1, a)
      BY <1>2, <3>1 DEF SaysUpTo
    <3>3. SaysUpTo(q, n - 1, b)
      BY <1>3, <3>1 DEF SaysUpTo
    <3> QED BY <3>2, <3>3
  <2>3. \A m \in 1..(n - 1) : Words(p[m]) = Words(q[m])
    BY <2>1
  <2> QED BY <1>1, <2>2, <2>3, SameWords
<1>5. n \in 1..n /\ n - 1 \in 0..n
  BY <1>1
<1>6. a[n] = a[n - 1] \o Words(p[n]) /\ b[n] = a[n - 1] \o (Words(p[n]) \o t)
  BY <1>2, <1>3, <1>4, <1>5 DEF n
<1>7. a[n - 1] \in Texts /\ Words(p[n]) \in Texts
  BY <1>1, <1>2, <1>5, WordsText DEF IsRow
<1>8. b[n] = a[n] \o t
  <2> DEFINE y == a[n - 1]
             w == Words(p[n])
  <2>1. y \in Texts /\ w \in Texts
    BY <1>7
  <2>2. (y \o w) \o t = y \o (w \o t)
    <3> HIDE DEF y, w
    <3> QED BY <2>1, ConcatAssoc
  <2> QED BY <1>6, <2>2
<1> QED BY <1>2, <1>3, <1>8

\* The numbers of I up to n.
Chosen(I, n) == Picked([i \in 1..n |-> i], I)

ChoosesUpTo(I, n, kept) ==
  /\ kept[0] = <<>>
  /\ \A m \in 1..n : kept[m] = IF m \in I THEN Append(kept[m - 1], m) ELSE kept[m - 1]

LEMMA ChosenSteps ==
  ASSUME NEW I, NEW n \in Nat
  PROVE  \E kept : ChoosesUpTo(I, n, kept) /\ Chosen(I, n) = kept[n]
<1> DEFINE s == [i \in 1..n |-> i]
<1>1. DOMAIN s = 1..n /\ Len(s) = n /\ \A i \in 1..n : s[i] = i
  OBVIOUS
<1>2. IsSeq(s)
  <2>1. s \in Seq(1..n)
    OBVIOUS
  <2> QED BY <2>1, SeqIs
<1> HIDE DEF s
<1>3. PICK kept : /\ kept[0] = <<>>
                  /\ \A m \in 1..n : kept[m] = IF m \in I THEN Append(kept[m - 1], s[m])
                                               ELSE kept[m - 1]
                  /\ Picked(s, I) = kept[n]
  <2>1. \E kept : /\ kept[0] = <<>>
                  /\ \A m \in 1..Len(s) : kept[m] = IF m \in I THEN Append(kept[m - 1], s[m])
                                               ELSE kept[m - 1]
                  /\ Picked(s, I) = kept[Len(s)]
    BY <1>2, PickedSteps
  <2> QED BY <1>1, <2>1
<1>4. ChoosesUpTo(I, n, kept)
  BY <1>1, <1>3 DEF ChoosesUpTo
<1> QED BY <1>3, <1>4 DEF Chosen, s

\* The same numbers are chosen, the same sequence results.
LEMMA ChosenSame ==
  ASSUME NEW I, NEW J, NEW n \in Nat, \A i \in 1..n : i \in I <=> i \in J,
         NEW a, NEW b, ChoosesUpTo(I, n, a), ChoosesUpTo(J, n, b)
  PROVE  a[n] = b[n]
<1> DEFINE S == {m \in Nat : m <= n => a[m] = b[m]}
<1>1. 0 \in S
  BY DEF ChoosesUpTo
<1>2. ASSUME NEW m \in S PROVE m + 1 \in S
  <2> SUFFICES ASSUME m + 1 <= n PROVE a[m + 1] = b[m + 1]
    OBVIOUS
  <2>1. m + 1 \in 1..n /\ (m + 1) - 1 = m /\ a[m] = b[m]
    OBVIOUS
  <2>2. /\ a[m + 1] = IF m + 1 \in I THEN Append(a[m], m + 1) ELSE a[m]
        /\ b[m + 1] = IF m + 1 \in J THEN Append(b[m], m + 1) ELSE b[m]
    BY <2>1 DEF ChoosesUpTo
  <2> QED BY <2>1, <2>2
<1>3. S = Nat
  <2>1. S \in SUBSET Nat
    OBVIOUS
  <2> HIDE DEF S
  <2> QED BY <1>1, <1>2, <2>1, Induction
<1>4. n \in S
  BY <1>3
<1> QED BY <1>4

LEMMA ChosenUpTo ==
  ASSUME NEW I, NEW J, NEW n \in Nat, \A i \in 1..n : i \in I <=> i \in J
  PROVE  /\ Chosen(I, n) = Chosen(J, n)
         /\ Chosen(I, n + 1) = IF n + 1 \in I THEN Append(Chosen(J, n), n + 1) ELSE Chosen(J, n)
<1>1. PICK b : ChoosesUpTo(J, n, b) /\ Chosen(J, n) = b[n]
  BY ChosenSteps
<1>2. PICK a : ChoosesUpTo(I, n, a) /\ Chosen(I, n) = a[n]
  BY ChosenSteps
<1>3. PICK c : ChoosesUpTo(I, n + 1, c) /\ Chosen(I, n + 1) = c[n + 1]
  <2>1. n + 1 \in Nat
    OBVIOUS
  <2> QED BY <2>1, ChosenSteps
<1>4. a[n] = b[n]
  BY <1>1, <1>2, ChosenSame
<1>5. c[n] = b[n]
  <2>1. ChoosesUpTo(I, n, c)
    BY <1>3 DEF ChoosesUpTo
  <2> QED BY <1>1, <2>1, ChosenSame
<1>6. c[n + 1] = IF n + 1 \in I THEN Append(c[n], n + 1) ELSE c[n]
  <2>1. n + 1 \in 1..(n + 1) /\ (n + 1) - 1 = n
    OBVIOUS
  <2> QED BY <1>3, <2>1 DEF ChoosesUpTo
<1> QED BY <1>1, <1>2, <1>3, <1>4, <1>5, <1>6

LEMMA ChosenIs ==
  ASSUME NEW I, NEW n \in Nat
  PROVE  /\ Chosen(I, n) \in Texts
         /\ Chosen(I, n) = <<>> <=> \A i \in 1..n : i \notin I
<1> DEFINE S == {m \in Nat : /\ Chosen(I, m) \in Texts
                             /\ Chosen(I, m) = <<>> <=> \A i \in 1..m : i \notin I}
<1>1. 0 \in S
  <2>1. Chosen(I, 0) = <<>>
    BY ChosenSteps DEF ChoosesUpTo
  <2>2. 1..0 = {} /\ <<>> \in Texts
    BY DEF Texts
  <2> QED BY <2>1, <2>2
<1>2. ASSUME NEW m \in S PROVE m + 1 \in S
  <2>1. Chosen(I, m + 1) = IF m + 1 \in I THEN Append(Chosen(I, m), m + 1) ELSE Chosen(I, m)
    BY ChosenUpTo
  <2>2. Chosen(I, m) \in Texts /\ (Chosen(I, m) = <<>> <=> \A i \in 1..m : i \notin I)
    OBVIOUS
  <2>3. m + 1 \in 1..(m + 1) /\ \A i \in 1..(m + 1) : i \in 1..m \/ i = m + 1
    OBVIOUS
  <2>4. \A i \in 1..m : i \in 1..(m + 1)
    OBVIOUS
  <2> DEFINE c == Chosen(I, m)
             d == Chosen(I, m + 1)
  <2>5. CASE m + 1 \in I
    <3>1. d = Append(c, m + 1) /\ c \in Texts /\ m + 1 \in Nat
      BY <2>1, <2>2, <2>5
    <3> HIDE DEF c, d
    <3>2. d \in Texts /\ d # <<>>
      BY <3>1 DEF Texts
    <3> QED BY <2>3, <2>5, <3>2 DEF d
  <2>6. CASE m + 1 \notin I
    <3>1. d = c
      BY <2>1, <2>6
    <3> HIDE DEF c, d
    <3>2. (\A i \in 1..m : i \notin I) <=> (\A i \in 1..(m + 1) : i \notin I)
      BY <2>3, <2>4, <2>6
    <3> QED BY <2>2, <3>1, <3>2 DEF c, d
  <2> QED BY <2>5, <2>6
<1>3. S = Nat
  <2>1. S \in SUBSET Nat
    OBVIOUS
  <2> HIDE DEF S
  <2> QED BY <1>1, <1>2, <2>1, Induction
<1> QED BY <1>3

----------------------------------------------------------------------------
(* The turns in the log: Pieces, LastOf and Remainder, of any log.         *)

PiecesIn(ring, t, from, to) ==
  Chosen({i \in (from + 1)..to : ring[i].type = "delta" /\ ring[i].turn = t}, to)

LastIn(ring, type, t, before) ==
  LET S == {i \in 1..(before - 1) : ring[i].type = type /\ ring[i].turn = t}
  IN  IF S = {} THEN 0 ELSE CHOOSE i \in S : \A j \in S : j <= i

RestIn(ring, t, seq) == PiecesIn(ring, t, LastIn(ring, "interim", t, seq), seq - 1)

IsLast(ring, type, t, n, last) ==
  /\ last \in 0..n
  /\ last # 0 => ring[last].type = type /\ ring[last].turn = t
  /\ \A i \in 1..n : ring[i].type = type /\ ring[i].turn = t => i <= last

LEMMA LastIs ==
  ASSUME NEW ring, NEW type, NEW t, NEW n \in Nat
  PROVE  IsLast(ring, type, t, n, LastIn(ring, type, t, n + 1))
<1> DEFINE S == {i \in 1..n : ring[i].type = type /\ ring[i].turn = t}
           last == IF S = {} THEN 0 ELSE CHOOSE i \in S : \A j \in S : j <= i
<1>1. LastIn(ring, type, t, n + 1) = last
  <2>1. (n + 1) - 1 = n
    OBVIOUS
  <2> QED BY <2>1 DEF LastIn
<1>2. CASE S = {}
  BY <1>1, <1>2 DEF IsLast
<1>3. CASE S # {}
  <2> DEFINE T == {d \in Nat : n - d \in S}
  <2>1. PICK k \in S : TRUE
    BY <1>3
  <2>2. n - k \in T
    <3>1. k \in 1..n /\ n - (n - k) = k /\ n - k \in Nat
      OBVIOUS
    <3> QED BY <3>1
  <2>3. PICK d \in T : \A e \in T : d <= e
    <3>1. T \in SUBSET Nat /\ T # {}
      BY <2>2
    <3> HIDE DEF T
    <3> QED BY <3>1, LeastElement
  <2>4. ASSUME NEW j \in S PROVE j <= n - d
    <3>1. j \in 1..n /\ n - (n - j) = j /\ n - j \in Nat
      OBVIOUS
    <3>2. n - j \in T
      BY <3>1
    <3>3. d <= n - j /\ d \in Nat
      BY <2>3, <3>2
    <3> QED BY <3>1, <3>3
  <2>5. n - d \in S
    BY <2>3
  <2>6. last \in S /\ \A j \in S : j <= last
    <3> HIDE DEF S
    <3> QED BY <1>3, <2>4, <2>5
  <2> HIDE DEF last
  <2>7. IsLast(ring, type, t, n, last)
    BY <2>6 DEF IsLast
  <2> QED BY <1>1, <2>7
<1> QED BY <1>2, <1>3

LEMMA OneLast ==
  ASSUME NEW ring, NEW type, NEW t, NEW n \in Nat, NEW a, NEW b,
         IsLast(ring, type, t, n, a), IsLast(ring, type, t, n, b)
  PROVE  a = b
<1>1. a \in 0..n /\ b \in 0..n
  BY DEF IsLast
<1>2. a <= b
  <2>1. CASE a = 0
    BY <1>1, <2>1
  <2>2. CASE a # 0
    <3>1. a \in 1..n
      BY <1>1, <2>2
    <3> QED BY <2>2, <3>1 DEF IsLast
  <2> QED BY <2>1, <2>2
<1>3. b <= a
  <2>1. CASE b = 0
    BY <1>1, <2>1
  <2>2. CASE b # 0
    <3>1. b \in 1..n
      BY <1>1, <2>2
    <3> QED BY <2>2, <3>1 DEF IsLast
  <2> QED BY <2>1, <2>2
<1> QED BY <1>1, <1>2, <1>3

\* The last of a kind, one frame later.
LEMMA LastSteps ==
  ASSUME NEW ring, NEW type, NEW t, NEW n \in Nat
  PROVE  LastIn(ring, type, t, (n + 1) + 1) =
           IF ring[n + 1].type = type /\ ring[n + 1].turn = t THEN n + 1
           ELSE LastIn(ring, type, t, n + 1)
<1> DEFINE a == LastIn(ring, type, t, (n + 1) + 1)
           b == LastIn(ring, type, t, n + 1)
           is == ring[n + 1].type = type /\ ring[n + 1].turn = t
<1>1. IsLast(ring, type, t, n + 1, a) /\ n + 1 \in Nat
  <2>1. n + 1 \in Nat
    OBVIOUS
  <2> QED BY <2>1, LastIs
<1>2. IsLast(ring, type, t, n, b)
  BY LastIs
<1> HIDE DEF a, b
<1>3. \A i \in 1..(n + 1) : i \in 1..n \/ i = n + 1
  OBVIOUS
<1>4. IsLast(ring, type, t, n + 1, IF is THEN n + 1 ELSE b)
  <2>1. CASE is
    BY <2>1 DEF IsLast
  <2>2. CASE ~is
    <3>1. b \in 0..(n + 1)
      BY <1>2 DEF IsLast
    <3> QED BY <1>2, <1>3, <2>2, <3>1 DEF IsLast
  <2> QED BY <2>1, <2>2
<1> HIDE DEF is
<1>5. a = IF is THEN n + 1 ELSE b
  BY <1>1, <1>4, OneLast
<1> QED BY <1>5 DEF a, b, is

\* The pieces, one frame later.
LEMMA PiecesStep ==
  ASSUME NEW ring, NEW t, NEW from \in Nat, NEW n \in Nat, from <= n
  PROVE  /\ PiecesIn(ring, t, from, n + 1) =
              IF ring[n + 1].type = "delta" /\ ring[n + 1].turn = t
              THEN Append(PiecesIn(ring, t, from, n), n + 1) ELSE PiecesIn(ring, t, from, n)
         /\ PiecesIn(ring, t, n, n) = <<>>
         /\ PiecesIn(ring, t, from, n) \in Texts
<1> DEFINE is(i) == ring[i].type = "delta" /\ ring[i].turn = t
           I == {i \in (from + 1)..(n + 1) : is(i)}
           J == {i \in (from + 1)..n : is(i)}
           K == {i \in (n + 1)..n : is(i)}
<1>1. PiecesIn(ring, t, from, n + 1) = Chosen(I, n + 1)
  BY DEF PiecesIn
<1>2. PiecesIn(ring, t, from, n) = Chosen(J, n)
  BY DEF PiecesIn
<1>3. PiecesIn(ring, t, n, n) = Chosen(K, n)
  BY DEF PiecesIn
<1> HIDE DEF is
<1>4. \A i \in 1..n : i \in I <=> i \in J
  OBVIOUS
<1>5. n + 1 \in I <=> is(n + 1)
  OBVIOUS
<1>6. \A i \in 1..n : i \notin K
  OBVIOUS
<1> HIDE DEF I, J, K
<1>7. Chosen(I, n + 1) = IF n + 1 \in I THEN Append(Chosen(J, n), n + 1) ELSE Chosen(J, n)
  <2> HIDE DEF is
  <2> QED BY ONLY n \in Nat, <1>4, ChosenUpTo
<1>8. Chosen(K, n) = <<>> /\ Chosen(J, n) \in Texts
  BY <1>6, ChosenIs
<1> QED BY <1>1, <1>2, <1>3, <1>5, <1>7, <1>8 DEF is

\* What the last frame of the turn adds.
LEMMA RestSteps ==
  ASSUME NEW ring, NEW t, NEW n \in Nat
  PROVE  /\ RestIn(ring, t, (n + 1) + 1) =
              IF ring[n + 1].turn = t /\ ring[n + 1].type = "interim" THEN <<>>
              ELSE IF ring[n + 1].turn = t /\ ring[n + 1].type = "delta"
                   THEN Append(RestIn(ring, t, n + 1), n + 1) ELSE RestIn(ring, t, n + 1)
         /\ RestIn(ring, t, n + 1) \in Texts
<1> DEFINE a == LastIn(ring, "interim", t, n + 1)
           b == LastIn(ring, "interim", t, (n + 1) + 1)
<1>1. RestIn(ring, t, n + 1) = PiecesIn(ring, t, a, n)
  <2>1. (n + 1) - 1 = n
    OBVIOUS
  <2> QED BY <2>1 DEF RestIn
<1>2. RestIn(ring, t, (n + 1) + 1) = PiecesIn(ring, t, b, n + 1)
  <2>1. ((n + 1) + 1) - 1 = n + 1
    OBVIOUS
  <2> QED BY <2>1 DEF RestIn
<1>3. b = IF ring[n + 1].type = "interim" /\ ring[n + 1].turn = t THEN n + 1 ELSE a
  BY LastSteps
<1>4. a \in 0..n
  BY LastIs DEF IsLast
<1> HIDE DEF a, b
<1>5. /\ PiecesIn(ring, t, a, n + 1) =
           IF ring[n + 1].type = "delta" /\ ring[n + 1].turn = t
           THEN Append(PiecesIn(ring, t, a, n), n + 1) ELSE PiecesIn(ring, t, a, n)
      /\ PiecesIn(ring, t, a, n) \in Texts
  BY <1>4, PiecesStep
<1>6. PiecesIn(ring, t, n + 1, n + 1) = <<>>
  <2>1. n + 1 \in Nat /\ n + 1 <= n + 1
    OBVIOUS
  <2> QED BY <2>1, PiecesStep
<1>7. CASE ring[n + 1].type = "interim" /\ ring[n + 1].turn = t
  BY <1>1, <1>2, <1>3, <1>5, <1>6, <1>7
<1>8. CASE ~(ring[n + 1].type = "interim" /\ ring[n + 1].turn = t)
  <2>1. b = a
    BY <1>3, <1>8
  <2> QED BY <1>1, <1>2, <1>5, <1>8, <2>1
<1> QED BY <1>7, <1>8

\* A log tells of its first n frames what they tell: before the b-th, up to the m-th.
LEMMA PrefixPieces ==
  ASSUME NEW r, NEW s, NEW n \in Nat, \A i \in 1..n : r[i] = s[i], NEW t, NEW m \in 0..n,
         NEW from \in Nat
  PROVE  PiecesIn(r, t, from, m) = PiecesIn(s, t, from, m)
<1> DEFINE I == {i \in (from + 1)..m : r[i].type = "delta" /\ r[i].turn = t}
           J == {i \in (from + 1)..m : s[i].type = "delta" /\ s[i].turn = t}
<1>1. \A i \in (from + 1)..m : r[i] = s[i]
  OBVIOUS
<1>2. I = J
  BY <1>1
<1> QED BY <1>2 DEF PiecesIn

LEMMA PrefixLast ==
  ASSUME NEW r, NEW s, NEW n \in Nat, \A i \in 1..n : r[i] = s[i], NEW t,
         NEW b \in 1..(n + 1), NEW type
  PROVE  LastIn(r, type, t, b) = LastIn(s, type, t, b)
<1> DEFINE m == b - 1
<1>1. m \in 0..n /\ b = m + 1 /\ m \in Nat
  OBVIOUS
<1> HIDE DEF m
<1>2. \A i \in 1..m : r[i] = s[i]
  BY <1>1
<1> DEFINE a == LastIn(r, type, t, m + 1)
           z == LastIn(s, type, t, m + 1)
<1>3. IsLast(r, type, t, m, a) /\ IsLast(s, type, t, m, z)
  BY <1>1, LastIs
<1> HIDE DEF a, z
<1>4. z # 0 => z \in 1..m
  BY <1>3 DEF IsLast
<1>5. IsLast(r, type, t, m, z)
  BY <1>2, <1>3, <1>4 DEF IsLast
<1>6. a = z
  BY <1>1, <1>3, <1>5, OneLast
<1> QED BY <1>1, <1>6 DEF a, z

LEMMA PrefixTells ==
  ASSUME NEW r, NEW s, NEW n \in Nat, \A i \in 1..n : r[i] = s[i], NEW t,
         NEW b \in 1..(n + 1)
  PROVE  RestIn(r, t, b) = RestIn(s, t, b)
<1> DEFINE a == LastIn(r, "interim", t, b)
           z == LastIn(s, "interim", t, b)
<1>1. b - 1 \in 0..n /\ b - 1 \in Nat /\ (b - 1) + 1 = b
  OBVIOUS
<1>2. a = z
  <2>1. ASSUME NEW type PROVE LastIn(r, type, t, b) = LastIn(s, type, t, b)
    BY PrefixLast
  <2> QED BY <2>1
<1>3. a \in Nat
  <2>1. IsLast(r, "interim", t, b - 1, LastIn(r, "interim", t, (b - 1) + 1))
    BY <1>1, LastIs
  <2>2. IsLast(r, "interim", t, b - 1, a)
    BY <1>1, <2>1
  <2> HIDE DEF a
  <2> QED BY <2>2 DEF IsLast
<1>4. RestIn(r, t, b) = PiecesIn(r, t, a, b - 1) /\ RestIn(s, t, b) = PiecesIn(s, t, z, b - 1)
  BY DEF RestIn
<1> HIDE DEF a, z
<1>5. PiecesIn(r, t, a, b - 1) = PiecesIn(s, t, a, b - 1)
  BY <1>1, <1>3, PrefixPieces
<1> QED BY <1>2, <1>4, <1>5

\* A turn none of whose frames is among the first n has said nothing.
LEMMA NothingTold ==
  ASSUME NEW ring, NEW t, NEW n \in Nat, \A i \in 1..n : ring[i].turn # t
  PROVE  /\ \A type : LastIn(ring, type, t, n + 1) = 0
         /\ PiecesIn(ring, t, 0, n) = <<>> /\ RestIn(ring, t, n + 1) = <<>>
<1>1. ASSUME NEW type PROVE LastIn(ring, type, t, n + 1) = 0
  <2> DEFINE a == LastIn(ring, type, t, n + 1)
  <2>1. IsLast(ring, type, t, n, a)
    BY LastIs
  <2> HIDE DEF a
  <2>2. a = 0
    BY <2>1 DEF IsLast
  <2> QED BY <2>2 DEF a
<1>2. PiecesIn(ring, t, 0, n) = <<>>
  <2> DEFINE I == {i \in (0 + 1)..n : ring[i].type = "delta" /\ ring[i].turn = t}
  <2>1. \A i \in 1..n : i \notin I
    OBVIOUS
  <2>2. PiecesIn(ring, t, 0, n) = Chosen(I, n)
    BY DEF PiecesIn
  <2> HIDE DEF I
  <2> QED BY <2>1, <2>2, ChosenIs
<1>3. RestIn(ring, t, n + 1) = PiecesIn(ring, t, 0, n)
  <2>1. (n + 1) - 1 = n /\ LastIn(ring, "interim", t, n + 1) = 0
    BY <1>1
  <2> QED BY <2>1 DEF RestIn
<1> QED BY <1>1, <1>2, <1>3

\* With no interim among the first n frames, the rest is all that was said.
LEMMA NoInterim ==
  ASSUME NEW ring, NEW t, NEW n \in Nat,
         \A i \in 1..n : ring[i].type = "interim" => ring[i].turn # t
  PROVE  LastIn(ring, "interim", t, n + 1) = 0 /\ RestIn(ring, t, n + 1) = PiecesIn(ring, t, 0, n)
<1> DEFINE a == LastIn(ring, "interim", t, n + 1)
<1>1. IsLast(ring, "interim", t, n, a)
  BY LastIs
<1> HIDE DEF a
<1>2. a = 0
  BY <1>1 DEF IsLast
<1>3. (n + 1) - 1 = n
  OBVIOUS
<1> QED BY <1>2, <1>3 DEF RestIn, a

----------------------------------------------------------------------------
(* What the log of the running process tells.                              *)

\* The turn whose frame comes after the first p.
After(ring, s, p) ==
  IF p < Len(ring) THEN ring[p + 1].turn ELSE IF s.running THEN s.turn ELSE s.turn + 1

FrameTold(ring, i) ==
  LET f == ring[i]
      rest == RestIn(ring, f.turn, i)
      last == LastIn(ring, "interim", f.turn, i)
  IN  /\ f.type = "delta" => f.text = <<i>>
      /\ f.type = "interim" => f.text = rest /\ rest # <<>>
      /\ f.type \in ToolFrames => rest = <<>>
      /\ f.type = "complete" =>
           IF rest = <<>> /\ last # 0
           THEN f.previewed = TRUE /\ f.text = RestIn(ring, f.turn, last)
           ELSE f.previewed = FALSE /\ f.text = rest

TurnsTold(ring, s) ==
  \A i \in DOMAIN ring : /\ ring[i].turn \in 0..s.turn
                         /\ ring[i].type \notin Terminal => After(ring, s, i) = ring[i].turn

ToolOpenIn(ring, s) ==
  LastIn(ring, "tool.start", s.turn, Len(ring) + 1)
    > LastIn(ring, "tool.complete", s.turn, Len(ring) + 1)

LogTold(ring, s) ==
  /\ TurnsTold(ring, s)
  /\ \A i \in DOMAIN ring : FrameTold(ring, i)
  /\ s.running /\ ToolOpenIn(ring, s) => RestIn(ring, s.turn, Len(ring) + 1) = <<>>

LEMMA ModelTells ==
  /\ \A t, from, to : Pieces(t, from, to) = PiecesIn(log, t, from, to)
  /\ \A type, t, before : LastOf(type, t, before) = LastIn(log, type, t, before)
  /\ \A t, seq : Remainder(t, seq) = RestIn(log, t, seq)
  /\ ToolOpen <=> ToolOpenIn(log, session)
<1>1. \A t, from, to : Pieces(t, from, to) = PiecesIn(log, t, from, to)
  BY DEF Pieces, PiecesIn, Chosen
<1>2. \A type, t, before : LastOf(type, t, before) = LastIn(log, type, t, before)
  BY DEF LastOf, LastIn
<1>3. \A t, seq : Remainder(t, seq) = RestIn(log, t, seq)
  BY <1>1, <1>2 DEF Remainder, RestIn
<1>4. ToolOpen <=> ToolOpenIn(log, session)
  BY <1>2 DEF ToolOpen, ToolOpenIn
<1> QED BY <1>1, <1>2, <1>3, <1>4

\* A frame that was told stays told.
LEMMA FrameStays ==
  ASSUME NEW r, NEW s, NEW n \in Nat, \A i \in 1..n : r[i] = s[i], NEW i \in 1..n, FrameTold(s, i)
  PROVE  FrameTold(r, i)
<1> DEFINE f == s[i]
           last == LastIn(s, "interim", f.turn, i)
<1>1. r[i] = f /\ i - 1 \in 0..n /\ (i - 1) + 1 = i
  OBVIOUS
<1>2. \A t : LastIn(r, "interim", t, i) = LastIn(s, "interim", t, i)
             /\ RestIn(r, t, i) = RestIn(s, t, i)
  <2>1. i \in 1..(n + 1)
    OBVIOUS
  <2> QED BY <2>1, PrefixLast, PrefixTells
<1>3. last \in 0..(i - 1)
  <2>1. IsLast(s, "interim", f.turn, i - 1, last)
    <3>1. i - 1 \in Nat
      OBVIOUS
    <3>2. IsLast(s, "interim", f.turn, i - 1, LastIn(s, "interim", f.turn, (i - 1) + 1))
      BY <3>1, LastIs
    <3> QED BY <1>1, <3>2
  <2> HIDE DEF last
  <2> QED BY <2>1 DEF IsLast
<1>4. last # 0 => RestIn(r, f.turn, last) = RestIn(s, f.turn, last)
  <2> HIDE DEF last
  <2> SUFFICES ASSUME last # 0 PROVE RestIn(r, f.turn, last) = RestIn(s, f.turn, last)
    OBVIOUS
  <2>1. last \in 1..(n + 1)
    BY <1>3
  <2> QED BY <2>1, PrefixTells
<1>5. FrameTold(s, i)
  OBVIOUS
<1> QED BY <1>1, <1>2, <1>4, <1>5 DEF FrameTold

\* The turn after p frames is what it was, whatever the gateway does next.
SameTurns(r, s, ring, was) ==
  \A p \in 0..Len(ring) : After(r, s, p) = After(ring, was, p)

LEMMA SessionTells ==
  ASSUME IsLog(log), LogTold(log, session), SessionInv, NEW s,
         \/ s.running = session.running /\ s.turn = session.turn
         \/ ~session.running /\ s.running /\ s.turn = session.turn + 1
         \/ s.running = FALSE /\ ~session.running /\ s.turn = session.turn
  PROVE  LogTold(log, s) /\ SameTurns(log, s, log, session)
<1> DEFINE n == Len(log)
<1>1. n \in Nat /\ DOMAIN log = 1..n /\ session.turn \in Nat /\ session.running \in BOOLEAN
  BY SeqShape DEF IsLog, SessionInv
<1>2. SameTurns(log, s, log, session)
  BY <1>1 DEF SameTurns, After
<1>3. TurnsTold(log, s)
  <2> SUFFICES ASSUME NEW i \in DOMAIN log
               PROVE  /\ log[i].turn \in 0..s.turn
                      /\ log[i].type \notin Terminal => After(log, s, i) = log[i].turn
    BY DEF TurnsTold
  <2>1. log[i].turn \in 0..session.turn
        /\ (log[i].type \notin Terminal => After(log, session, i) = log[i].turn)
    BY DEF LogTold, TurnsTold
  <2>2. s.turn \in Nat /\ s.turn >= session.turn
    BY <1>1
  <2>3. After(log, s, i) = After(log, session, i)
    BY <1>1, <1>2 DEF SameTurns
  <2> QED BY <1>1, <2>1, <2>2, <2>3
<1>4. ASSUME s.running, ToolOpenIn(log, s) PROVE RestIn(log, s.turn, n + 1) = <<>>
  <2>1. CASE s.running = session.running /\ s.turn = session.turn
    BY <1>4, <2>1 DEF LogTold, ToolOpenIn
  <2>2. CASE s.turn = session.turn + 1
    <3>1. \A i \in 1..n : log[i].turn # s.turn
      BY <1>1, <2>2 DEF LogTold, TurnsTold
    <3>2. \A type : LastIn(log, type, s.turn, n + 1) = 0
      BY <1>1, <3>1, NothingTold
    <3>3. ~ToolOpenIn(log, s)
      BY <3>2 DEF ToolOpenIn
    <3> QED BY <1>4, <3>3
  <2> QED BY <1>4, <2>1, <2>2
<1> QED BY <1>2, <1>3, <1>4 DEF LogTold

LEMMA EmptyTells ==
  ASSUME NEW ring, ring = <<>>, NEW s, s.running = FALSE
  PROVE  LogTold(ring, s)
<1>1. DOMAIN ring = {}
  OBVIOUS
<1> QED BY <1>1 DEF LogTold, TurnsTold

\* A frame is emitted.
LEMMA EmitTells ==
  ASSUME IsLog(log), LogTold(log, session), SessionInv, NEW type \in FrameTypes, Emit(type)
  PROVE  /\ LogTold(log', session') /\ SameTurns(log', session', log, session)
         /\ log' = Append(log, Frame(type, session.turn, Len(log) + 1))
         /\ session'.turn = session.turn
<1> DEFINE n == Len(log)
           t == session.turn
           f == Frame(type, t, n + 1)
           r == log'
           rest == RestIn(log, t, n + 1)
           last == LastIn(log, "interim", t, n + 1)
<1>1. /\ r = Append(log, f) /\ session.running /\ MayEmit(type)
      /\ session'.turn = t /\ session'.running = (type \notin Terminal)
  BY DEF Emit, SessionInv
<1>2. n \in Nat /\ DOMAIN log = 1..n /\ t \in Nat /\ IsSeq(log)
  BY SeqShape DEF IsLog, SessionInv
<1>3. Len(r) = n + 1 /\ DOMAIN r = 1..(n + 1) /\ r[n + 1] = f /\ \A i \in 1..n : r[i] = log[i]
  BY <1>1, <1>2, AppendSeq
<1>4. /\ f.type = type /\ f.turn = t /\ f.text = TextOf(type, t, n + 1)
      /\ f.previewed = Previewed(type, t, n + 1)
  BY DEF Frame
<1>5. Remainder(t, n + 1) = rest /\ LastOf("interim", t, n + 1) = last
      /\ Remainder(t, last) = RestIn(log, t, last) /\ (ToolOpen <=> ToolOpenIn(log, session))
  BY ModelTells
<1>0. Len(log) = n /\ session.turn = t
  OBVIOUS
<1> HIDE DEF r, f, n, t, rest, last
<1>6. SameTurns(r, session', log, session)
  <2> SUFFICES ASSUME NEW p \in 0..n PROVE After(r, session', p) = After(log, session, p)
    BY <1>0 DEF SameTurns
  <2>1. CASE p < n
    <3>1. p + 1 \in 1..n /\ p < Len(r)
      BY <1>2, <1>3, <2>1
    <3> QED BY <1>0, <1>3, <2>1, <3>1 DEF After
  <2>2. CASE p = n
    <3>1. ~(p < n) /\ p + 1 = n + 1 /\ p < Len(r)
      BY <1>2, <1>3, <2>2
    <3> QED BY <1>0, <1>1, <1>3, <1>4, <3>1 DEF After
  <2>3. p < n \/ p = n
    BY <1>2
  <2> QED BY <2>1, <2>2, <2>3
<1>7. TurnsTold(r, session')
  <2> SUFFICES ASSUME NEW i \in 1..(n + 1)
               PROVE  /\ r[i].turn \in 0..t
                      /\ r[i].type \notin Terminal => After(r, session', i) = r[i].turn
    BY <1>1, <1>3 DEF TurnsTold
  <2>1. CASE i \in 1..n
    <3>1. log[i].turn \in 0..t
          /\ (log[i].type \notin Terminal => After(log, session, i) = log[i].turn)
      BY <1>0, <1>2, <2>1 DEF LogTold, TurnsTold
    <3>2. After(r, session', i) = After(log, session, i)
      <4>1. i \in 0..n
        BY <1>2, <2>1
      <4> QED BY <1>0, <1>6, <4>1 DEF SameTurns
    <3> QED BY <1>3, <2>1, <3>1, <3>2
  <2>2. CASE i = n + 1
    <3>1. t \in 0..t
      BY <1>2
    <3>2. type \notin Terminal => After(r, session', i) = t
      <4> SUFFICES ASSUME type \notin Terminal PROVE After(r, session', n + 1) = t
        BY <2>2
      <4>1. session'.running
        BY <1>1
      <4>2. ~(n + 1 < Len(r))
        BY <1>2, <1>3
      <4> QED BY <1>1, <4>1, <4>2 DEF After
    <3> QED BY <1>3, <1>4, <2>2, <3>1, <3>2
  <2> QED BY <1>2, <2>1, <2>2
<1>8. /\ RestIn(r, t, n + 1) = rest /\ LastIn(r, "interim", t, n + 1) = last
      /\ \A kind : LastIn(r, kind, t, n + 1) = LastIn(log, kind, t, n + 1)
  <2>1. n + 1 \in 1..(n + 1)
    BY <1>2
  <2>2. RestIn(r, t, n + 1) = RestIn(log, t, n + 1)
    BY <1>2, <1>3, <2>1, PrefixTells
  <2>3. ASSUME NEW kind PROVE LastIn(r, kind, t, n + 1) = LastIn(log, kind, t, n + 1)
    BY <1>2, <1>3, <2>1, PrefixLast
  <2> QED BY <2>2, <2>3 DEF rest, last
<1>9. last # 0 => RestIn(r, t, last) = RestIn(log, t, last)
  <2>1. last \in 0..n
    BY <1>2, LastIs DEF IsLast, last
  <2> SUFFICES ASSUME last # 0 PROVE RestIn(r, t, last) = RestIn(log, t, last)
    OBVIOUS
  <2>2. last \in 1..(n + 1)
    BY <1>2, <2>1
  <2> QED BY <1>2, <1>3, <2>2, PrefixTells
<1>10. FrameTold(r, n + 1)
  <2>1. Previewed(type, t, n + 1) = (type = "complete" /\ rest = <<>> /\ last # 0)
    BY <1>5 DEF Previewed
  <2>2. CASE type = "delta"
    <3>1. ~Previewed(type, t, n + 1)
      BY <2>1, <2>2
    <3>2. TextOf("delta", t, n + 1) = <<n + 1>>
      BY <2>2, <3>1 DEF TextOf, Terminal
    <3>3. f.text = <<n + 1>>
      BY <1>4, <2>2, <3>2
    <3> QED BY <1>3, <1>4, <2>2, <3>3 DEF FrameTold, ToolFrames
  <2>3. CASE type = "interim"
    <3>1. ~Previewed(type, t, n + 1)
      BY <2>1, <2>3
    <3>2. f.text = rest
      BY <1>4, <1>5, <2>3, <3>1 DEF TextOf
    <3>3. rest # <<>>
      BY <1>1, <1>5, <2>3 DEF MayEmit, n, t
    <3> QED BY <1>3, <1>4, <1>8, <2>3, <3>2, <3>3 DEF FrameTold, ToolFrames
  <2>4. CASE type \in ToolFrames
    <3>1. rest = <<>>
      <4>1. CASE type = "tool.start"
        BY <1>1, <1>5, <4>1 DEF MayEmit, n, t
      <4>2. CASE type \in {"tool.progress", "tool.complete"}
        <5>1. ToolOpen
          BY <1>1, <4>2 DEF MayEmit
        <5> QED BY <1>1, <1>5, <5>1 DEF LogTold, n, t, rest
      <4> QED BY <2>4, <4>1, <4>2 DEF ToolFrames
    <3> QED BY <1>3, <1>4, <1>8, <2>4, <3>1 DEF FrameTold, ToolFrames
  <2>5. CASE type = "complete"
    <3>1. CASE Previewed(type, t, n + 1)
      <4>1. f.text = Remainder(t, last)
        BY <1>4, <1>5, <2>5, <3>1 DEF TextOf
      <4> QED BY <1>3, <1>4, <1>5, <1>8, <1>9, <2>1, <2>5, <3>1, <4>1 DEF FrameTold, ToolFrames
    <3>2. CASE ~Previewed(type, t, n + 1)
      <4>1. f.text = rest
        BY <1>4, <1>5, <2>5, <3>2 DEF TextOf, Terminal
      <4> QED BY <1>3, <1>4, <1>8, <2>1, <2>5, <3>2, <4>1 DEF FrameTold, ToolFrames
    <3> QED BY <3>1, <3>2
  <2>6. CASE type \in {"todo", "prompt", "expire", "error"}
    BY <1>3, <1>4, <2>6 DEF FrameTold, ToolFrames
  <2> QED BY <2>2, <2>3, <2>4, <2>5, <2>6 DEF FrameTypes, Durable, Terminal
<1>11. ASSUME NEW i \in DOMAIN r PROVE FrameTold(r, i)
  <2>1. CASE i \in 1..n
    <3>1. FrameTold(log, i)
      BY <1>2, <2>1 DEF LogTold
    <3> QED BY <1>2, <1>3, <2>1, <3>1, FrameStays
  <2> QED BY <1>2, <1>3, <1>10, <2>1
<1>12. ASSUME session'.running, ToolOpenIn(r, session') PROVE RestIn(r, t, Len(r) + 1) = <<>>
  <2> DEFINE start == LastIn(log, "tool.start", t, n + 1)
             done == LastIn(log, "tool.complete", t, n + 1)
  <2>1. start \in 0..n /\ done \in 0..n
    BY <1>2, LastIs DEF IsLast
  <2>2. /\ LastIn(r, "tool.start", t, (n + 1) + 1) = IF type = "tool.start" THEN n + 1 ELSE start
        /\ LastIn(r, "tool.complete", t, (n + 1) + 1)
             = IF type = "tool.complete" THEN n + 1 ELSE done
    BY <1>2, <1>3, <1>4, <1>8, LastSteps
  <2>3. RestIn(r, t, (n + 1) + 1) = IF type = "interim" THEN <<>>
                                     ELSE IF type = "delta" THEN Append(rest, n + 1) ELSE rest
    BY <1>2, <1>3, <1>4, <1>8, RestSteps
  <2>4. ToolOpenIn(log, session) <=> start > done
    BY <1>0 DEF ToolOpenIn
  <2> HIDE DEF start, done
  <2>5. type # "tool.complete" /\ (type = "tool.start" \/ start > done)
    BY <1>1, <1>2, <1>3, <1>12, <2>1, <2>2 DEF ToolOpenIn
  <2>6. type # "delta"
    BY <1>1, <1>5, <2>4, <2>5 DEF MayEmit
  <2>7. type # "interim" => rest = <<>>
    <3>1. CASE type = "tool.start"
      BY <1>0, <1>1, <1>5, <3>1 DEF MayEmit
    <3>2. CASE start > done
      BY <1>0, <1>1, <2>4, <3>2 DEF LogTold, rest
    <3> QED BY <2>5, <3>1, <3>2
  <2> QED BY <1>3, <2>3, <2>6, <2>7
<1>13. LogTold(r, session')
  BY <1>1, <1>7, <1>11, <1>12 DEF LogTold
<1> QED BY <1>0, <1>1, <1>6, <1>13 DEF r, f

----------------------------------------------------------------------------
(* The parts of a row that tells its turn.                                 *)

LEMMA MaxIs ==
  ASSUME NEW n \in Nat, NEW I \in SUBSET (1..n), I # {}
  PROVE  Max(I) \in I /\ \A i \in I : i <= Max(I)
<1> DEFINE T == {d \in Nat : n - d \in I}
<1>1. PICK k \in I : TRUE
  OBVIOUS
<1>2. n - k \in T
  <2>1. k \in 1..n /\ n - (n - k) = k /\ n - k \in Nat
    OBVIOUS
  <2> QED BY <2>1
<1>3. PICK d \in T : \A e \in T : d <= e
  <2>1. T \in SUBSET Nat /\ T # {}
    BY <1>2
  <2> HIDE DEF T
  <2> QED BY <2>1, LeastElement
<1>4. ASSUME NEW j \in I PROVE n - d >= j
  <2>1. j \in 1..n /\ n - (n - j) = j /\ n - j \in Nat
    OBVIOUS
  <2>2. n - j \in T
    BY <2>1
  <2>3. d <= n - j /\ d \in Nat
    BY <1>3, <2>2
  <2> QED BY <2>1, <2>3
<1>5. n - d \in I
  BY <1>3
<1>6. Max(I) \in I /\ \A y \in I : Max(I) >= y
  BY <1>4, <1>5 DEF Max
<1>7. \A i \in I : i <= Max(I)
  <2>1. \A i \in I : i \in Nat
    OBVIOUS
  <2> QED BY <1>6, <2>1
<1> QED BY <1>6, <1>7

\* Only the last part is open, and only while there is a rest: the text since the
\* last interim.
RestIsOpen(parts, rest) ==
  /\ \A i \in DOMAIN parts : OpenText(parts[i]) <=> (rest # <<>> /\ i = Len(parts))
  /\ rest # <<>> => Len(parts) # 0 /\ parts[Len(parts)].text = rest

\* The last of the sealed segments says so.
LastSealed(parts, text) ==
  \E i \in DOMAIN parts : /\ parts[i].type = "text" /\ parts[i].sealed /\ parts[i].text = text
                          /\ \A j \in DOMAIN parts : j > i => parts[j].type # "text"

LEMMA PartText ==
  ASSUME NEW t \in Texts, NEW s \in BOOLEAN
  PROVE  /\ IsPart(TextPart(t, s)) /\ Words(TextPart(t, s)) = t
         /\ TextPart(t, s).type = "text" /\ TextPart(t, s).text = t /\ TextPart(t, s).sealed = s
         /\ OpenText(TextPart(t, s)) <=> ~s
  BY DEF TextPart, IsPart, Words, OpenText

\* One part of a row is replaced.
LEMMA RowExcept ==
  ASSUME NEW parts, IsRow(parts), NEW n \in DOMAIN parts, NEW x, IsPart(x)
  PROVE  LET q == [parts EXCEPT ![n] = x]
         IN  /\ IsRow(q) /\ Len(q) = Len(parts) /\ DOMAIN q = DOMAIN parts /\ q[n] = x
             /\ \A i \in DOMAIN parts : i # n => q[i] = parts[i]
<1> DEFINE q == [parts EXCEPT ![n] = x]
           S == {parts[i] : i \in DOMAIN parts} \cup {x}
<1>1. parts \in Seq(S)
  <2>1. parts \in Seq({parts[i] : i \in DOMAIN parts})
    BY DEF IsRow, IsSeq
  <2>2. Len(parts) \in Nat /\ DOMAIN parts = 1..Len(parts)
        /\ parts = [i \in 1..Len(parts) |-> parts[i]]
    BY <2>1
  <2>3. \A i \in 1..Len(parts) : parts[i] \in S
    BY <2>2
  <2> QED BY <2>2, <2>3
<1>2. x \in S
  OBVIOUS
<1> HIDE DEF S
<1>3. q \in Seq(S) /\ Len(q) = Len(parts) /\ DOMAIN q = DOMAIN parts
  BY <1>1, <1>2
<1>4. q[n] = x /\ \A i \in DOMAIN parts : i # n => q[i] = parts[i]
  OBVIOUS
<1>5. IsSeq(q)
  BY <1>3, SeqIs
<1> HIDE DEF q
<1>6. IsRow(q)
  BY <1>3, <1>4, <1>5 DEF IsRow
<1> QED BY <1>3, <1>4, <1>6 DEF q

\* appendAssistantText
LEMMA AppendedTells ==
  ASSUME NEW parts, IsRow(parts), NEW rest \in Texts, RestIsOpen(parts, rest),
         NEW t \in Texts, t # <<>>
  PROVE  /\ IsRow(Appended(parts, t)) /\ Said(Appended(parts, t)) = Said(parts) \o t
         /\ RestIsOpen(Appended(parts, t), rest \o t) /\ rest \o t # <<>>
<1> DEFINE n == Len(parts)
           q == Appended(parts, t)
<1>1. n \in Nat /\ DOMAIN parts = 1..n
  BY SeqShape DEF IsRow
<1>2. rest \o t # <<>> /\ rest \o t \in Texts /\ (rest = <<>> => rest \o t = t)
  <2>1. rest \o t \in Texts /\ (rest = <<>> => rest \o t = t)
    BY ConcatTexts
  <2>2. Len(rest \o t) = Len(rest) + Len(t) /\ Len(t) # 0 /\ Len(t) \in Nat /\ Len(rest) \in Nat
    BY DEF Texts
  <2>3. Len(rest \o t) # 0
    BY <2>2
  <2> QED BY <2>1, <2>3
<1>5. q = IF n > 0 /\ OpenText(parts[n]) THEN [parts EXCEPT ![n].text = @ \o t]
          ELSE Append(parts, TextPart(t, FALSE))
  BY DEF Appended
<1>6. Len(parts) = n
  OBVIOUS
<1> HIDE DEF n, q
<1>3. CASE rest # <<>>
  <2>1. n # 0 /\ n \in DOMAIN parts /\ OpenText(parts[n]) /\ parts[n].text = rest
    <3>1. n # 0 /\ parts[n].text = rest /\ \A i \in DOMAIN parts : OpenText(parts[i]) <=> i = n
      BY <1>3, <1>6 DEF RestIsOpen
    <3>2. n \in DOMAIN parts
      BY <1>1, <3>1
    <3> QED BY <3>1, <3>2
  <2> DEFINE x == [parts[n] EXCEPT !.text = rest \o t]
  <2>2. q = [parts EXCEPT ![n] = x]
    <3>1. n > 0
      BY <1>1, <2>1
    <3>2. q = [parts EXCEPT ![n].text = parts[n].text \o t]
      BY <1>5, <2>1, <3>1
    <3> QED BY <2>1, <3>2
  <2>3. IsPart(parts[n]) /\ parts[n].type = "text" /\ ~parts[n].sealed
    BY <2>1 DEF IsRow, OpenText
  <2>4. x.type = "text" /\ x.text = rest \o t /\ x.sealed = parts[n].sealed
        /\ DOMAIN x = {"type", "text", "sealed"}
    BY <2>3 DEF IsPart
  <2>5. IsPart(x) /\ OpenText(x) /\ Words(x) = rest \o t /\ Words(parts[n]) = rest
    BY <1>2, <2>1, <2>3, <2>4 DEF IsPart, OpenText, Words
  <2> HIDE DEF x, q
  <2>6. /\ IsRow(q) /\ Len(q) = n /\ DOMAIN q = DOMAIN parts /\ q[n] = x
        /\ \A i \in DOMAIN parts : i # n => q[i] = parts[i]
    BY <2>1, <2>2, <2>5, RowExcept DEF n
  <2>7. Said(q) = Said(parts) \o t
    <3>1. Len(parts) = n
      BY DEF n
    <3>2. \A i \in 1..(n - 1) : q[i] = parts[i]
      BY <1>1, <2>6
    <3>3. Words(q[n]) = Words(parts[n]) \o t
      BY <2>5, <2>6
    <3> QED BY <2>1, <2>6, <3>1, <3>2, <3>3, SaidOn
  <2>8. RestIsOpen(q, rest \o t)
    <3>1. \A i \in DOMAIN parts : i # n => ~OpenText(parts[i])
      BY DEF RestIsOpen, n
    <3>2. \A i \in DOMAIN q : OpenText(q[i]) <=> i = n
      BY <2>1, <2>5, <2>6, <3>1
    <3> QED BY <1>2, <2>1, <2>4, <2>6, <3>2 DEF RestIsOpen
  <2> QED BY <1>2, <2>6, <2>7, <2>8 DEF q
<1>4. CASE rest = <<>>
  <2>1. \A i \in DOMAIN parts : ~OpenText(parts[i])
    BY <1>4 DEF RestIsOpen
  <2>2. q = Append(parts, TextPart(t, FALSE))
    <3>1. ~(n > 0 /\ OpenText(parts[n]))
      <4>1. n > 0 => n \in DOMAIN parts
        BY <1>1
      <4> QED BY <2>1, <4>1
    <3> QED BY <1>5, <3>1
  <2>3. IsPart(TextPart(t, FALSE)) /\ Words(TextPart(t, FALSE)) = t
        /\ OpenText(TextPart(t, FALSE)) /\ TextPart(t, FALSE).text = t
    BY PartText
  <2>4. IsRow(q) /\ Said(q) = Said(parts) \o t
    BY <2>2, <2>3, SaidMore
  <2>5. /\ Len(q) = n + 1 /\ DOMAIN q = 1..(n + 1) /\ q[n + 1] = TextPart(t, FALSE)
        /\ \A i \in DOMAIN parts : q[i] = parts[i]
    <3>1. IsSeq(parts)
      BY DEF IsRow
    <3> DEFINE y == TextPart(t, FALSE)
    <3> HIDE DEF y
    <3>2. /\ Len(Append(parts, y)) = Len(parts) + 1 /\ DOMAIN Append(parts, y) = 1..(Len(parts) + 1)
          /\ Append(parts, y)[Len(parts) + 1] = y
          /\ \A i \in DOMAIN parts : Append(parts, y)[i] = parts[i]
      BY <3>1, AppendSeq
    <3>3. q = Append(parts, y)
      BY <2>2 DEF y
    <3>4. /\ Len(q) = n + 1 /\ DOMAIN q = 1..(n + 1) /\ q[n + 1] = y
          /\ \A i \in DOMAIN parts : q[i] = parts[i]
      BY <1>6, <3>2, <3>3
    <3> QED BY <3>4 DEF y
  <2>6. RestIsOpen(q, t)
    <3>1. \A i \in DOMAIN parts : ~OpenText(q[i]) /\ i # n + 1
      <4>1. \A i \in DOMAIN parts : i # n + 1
        BY <1>1
      <4> QED BY <2>1, <2>5, <4>1
    <3>2. \A i \in DOMAIN q : i \in DOMAIN parts \/ i = n + 1
      BY <1>1, <2>5
    <3>3. OpenText(q[n + 1]) /\ q[n + 1].text = t
      BY <2>3, <2>5
    <3>4. Len(q) # 0
      BY <1>1, <2>5
    <3>5. \A i \in DOMAIN q : OpenText(q[i]) <=> i = Len(q)
      BY <2>5, <3>1, <3>2, <3>3
    <3>6. q[Len(q)].text = t
      BY <2>5, <3>3
    <3> QED BY <3>4, <3>5, <3>6 DEF RestIsOpen
  <2> QED BY <1>2, <1>4, <2>4, <2>6 DEF q
<1> QED BY <1>3, <1>4

\* Where the open text is.
LEMMA OpenIs ==
  ASSUME NEW parts, IsRow(parts), NEW rest, RestIsOpen(parts, rest)
  PROVE  SelectLastInSeq(parts, OpenText) = IF rest = <<>> THEN 0 ELSE Len(parts)
<1> DEFINE n == Len(parts)
           I == {i \in 1..n : OpenText(parts[i])}
<1>1. n \in Nat /\ DOMAIN parts = 1..n
  BY SeqShape DEF IsRow
<1>2. SelectLastInSeq(parts, OpenText) = IF I # {} THEN Max(I) ELSE 0
  BY DEF SelectLastInSeq
<1>3. CASE rest = <<>>
  <2>1. I = {}
    BY <1>1, <1>3 DEF RestIsOpen
  <2> QED BY <1>2, <1>3, <2>1
<1>4. CASE rest # <<>>
  <2>0. Len(parts) = n
    OBVIOUS
  <2> HIDE DEF n
  <2>1. n \in 1..n /\ \A i \in 1..n : OpenText(parts[i]) <=> i = n
    <3>1. n # 0 /\ \A i \in DOMAIN parts : OpenText(parts[i]) <=> i = n
      BY <1>4, <2>0 DEF RestIsOpen
    <3> QED BY <1>1, <3>1
  <2>2. n \in I /\ \A i \in I : i = n
    BY <2>1
  <2>3. Max(I) \in I
    <3>1. I \in SUBSET (1..n) /\ I # {}
      BY <2>2
    <3> HIDE DEF I
    <3> QED BY <1>1, <3>1, MaxIs
  <2> QED BY <1>2, <1>4, <2>2, <2>3 DEF n
<1> QED BY <1>3, <1>4

\* sealAssistantText
LEMMA SealedTells ==
  ASSUME NEW parts, IsRow(parts), NEW rest \in Texts, rest # <<>>, RestIsOpen(parts, rest)
  PROVE  LET q == SealedText(parts, rest)
         IN  IsRow(q) /\ Said(q) = Said(parts) /\ RestIsOpen(q, <<>>) /\ LastSealed(q, rest)
<1> DEFINE n == Len(parts)
           q == SealedText(parts, rest)
           x == TextPart(rest, TRUE)
<1>1. n \in Nat /\ DOMAIN parts = 1..n
  BY SeqShape DEF IsRow
<1>2. SelectLastInSeq(parts, OpenText) = n
  BY OpenIs
<1>3. n # 0 /\ parts[n].text = rest /\ n \in DOMAIN parts /\ OpenText(parts[n])
  BY <1>1 DEF RestIsOpen
<1>11. Len(parts) = n
  OBVIOUS
<1> HIDE DEF n
<1>4. q = [parts EXCEPT ![n] = x]
  BY <1>2, <1>3 DEF SealedText, Reconciled
<1>5. /\ IsPart(x) /\ Words(x) = rest /\ ~OpenText(x)
      /\ x.type = "text" /\ x.text = rest /\ x.sealed = TRUE
  BY PartText
<1>6. Words(parts[n]) = rest
  BY <1>3 DEF OpenText, Words
<1> HIDE DEF x, q
<1>7. /\ IsRow(q) /\ Len(q) = n /\ DOMAIN q = DOMAIN parts /\ q[n] = x
      /\ \A i \in DOMAIN parts : i # n => q[i] = parts[i]
  <2>1. n \in DOMAIN parts /\ IsPart(x)
    BY <1>3, <1>5
  <2> DEFINE r == [parts EXCEPT ![n] = x]
  <2>2. /\ IsRow(r) /\ Len(r) = Len(parts) /\ DOMAIN r = DOMAIN parts /\ r[n] = x
        /\ \A i \in DOMAIN parts : i # n => r[i] = parts[i]
    BY <2>1, RowExcept
  <2>3. q = r
    BY <1>4
  <2> HIDE DEF r
  <2> QED BY <1>11, <2>2, <2>3
<1>8. Said(q) = Said(parts)
  <2>1. \A i \in DOMAIN parts : Words(parts[i]) = Words(q[i])
    BY <1>5, <1>6, <1>7
  <2>2. Len(parts) = Len(q)
    BY <1>7 DEF n
  <2>3. Said(parts) = Said(q)
    BY <1>7, <2>1, <2>2, SaidSame
  <2> QED BY <2>3
<1>9. RestIsOpen(q, <<>>)
  <2>1. \A i \in DOMAIN parts : i # n => ~OpenText(parts[i])
    BY DEF RestIsOpen, n
  <2>2. \A i \in DOMAIN q : ~OpenText(q[i])
    BY <1>5, <1>7, <2>1
  <2> QED BY <2>2 DEF RestIsOpen
<1>10. LastSealed(q, rest)
  <2>1. \A j \in DOMAIN q : ~(j > n)
    BY <1>1, <1>7
  <2> QED BY <1>3, <1>5, <1>7, <2>1 DEF LastSealed
<1> QED BY <1>7, <1>8, <1>9, <1>10 DEF q

\* updateTaskPart
LEMMA TaskTells ==
  ASSUME NEW parts, IsRow(parts), RestIsOpen(parts, <<>>), NEW message, NEW s
  PROVE  LET q == TaskUpdated(parts, message, s)
         IN  /\ IsRow(q) /\ Said(q) = Said(parts) /\ RestIsOpen(q, <<>>)
             /\ \A text : LastSealed(parts, text) => LastSealed(q, text)
<1> DEFINE q == TaskUpdated(parts, message, s)
           I == {i \in 1..Len(parts) : parts[i].type = "task" /\ parts[i].message = message}
           n == IF I # {} THEN Max(I) ELSE 0
           status == IF s = "complete" THEN "complete" ELSE "running"
           x == [parts[n] EXCEPT !.status = status]
           task == TaskPart(message, status)
<1>1. Len(parts) \in Nat /\ DOMAIN parts = 1..Len(parts)
  BY SeqShape DEF IsRow
<1>2. q = IF n > 0 /\ ~(s = "started" /\ parts[n].status = "complete")
          THEN [parts EXCEPT ![n].status = status] ELSE Append(parts, task)
  BY DEF TaskUpdated, SelectLastInSeq
<1>3. n > 0 => n \in DOMAIN parts /\ parts[n].type = "task"
  <2>1. CASE I # {}
    <3>1. I \in SUBSET (1..Len(parts))
      OBVIOUS
    <3>2. Max(I) \in I
      <4> HIDE DEF I
      <4> QED BY <1>1, <2>1, <3>1, MaxIs
    <3> QED BY <1>1, <2>1, <3>2
  <2>2. CASE I = {}
    BY <2>2
  <2> QED BY <2>1, <2>2
<1>4. \A i \in DOMAIN parts : ~OpenText(parts[i])
  BY DEF RestIsOpen
<1> HIDE DEF n
<1>5. CASE n > 0 /\ ~(s = "started" /\ parts[n].status = "complete")
  <2>1. q = [parts EXCEPT ![n] = x]
    BY <1>2, <1>5
  <2>2. n \in DOMAIN parts /\ parts[n].type = "task" /\ IsPart(parts[n])
    BY <1>3, <1>5 DEF IsRow
  <2>3. x.type = "task" /\ "type" \in DOMAIN x
    BY <2>2 DEF IsPart
  <2> HIDE DEF x
  <2>4. IsPart(x) /\ Words(x) = <<>> /\ Words(parts[n]) = <<>> /\ ~OpenText(x)
    BY <2>2, <2>3 DEF IsPart, Words, OpenText
  <2> HIDE DEF q
  <2>5. /\ IsRow(q) /\ Len(q) = Len(parts) /\ DOMAIN q = DOMAIN parts /\ q[n] = x
        /\ \A i \in DOMAIN parts : i # n => q[i] = parts[i]
    BY <2>1, <2>2, <2>4, RowExcept
  <2>6. Said(q) = Said(parts)
    <3>1. \A i \in DOMAIN parts : Words(parts[i]) = Words(q[i])
      BY <2>4, <2>5
    <3>2. Said(parts) = Said(q)
      BY <2>5, <3>1, SaidSame
    <3> QED BY <3>2
  <2>7. RestIsOpen(q, <<>>)
    BY <1>4, <2>4, <2>5 DEF RestIsOpen
  <2>8. ASSUME NEW text, LastSealed(parts, text) PROVE LastSealed(q, text)
    <3>1. PICK i \in DOMAIN parts :
            /\ parts[i].type = "text" /\ parts[i].sealed /\ parts[i].text = text
            /\ \A j \in DOMAIN parts : j > i => parts[j].type # "text"
      BY <2>8 DEF LastSealed
    <3>2. i # n
      BY <2>2, <3>1
    <3>3. \A j \in DOMAIN q : j > i => q[j].type # "text"
      BY <2>3, <2>5, <3>1
    <3> QED BY <2>5, <3>1, <3>2, <3>3 DEF LastSealed
  <2> QED BY <2>5, <2>6, <2>7, <2>8 DEF q
<1>6. CASE ~(n > 0 /\ ~(s = "started" /\ parts[n].status = "complete"))
  <2>1. q = Append(parts, task)
    BY <1>2, <1>6
  <2>2. task.type = "task" /\ IsPart(task) /\ Words(task) = <<>> /\ ~OpenText(task)
    BY DEF TaskPart, IsPart, Words, OpenText
  <2> HIDE DEF task
  <2>3. IsRow(q) /\ Said(q) = Said(parts) \o <<>> /\ Said(parts) \in Texts
    BY <2>1, <2>2, SaidMore
  <2>4. Said(q) = Said(parts)
    BY <2>3, ConcatTexts
  <2> DEFINE k == Len(parts)
  <2>5. /\ Len(q) = k + 1 /\ DOMAIN q = 1..(k + 1) /\ q[k + 1] = task
        /\ \A i \in DOMAIN parts : q[i] = parts[i]
    BY <2>1, AppendSeq DEF IsRow
  <2> HIDE DEF q, k
  <2>6. \A i \in DOMAIN q : i \in DOMAIN parts \/ i = k + 1
    BY <1>1, <2>5 DEF k
  <2>7. RestIsOpen(q, <<>>)
    BY <1>4, <2>2, <2>5, <2>6 DEF RestIsOpen
  <2>8. ASSUME NEW text, LastSealed(parts, text) PROVE LastSealed(q, text)
    <3>1. PICK i \in DOMAIN parts :
            /\ parts[i].type = "text" /\ parts[i].sealed /\ parts[i].text = text
            /\ \A j \in DOMAIN parts : j > i => parts[j].type # "text"
      BY <2>8 DEF LastSealed
    <3>2. i \in DOMAIN q
      BY <1>1, <2>5 DEF k
    <3>3. \A j \in DOMAIN q : j > i => q[j].type # "text"
      BY <2>2, <2>5, <2>6, <3>1
    <3> QED BY <2>5, <3>1, <3>2, <3>3 DEF LastSealed
  <2> QED BY <2>3, <2>4, <2>7, <2>8 DEF q
<1> QED BY <1>5, <1>6

LEMMA ReplacedOpen ==
  ASSUME NEW parts, NEW t, NEW n, n > 0, n # 0, SelectLastInSeq(parts, OpenText) = n
  PROVE  Replaced(parts, t) = [parts EXCEPT ![n].text = t]
  BY DEF Replaced

\* replaceAssistantText, by the text that is there.
LEMMA ReplacedTells ==
  ASSUME NEW parts, IsRow(parts), NEW rest \in Texts, RestIsOpen(parts, rest)
  PROVE  Said(Replaced(parts, rest)) = Said(parts)
<1> DEFINE n == Len(parts)
<1>1. n \in Nat /\ DOMAIN parts = 1..n
  BY SeqShape DEF IsRow
<1>2. SelectLastInSeq(parts, OpenText) = IF rest = <<>> THEN 0 ELSE n
  BY OpenIs
<1>3. CASE rest = <<>>
  <2>1. Replaced(parts, rest) = parts
    BY <1>2, <1>3 DEF Replaced
  <2> QED BY <2>1
<1>4. CASE rest # <<>>
  <2>1. n # 0 /\ n \in DOMAIN parts /\ parts[n].text = rest /\ OpenText(parts[n])
    BY <1>1, <1>4 DEF RestIsOpen
  <2> HIDE DEF n
  <2> DEFINE x == [parts[n] EXCEPT !.text = rest]
             q == Replaced(parts, rest)
  <2>2. n > 0
    BY <1>1, <2>1
  <2>3. q = [parts EXCEPT ![n].text = rest]
    <3>1. SelectLastInSeq(parts, OpenText) = n
      BY <1>2, <1>4
    <3> QED BY <2>1, <2>2, <3>1, ReplacedOpen
  <2>4. q = [parts EXCEPT ![n] = x]
    BY <2>3
  <2>5. IsPart(parts[n]) /\ parts[n].type = "text"
    BY <2>1 DEF IsRow, OpenText
  <2>6. x.type = "text" /\ x.text = rest /\ x.sealed = parts[n].sealed
        /\ DOMAIN x = {"type", "text", "sealed"}
    BY <2>5 DEF IsPart
  <2>7. IsPart(x) /\ Words(x) = rest /\ Words(parts[n]) = rest
    BY <2>1, <2>5, <2>6 DEF IsPart, Words
  <2> HIDE DEF x, q
  <2>8. /\ IsRow(q) /\ Len(q) = Len(parts) /\ DOMAIN q = DOMAIN parts /\ q[n] = x
        /\ \A i \in DOMAIN parts : i # n => q[i] = parts[i]
    BY <2>1, <2>4, <2>7, RowExcept
  <2>9. \A i \in DOMAIN parts : Words(parts[i]) = Words(q[i])
    BY <2>7, <2>8
  <2>10. Said(parts) = Said(q)
    BY <2>8, <2>9, SaidSame
  <2> QED BY <2>10 DEF q
<1> QED BY <1>3, <1>4

\* replaceLastInterimText, likewise.
LEMMA InterimReplacedTells ==
  ASSUME NEW parts, IsRow(parts), NEW text \in Texts, LastSealed(parts, text)
  PROVE  Said(InterimReplaced(parts, text)) = Said(parts)
<1> DEFINE q == InterimReplaced(parts, text)
           I == {i \in 1..Len(parts) : parts[i].type = "text" /\ parts[i].sealed}
           n == IF I # {} THEN Max(I) ELSE 0
           x == TextPart(text, FALSE)
<1>1. Len(parts) \in Nat /\ DOMAIN parts = 1..Len(parts)
  BY SeqShape DEF IsRow
<1>2. q = IF n = 0 THEN Replaced(parts, text) ELSE [parts EXCEPT ![n] = x]
  BY DEF InterimReplaced, SelectLastInSeq
<1>3. PICK i \in DOMAIN parts :
        /\ parts[i].type = "text" /\ parts[i].sealed /\ parts[i].text = text
        /\ \A j \in DOMAIN parts : j > i => parts[j].type # "text"
  BY DEF LastSealed
<1>4. n = i
  <2>1. I \in SUBSET (1..Len(parts)) /\ i \in I /\ I # {}
    BY <1>1, <1>3
  <2>2. Max(I) \in I /\ i <= Max(I)
    <3> HIDE DEF I
    <3> QED BY <1>1, <2>1, MaxIs
  <2>3. ~(Max(I) > i)
    BY <1>1, <1>3, <2>2
  <2>4. Max(I) \in Nat /\ i \in Nat
    BY <1>1, <2>1, <2>2
  <2>5. Max(I) = i
    BY <2>2, <2>3, <2>4
  <2> QED BY <2>1, <2>5
<1>5. i # 0
  BY <1>1
<1> HIDE DEF n, x, q, I
<1>6. q = [parts EXCEPT ![i] = x]
  BY <1>2, <1>4, <1>5
<1>7. IsPart(x) /\ Words(x) = text
  BY PartText DEF x
<1>8. Words(parts[i]) = text
  BY <1>3 DEF Words
<1>9. /\ IsRow(q) /\ Len(q) = Len(parts) /\ DOMAIN q = DOMAIN parts /\ q[i] = x
      /\ \A j \in DOMAIN parts : j # i => q[j] = parts[j]
  BY <1>6, <1>7, RowExcept
<1>10. \A j \in DOMAIN parts : Words(parts[j]) = Words(q[j])
  BY <1>7, <1>8, <1>9
<1>11. Said(parts) = Said(q)
  BY <1>9, <1>10, SaidSame
<1> QED BY <1>11 DEF q

----------------------------------------------------------------------------
(* Views of a row that tells its turn.                                     *)

\* A view with a row on the screen.
IsShown(v) ==
  /\ {"trans", "chat"} \subseteq DOMAIN v
  /\ {"message", "content", "lastInterim", "pending", "completed"} \subseteq DOMAIN v.trans
  /\ {"parts", "prompt", "plan", "status"} \subseteq DOMAIN v.chat

\* The two show the same text, and their translators expect the same.
SameTold(v, r) ==
  /\ IsShown(r) /\ r.chat.parts = v.chat.parts
  /\ r.trans.content = v.trans.content /\ r.trans.lastInterim = v.trans.lastInterim
  /\ r.trans.completed = v.trans.completed

LEMMA ResolvedTold ==
  ASSUME NEW v, IsShown(v) PROVE SameTold(v, ResolvePendingPrompt(v))
  BY DEF ResolvePendingPrompt, IsShown, SameTold

LEMMA StreamingTold ==
  ASSUME NEW v, IsShown(v), NEW parts
  PROVE  LET r == Streaming(v, parts)
         IN  IsShown(r) /\ r.trans = v.trans /\ r.chat.parts = parts
  BY DEF Streaming, IsShown

LEMMA PromptTold ==
  ASSUME NEW v, IsShown(v), NEW p PROVE SameTold(v, ShowPrompt(v, p))
<1> DEFINE r == ResolvePendingPrompt(v)
           asks == [r EXCEPT !.trans.pending = p]
           shows == [asks EXCEPT !.chat.prompt = p]
<1>1. SameTold(v, r)
  BY ResolvedTold
<1>2. ShowPrompt(v, p) = [shows EXCEPT !.chat.status = "streaming"]
  BY DEF ShowPrompt
<1> HIDE DEF r
<1>3. SameTold(v, asks)
  BY <1>1 DEF SameTold, IsShown
<1> HIDE DEF asks
<1>4. SameTold(v, shows)
  BY <1>3 DEF SameTold, IsShown
<1> HIDE DEF shows
<1>5. SameTold(v, [shows EXCEPT !.chat.status = "streaming"])
  BY <1>4 DEF SameTold, IsShown
<1> QED BY <1>2, <1>5

LEMMA TodoTold ==
  ASSUME NEW v, IsShown(v), NEW revision PROVE SameTold(v, TodoSnapshot(v, revision))
<1>1. PICK plan : plan = IF revision < v.chat.plan THEN v.chat.plan ELSE revision
  OBVIOUS
<1>2. TodoSnapshot(v, revision) = [v EXCEPT !.chat.plan = plan]
  BY <1>1 DEF TodoSnapshot
<1>3. SameTold(v, [v EXCEPT !.chat.plan = plan])
  BY DEF SameTold, IsShown
<1> QED BY <1>2, <1>3

LEMMA ExpireTold ==
  ASSUME NEW v, IsShown(v), NEW p PROVE SameTold(v, Expire(v, p))
<1>1. SameTold(v, v)
  BY DEF SameTold
<1> QED BY <1>1, ResolvedTold DEF Expire

LEMMA DeltaTold ==
  ASSUME NEW v, IsShown(v), NEW t
  PROVE  LET r == Delta(v, t)
         IN  /\ IsShown(r) /\ r.chat.parts = Appended(v.chat.parts, t)
             /\ r.trans.content = v.trans.content \o t
             /\ r.trans.lastInterim = v.trans.lastInterim
             /\ r.trans.completed = v.trans.completed
<1> DEFINE r == ResolvePendingPrompt(v)
<1>1. SameTold(v, r)
  BY ResolvedTold
<1>2. PICK content : content = r.trans.content \o t
  OBVIOUS
<1>3. PICK parts : parts = Appended(r.chat.parts, t)
  OBVIOUS
<1> DEFINE more == [r EXCEPT !.trans.content = content]
<1>4. Delta(v, t) = Streaming(more, parts)
  BY <1>2, <1>3 DEF Delta
<1> HIDE DEF r
<1>5. /\ IsShown(more) /\ more.trans.content = content
      /\ more.trans.lastInterim = v.trans.lastInterim
      /\ more.trans.completed = v.trans.completed
  BY <1>1 DEF SameTold, IsShown
<1> HIDE DEF more
<1>6. IsShown(Streaming(more, parts)) /\ Streaming(more, parts).trans = more.trans
      /\ Streaming(more, parts).chat.parts = parts
  BY <1>5, StreamingTold
<1>7. content = v.trans.content \o t /\ parts = Appended(v.chat.parts, t)
  BY <1>1, <1>2, <1>3 DEF SameTold
<1> QED BY <1>4, <1>5, <1>6, <1>7

LEMMA InterimTold ==
  ASSUME NEW v, IsShown(v), NEW t
  PROVE  LET r == Interim(v, t)
         IN  /\ IsShown(r) /\ r.chat.parts = SealedText(v.chat.parts, t)
             /\ r.trans.content = <<>> /\ r.trans.lastInterim = t
             /\ r.trans.completed = v.trans.completed
<1> DEFINE r == ResolvePendingPrompt(v)
           none == [r EXCEPT !.trans.content = <<>>]
           next == [none EXCEPT !.trans.lastInterim = t]
<1>1. SameTold(v, r)
  BY ResolvedTold
<1>2. PICK parts : parts = SealedText(r.chat.parts, t)
  OBVIOUS
<1>3. Interim(v, t) = Streaming(next, parts)
  BY <1>2 DEF Interim
<1> HIDE DEF r
<1>4. IsShown(none) /\ none.trans.content = <<>> /\ none.trans.completed = v.trans.completed
  BY <1>1 DEF SameTold, IsShown
<1> HIDE DEF none
<1>5. /\ IsShown(next) /\ next.trans.content = <<>> /\ next.trans.lastInterim = t
      /\ next.trans.completed = v.trans.completed
  BY <1>4 DEF IsShown
<1> HIDE DEF next
<1>6. IsShown(Streaming(next, parts)) /\ Streaming(next, parts).trans = next.trans
      /\ Streaming(next, parts).chat.parts = parts
  BY <1>5, StreamingTold
<1>7. parts = SealedText(v.chat.parts, t)
  BY <1>1, <1>2 DEF SameTold
<1> QED BY <1>3, <1>5, <1>6, <1>7

LEMMA ToolTold ==
  ASSUME NEW v, IsShown(v), NEW s
  PROVE  LET r == Tool(v, s)
         IN  /\ IsShown(r) /\ \E message : r.chat.parts = TaskUpdated(v.chat.parts, message, s)
             /\ r.trans.content = v.trans.content /\ r.trans.lastInterim = v.trans.lastInterim
             /\ r.trans.completed = v.trans.completed
<1>1. PICK r : r = IF s = "started" THEN v ELSE ResolvePendingPrompt(v)
  OBVIOUS
<1>2. SameTold(v, r)
  <2>1. SameTold(v, v)
    BY DEF SameTold
  <2> QED BY <1>1, <2>1, ResolvedTold
<1>3. PICK message : message = r.trans.message
  OBVIOUS
<1>4. PICK parts : parts = TaskUpdated(r.chat.parts, message, s)
  OBVIOUS
<1>5. Tool(v, s) = Streaming(r, parts)
  BY <1>1, <1>3, <1>4 DEF Tool
<1>6. IsShown(Streaming(r, parts)) /\ Streaming(r, parts).trans = r.trans
      /\ Streaming(r, parts).chat.parts = parts
  BY <1>2, StreamingTold DEF SameTold
<1>7. parts = TaskUpdated(v.chat.parts, message, s)
  BY <1>2, <1>4 DEF SameTold
<1> QED BY <1>2, <1>5, <1>6, <1>7 DEF SameTold

\* finish(), of a turn that is not over.
Finalizes(v, t, previewed) ==
  /\ previewed /\ t # <<>> /\ v.trans.lastInterim # <<>> /\ v.trans.content = <<>>
  /\ IsPrefix(v.trans.lastInterim, t)

LEMMA FinishTold ==
  ASSUME NEW v, IsShown(v), ~v.trans.completed, NEW t, NEW previewed
  PROVE  LET r == Finish(v, t, previewed)
         IN  /\ IsShown(r) /\ r.trans.completed = TRUE
             /\ r.chat.parts = IF Finalizes(v, t, previewed)
                               THEN InterimReplaced(v.chat.parts, t)
                               ELSE Replaced(v.chat.parts, t)
<1> DEFINE r == ResolvePendingPrompt(v)
<1>1. SameTold(v, r)
  BY ResolvedTold
<1>2. PICK parts : parts = IF Finalizes(v, t, previewed) THEN InterimReplaced(v.chat.parts, t)
                           ELSE Replaced(v.chat.parts, t)
  OBVIOUS
<1>3. Finish(v, t, previewed) = TurnCompleted(Streaming(r, parts))
  <2>1. r.trans.lastInterim = v.trans.lastInterim /\ r.trans.content = v.trans.content
        /\ r.chat.parts = v.chat.parts
    BY <1>1 DEF SameTold
  <2>2. Finish(v, t, previewed) =
          TurnCompleted(Streaming(r, IF Finalizes(r, t, previewed) THEN InterimReplaced(r.chat.parts, t)
                                     ELSE Replaced(r.chat.parts, t)))
    BY DEF Finish, Finalizes
  <2>3. Finalizes(r, t, previewed) = Finalizes(v, t, previewed)
    BY <2>1 DEF Finalizes
  <2> HIDE DEF r
  <2> QED BY <1>2, <2>1, <2>2, <2>3
<1> HIDE DEF r
<1> DEFINE s == Streaming(r, parts)
<1>4. IsShown(s) /\ s.chat.parts = parts
  BY <1>1, StreamingTold DEF SameTold
<1> HIDE DEF s
<1> DEFINE a == [s EXCEPT !.trans.completed = TRUE]
           b == [a EXCEPT !.chat.prompt = 0]
           c == [b EXCEPT !.chat.plan = 0]
           d == [c EXCEPT !.chat.status = "streaming"]
<1>5. TurnCompleted(s) = d
  BY DEF TurnCompleted
<1>6. IsShown(a) /\ a.chat.parts = parts /\ a.trans.completed = TRUE
  BY <1>4 DEF IsShown
<1> HIDE DEF a
<1>7. IsShown(b) /\ b.chat.parts = parts /\ b.trans.completed = TRUE
  BY <1>6 DEF IsShown
<1> HIDE DEF b
<1>8. IsShown(c) /\ c.chat.parts = parts /\ c.trans.completed = TRUE
  BY <1>7 DEF IsShown
<1> HIDE DEF c
<1>9. IsShown(d) /\ d.chat.parts = parts /\ d.trans.completed = TRUE
  BY <1>8 DEF IsShown
<1> HIDE DEF d
<1> QED BY <1>2, <1>3, <1>5, <1>9 DEF s

LEMMA FailedTold ==
  ASSUME NEW v, IsShown(v), NEW t
  PROVE  IsShown(FinishWithTurnError(v, t)) /\ FinishWithTurnError(v, t).trans.completed = TRUE
<1> DEFINE r == ResolvePendingPrompt(v)
<1>1. SameTold(v, r)
  BY ResolvedTold
<1>2. PICK parts : parts = IF t = <<>> THEN r.chat.parts ELSE Replaced(r.chat.parts, t)
  OBVIOUS
<1> DEFINE done == [r EXCEPT !.trans.completed = TRUE]
           failed == [parts |-> parts, prompt |-> 0, plan |-> 0, status |-> "error"]
<1>3. FinishWithTurnError(v, t) = [done EXCEPT !.chat = failed]
  BY <1>2 DEF FinishWithTurnError
<1> HIDE DEF r
<1>4. IsShown(done) /\ done.trans.completed = TRUE
  BY <1>1 DEF SameTold, IsShown
<1> HIDE DEF done
<1> QED BY <1>3, <1>4 DEF IsShown

\* The view tells turn t, as far as the p-th frame.
Tells(v, ring, t, p) ==
  LET rest == RestIn(ring, t, p + 1)
      last == LastIn(ring, "interim", t, p + 1)
  IN  /\ IsShown(v) /\ IsRow(v.chat.parts)
      /\ Said(v.chat.parts) = PiecesIn(ring, t, 0, p)
      /\ v.trans.content = rest
      /\ v.trans.lastInterim = IF last = 0 THEN <<>> ELSE RestIn(ring, t, last)
      /\ RestIsOpen(v.chat.parts, rest)
      /\ rest = <<>> /\ last # 0 => LastSealed(v.chat.parts, RestIn(ring, t, last))

LEMMA SameTells ==
  ASSUME NEW v, NEW r, SameTold(v, r), NEW ring, NEW t, NEW p, Tells(v, ring, t, p)
  PROVE  Tells(r, ring, t, p)
  BY DEF SameTold, Tells

\* A frame of the turn carries the row on.
LEMMA TranslateTells ==
  ASSUME NEW ring, NEW p \in Nat, NEW t, NEW f, f = ring[p + 1], f.turn = t,
         f.type \in FrameTypes, \A i \in 1..(p + 1) : FrameTold(ring, i),
         NEW v, Tells(v, ring, t, p), v.trans.completed = FALSE
  PROVE  LET r == Translate(v, f)
         IN  /\ f.type \notin Terminal => Tells(r, ring, t, p + 1) /\ r.trans.completed = FALSE
             /\ f.type \in Terminal => IsShown(r) /\ r.trans.completed = TRUE
             /\ f.type = "complete" => Said(r.chat.parts) = PiecesIn(ring, t, 0, p + 1)
<1> DEFINE r == Translate(v, f)
           rest == RestIn(ring, t, p + 1)
           last == LastIn(ring, "interim", t, p + 1)
           told == PiecesIn(ring, t, 0, p)
           parts == v.chat.parts
           next == RestIn(ring, t, (p + 1) + 1)
           latest == LastIn(ring, "interim", t, (p + 1) + 1)
           more == PiecesIn(ring, t, 0, p + 1)
<1>1. /\ IsShown(v) /\ IsRow(parts) /\ Said(parts) = told /\ v.trans.content = rest
      /\ v.trans.lastInterim = IF last = 0 THEN <<>> ELSE RestIn(ring, t, last)
      /\ RestIsOpen(parts, rest)
      /\ rest = <<>> /\ last # 0 => LastSealed(parts, RestIn(ring, t, last))
  BY DEF Tells
<1>2. /\ f.type = "delta" => f.text = <<p + 1>>
      /\ f.type = "interim" => f.text = rest /\ rest # <<>>
      /\ f.type \in ToolFrames => rest = <<>>
      /\ f.type = "complete" =>
           IF rest = <<>> /\ last # 0
           THEN f.previewed = TRUE /\ f.text = RestIn(ring, t, last)
           ELSE f.previewed = FALSE /\ f.text = rest
  <2>1. FrameTold(ring, p + 1)
    OBVIOUS
  <2> QED BY <2>1 DEF FrameTold
<1>3. next = IF f.type = "interim" THEN <<>>
             ELSE IF f.type = "delta" THEN Append(rest, p + 1) ELSE rest
  BY RestSteps
<1>4. latest = IF f.type = "interim" THEN p + 1 ELSE last
  BY LastSteps
<1>5. more = IF f.type = "delta" THEN Append(told, p + 1) ELSE told
  BY PiecesStep
<1>6. rest \in Texts /\ told \in Texts
  <2>1. 0 \in Nat /\ 0 <= p
    OBVIOUS
  <2> QED BY <2>1, RestSteps, PiecesStep
<1>7. last \in 0..p /\ (last # 0 => ring[last].type = "interim" /\ ring[last].turn = t)
  <2>1. IsLast(ring, "interim", t, p, last)
    BY LastIs
  <2> HIDE DEF last
  <2> QED BY <2>1 DEF IsLast
<1>8. last # 0 => RestIn(ring, t, last) \in Texts /\ RestIn(ring, t, last) # <<>>
  <2> SUFFICES ASSUME last # 0
               PROVE  RestIn(ring, t, last) \in Texts /\ RestIn(ring, t, last) # <<>>
    OBVIOUS
  <2> HIDE DEF last
  <2>1. last \in 1..(p + 1) /\ last - 1 \in Nat /\ (last - 1) + 1 = last
    BY <1>7
  <2>2. FrameTold(ring, last) /\ ring[last].type = "interim" /\ ring[last].turn = t
    BY <1>7, <2>1
  <2>3. RestIn(ring, t, last) # <<>>
    BY <2>2 DEF FrameTold
  <2>4. RestIn(ring, t, (last - 1) + 1) \in Texts
    BY <2>1, RestSteps
  <2> QED BY <2>1, <2>3, <2>4
<1> DEFINE TellsOn == Tells(r, ring, t, p + 1) /\ r.trans.completed = FALSE
<1>9. ASSUME IsShown(r), IsRow(r.chat.parts), Said(r.chat.parts) = more,
             r.trans.content = next, r.trans.completed = FALSE,
             r.trans.lastInterim = (IF latest = 0 THEN <<>> ELSE RestIn(ring, t, latest)),
             RestIsOpen(r.chat.parts, next),
             next = <<>> /\ latest # 0 => LastSealed(r.chat.parts, RestIn(ring, t, latest))
      PROVE  TellsOn
  <2> HIDE DEF r
  <2> QED BY <1>9 DEF Tells
<1>0. /\ Terminal = {"complete", "error"}
      /\ ToolFrames = {"tool.start", "tool.progress", "tool.complete"}
  BY DEF Terminal, ToolFrames
<1> HIDE DEF r, rest, last, told, parts, next, latest, more
<1>10. CASE f.type = "delta"
  <2>1. r = Delta(v, f.text)
    BY <1>10 DEF Translate, r
  <2>2. f.text = <<p + 1>> /\ f.text \in Texts /\ f.text # <<>>
    <3>1. <<p + 1>> \in Texts /\ <<p + 1>> # <<>>
      <4>1. p + 1 \in Nat
        OBVIOUS
      <4> QED BY <4>1 DEF Texts
    <3> QED BY <1>2, <1>10, <3>1
  <2>3. rest \o f.text = next /\ told \o f.text = more
    <3>1. \A s \in Texts : s \o <<p + 1>> = Append(s, p + 1)
      BY DEF Texts
    <3> QED BY <1>3, <1>5, <1>6, <1>10, <2>2, <3>1
  <2>4. /\ IsShown(r) /\ r.chat.parts = Appended(parts, f.text)
        /\ r.trans.content = next /\ r.trans.lastInterim = v.trans.lastInterim
        /\ r.trans.completed = FALSE
    <3>1. PICK piece : piece = f.text
      OBVIOUS
    <3>2. r = Delta(v, piece)
      BY <2>1, <3>1
    <3>3. /\ IsShown(r) /\ r.chat.parts = Appended(v.chat.parts, piece)
          /\ r.trans.content = v.trans.content \o piece
          /\ r.trans.lastInterim = v.trans.lastInterim
          /\ r.trans.completed = v.trans.completed
      BY <1>1, <3>2, DeltaTold
    <3>4. v.trans.content \o piece = next
      BY <1>1, <2>3, <3>1
    <3> QED BY <3>1, <3>3, <3>4 DEF parts
  <2>5. /\ IsRow(r.chat.parts) /\ Said(r.chat.parts) = more
        /\ RestIsOpen(r.chat.parts, next) /\ next # <<>>
    <3>1. PICK piece : piece = f.text
      OBVIOUS
    <3>2. PICK q : q = Appended(parts, piece)
      OBVIOUS
    <3>3. IsRow(q) /\ Said(q) = Said(parts) \o piece
          /\ RestIsOpen(q, rest \o piece) /\ rest \o piece # <<>>
      BY <1>1, <1>6, <2>2, <3>1, <3>2, AppendedTells
    <3> QED BY <1>1, <2>3, <2>4, <3>1, <3>2, <3>3
  <2>6. latest = last
    BY <1>4, <1>10
  <2>7. TellsOn
    BY <1>1, <1>9, <2>4, <2>5, <2>6
  <2> QED BY <1>10, <2>7 DEF Terminal, r, more
<1>11. CASE f.type = "interim"
  <2>1. r = Interim(v, f.text)
    BY <1>11 DEF Translate, r
  <2>2. f.text = rest /\ rest # <<>>
    BY <1>2, <1>11
  <2>3. /\ IsShown(r) /\ r.chat.parts = SealedText(parts, rest)
        /\ r.trans.content = <<>> /\ r.trans.lastInterim = rest
        /\ r.trans.completed = FALSE
    BY <1>1, <2>1, <2>2, InterimTold DEF parts
  <2>4. /\ IsRow(r.chat.parts) /\ Said(r.chat.parts) = told
        /\ RestIsOpen(r.chat.parts, <<>>) /\ LastSealed(r.chat.parts, rest)
    BY <1>1, <1>6, <2>2, <2>3, SealedTells
  <2>5. next = <<>> /\ more = told /\ latest = p + 1 /\ RestIn(ring, t, latest) = rest
    BY <1>3, <1>4, <1>5, <1>11 DEF rest
  <2>6. latest # 0
    BY <2>5
  <2>7. TellsOn
    BY <1>9, <2>3, <2>4, <2>5, <2>6
  <2> QED BY <1>11, <2>7 DEF Terminal, r, more
<1>12. CASE f.type \in ToolFrames
  <2>1. PICK s : r = Tool(v, s)
    BY <1>0, <1>12 DEF Translate, r
  <2>2. rest = <<>>
    BY <1>2, <1>12
  <2>3. /\ IsShown(r) /\ \E message : r.chat.parts = TaskUpdated(parts, message, s)
        /\ r.trans.content = v.trans.content /\ r.trans.lastInterim = v.trans.lastInterim
        /\ r.trans.completed = FALSE
    BY <1>1, <2>1, ToolTold DEF parts
  <2>4. PICK message : r.chat.parts = TaskUpdated(parts, message, s)
    BY <2>3
  <2>5. /\ IsRow(r.chat.parts) /\ Said(r.chat.parts) = told /\ RestIsOpen(r.chat.parts, <<>>)
        /\ \A text : LastSealed(parts, text) => LastSealed(r.chat.parts, text)
    BY <1>1, <2>2, <2>4, TaskTells
  <2>6. next = rest /\ more = told /\ latest = last
    BY <1>0, <1>3, <1>4, <1>5, <1>12
  <2>7. TellsOn
    BY <1>1, <1>9, <2>2, <2>3, <2>5, <2>6
  <2> QED BY <1>0, <1>12, <2>7 DEF r, more
<1>13. CASE f.type \in {"todo", "prompt", "expire"}
  <2>1. SameTold(v, r)
    <3>1. CASE f.type = "todo"
      BY <1>1, <3>1, TodoTold DEF Translate, r
    <3>2. CASE f.type = "prompt"
      BY <1>1, <3>2, PromptTold DEF Translate, r
    <3>3. CASE f.type = "expire"
      BY <1>1, <3>3, ExpireTold DEF Translate, r
    <3> QED BY <1>13, <3>1, <3>2, <3>3
  <2>2. next = rest /\ more = told /\ latest = last
    BY <1>3, <1>4, <1>5, <1>13
  <2>3. TellsOn
    <3>1. /\ IsShown(r) /\ r.chat.parts = parts /\ r.trans.content = v.trans.content
          /\ r.trans.lastInterim = v.trans.lastInterim /\ r.trans.completed = FALSE
      BY <2>1 DEF SameTold, parts
    <3> QED BY <1>1, <1>9, <2>2, <3>1
  <2> QED BY <1>13, <2>3 DEF Terminal, r, more
<1>14. CASE f.type = "complete"
  <2>1. r = Finish(v, f.text, f.previewed)
    BY <1>14 DEF Translate, r
  <2>2. /\ IsShown(r) /\ r.trans.completed = TRUE
        /\ r.chat.parts = IF Finalizes(v, f.text, f.previewed) THEN InterimReplaced(parts, f.text)
                          ELSE Replaced(parts, f.text)
    <3>1. PICK text, previewed : text = f.text /\ previewed = f.previewed
      OBVIOUS
    <3>2. r = Finish(v, text, previewed)
      BY <2>1, <3>1
    <3>3. /\ IsShown(r) /\ r.trans.completed = TRUE
          /\ r.chat.parts = IF Finalizes(v, text, previewed) THEN InterimReplaced(v.chat.parts, text)
                            ELSE Replaced(v.chat.parts, text)
      BY <1>1, <3>2, FinishTold
    <3> QED BY <3>1, <3>3 DEF parts
  <2>3. more = told
    BY <1>5, <1>14
  <2>4. Said(r.chat.parts) = told
    <3>1. CASE rest = <<>> /\ last # 0
      <4>1. PICK text : text = RestIn(ring, t, last)
        OBVIOUS
      <4>2. /\ f.previewed = TRUE /\ f.text = text /\ v.trans.lastInterim = text
            /\ text \in Texts /\ text # <<>> /\ LastSealed(parts, text)
        BY <1>1, <1>2, <1>8, <1>14, <3>1, <4>1
      <4>3. IsPrefix(text, text)
        BY <4>2 DEF IsPrefix, Texts
      <4>4. Finalizes(v, f.text, f.previewed)
        BY <1>1, <3>1, <4>2, <4>3 DEF Finalizes
      <4> QED BY <1>1, <2>2, <4>2, <4>4, InterimReplacedTells
    <3>2. CASE ~(rest = <<>> /\ last # 0)
      <4>1. f.previewed = FALSE /\ f.text = rest
        BY <1>2, <1>14, <3>2
      <4>2. ~Finalizes(v, f.text, f.previewed)
        BY <4>1 DEF Finalizes
      <4> QED BY <1>1, <1>6, <2>2, <4>1, <4>2, ReplacedTells
    <3> QED BY <3>1, <3>2
  <2> QED BY <1>14, <2>2, <2>3, <2>4 DEF Terminal, r, more
<1>15. CASE f.type = "error"
  <2>1. r = FinishWithTurnError(v, f.text)
    BY <1>15 DEF Translate, r
  <2>2. IsShown(r) /\ r.trans.completed = TRUE
    BY <1>1, <2>1, FailedTold
  <2> QED BY <1>15, <2>2 DEF Terminal, r, more
<1> QED BY <1>10, <1>11, <1>12, <1>13, <1>14, <1>15 DEF FrameTypes, Durable, Terminal

----------------------------------------------------------------------------
(* Frames in a row: the queue a pump takes.                                *)

LEMMA MinIs ==
  ASSUME NEW I \in SUBSET Nat, I # {}
  PROVE  Min(I) \in I /\ \A i \in I : Min(I) <= i
<1>1. PICK d \in I : \A e \in I : d <= e
  BY LeastElement
<1> QED BY <1>1 DEF Min

\* The first frame that ends a turn, if one does.
EndsAt(frames, i) ==
  /\ i \in DOMAIN frames /\ frames[i].type \in Terminal
  /\ \A b \in 1..(i - 1) : frames[b].type \notin Terminal

NoneEnds(frames, m) == \A b \in 1..m : frames[b].type \notin Terminal

LEMMA SealedByIs ==
  ASSUME NEW frames, IsSeq(frames)
  PROVE  \/ SealedBy(frames) = 0 /\ \A b \in DOMAIN frames : frames[b].type \notin Terminal
         \/ \E i : /\ EndsAt(frames, i)
                   /\ SealedBy(frames) = IF frames[i].type = "complete" THEN frames[i].seq ELSE 0
<1> DEFINE I == {i \in 1..Len(frames) : frames[i].type \in Terminal}
           n == IF I # {} THEN Min(I) ELSE 0
<1>1. Len(frames) \in Nat /\ DOMAIN frames = 1..Len(frames)
  BY SeqShape
<1>2. SealedBy(frames) = IF n # 0 /\ frames[n].type = "complete" THEN frames[n].seq ELSE 0
  BY DEF SealedBy, SelectInSeq
<1>3. CASE I = {}
  <2>1. n = 0
    BY <1>3
  <2>2. \A b \in DOMAIN frames : frames[b].type \notin Terminal
    BY <1>1, <1>3
  <2> QED BY <1>2, <2>1, <2>2
<1>4. CASE I # {}
  <2>1. I \in SUBSET Nat
    BY <1>1
  <2>2. n \in I /\ \A i \in I : n <= i
    <3> HIDE DEF I
    <3> QED BY <1>4, <2>1, MinIs
  <2> HIDE DEF n
  <2>3. n \in DOMAIN frames /\ frames[n].type \in Terminal /\ n # 0 /\ n \in Nat
    BY <1>1, <2>2
  <2>4. ASSUME NEW b \in 1..(n - 1) PROVE frames[b].type \notin Terminal
    <3>1. b \in 1..Len(frames) /\ ~(n <= b)
      BY <1>1, <2>3
    <3> QED BY <2>2, <3>1
  <2>5. EndsAt(frames, n)
    BY <2>3, <2>4 DEF EndsAt
  <2>6. SealedBy(frames) = IF frames[n].type = "complete" THEN frames[n].seq ELSE 0
    BY <1>2, <2>3
  <2> QED BY <2>5, <2>6
<1> QED BY <1>3, <1>4

LEMMA TranslateShown ==
  ASSUME NEW v, IsShown(v), NEW f, f.type \in FrameTypes
  PROVE  /\ IsShown(Translate(v, f))
         /\ v.trans.completed = FALSE =>
              /\ f.type \notin Terminal => Translate(v, f).trans.completed = FALSE
              /\ f.type \in Terminal => Translate(v, f).trans.completed = TRUE
         /\ v.trans.completed = TRUE => Translate(v, f) = v
<1>1. CASE v.trans.completed
  <2>1. Translate(v, f) = v
    BY <1>1 DEF Translate
  <2> QED BY <1>1, <2>1
<1>2. CASE ~v.trans.completed
  <2> DEFINE r == Translate(v, f)
  <2> SUFFICES /\ IsShown(r)
               /\ v.trans.completed = FALSE =>
                    /\ f.type \notin Terminal => r.trans.completed = FALSE
                    /\ f.type \in Terminal => r.trans.completed = TRUE
    BY <1>2
  <2>1. CASE f.type \in ToolFrames
    <3>1. PICK s : r = Tool(v, s)
      BY <1>2, <2>1 DEF Translate, ToolFrames
    <3>2. IsShown(r) /\ r.trans.completed = v.trans.completed
      BY <3>1, ToolTold
    <3>3. f.type \notin Terminal
      BY <2>1 DEF ToolFrames, Terminal
    <3> QED BY <3>2, <3>3
  <2>2. CASE f.type = "delta"
    <3>1. PICK t : r = Delta(v, t)
      BY <1>2, <2>2 DEF Translate
    <3>2. IsShown(r) /\ r.trans.completed = v.trans.completed
      BY <3>1, DeltaTold
    <3> QED BY <2>2, <3>2 DEF Terminal
  <2>3. CASE f.type = "interim"
    <3>1. PICK t : r = Interim(v, t)
      BY <1>2, <2>3 DEF Translate
    <3>2. IsShown(r) /\ r.trans.completed = v.trans.completed
      BY <3>1, InterimTold
    <3> QED BY <2>3, <3>2 DEF Terminal
  <2>4. CASE f.type \in {"todo", "prompt", "expire"}
    <3>1. CASE f.type = "todo"
      BY <1>2, <3>1, TodoTold DEF Translate, SameTold, Terminal
    <3>2. CASE f.type = "prompt"
      BY <1>2, <3>2, PromptTold DEF Translate, SameTold, Terminal
    <3>3. CASE f.type = "expire"
      BY <1>2, <3>3, ExpireTold DEF Translate, SameTold, Terminal
    <3> QED BY <2>4, <3>1, <3>2, <3>3
  <2>5. CASE f.type = "complete"
    <3>0. f.type \in Terminal
      BY <2>5 DEF Terminal
    <3>1. PICK t, previewed : r = Finish(v, t, previewed)
      BY <1>2, <2>5 DEF Translate
    <3>2. IsShown(r) /\ r.trans.completed = TRUE
      BY <1>2, <3>1, FinishTold
    <3> QED BY <3>0, <3>2
  <2>6. CASE f.type = "error"
    <3>0. f.type \in Terminal
      BY <2>6 DEF Terminal
    <3>1. PICK t : r = FinishWithTurnError(v, t)
      BY <1>2, <2>6 DEF Translate
    <3> QED BY <3>0, <3>1, FailedTold
  <2> QED BY <2>1, <2>2, <2>3, <2>4, <2>5, <2>6 DEF FrameTypes, Durable, Terminal
<1> QED BY <1>1, <1>2

\* The frames that follow the first ones of the log, in order.
NextFrames(frames, ring, from) ==
  /\ IsSeq(frames) /\ from \in Nat /\ from + Len(frames) <= Len(ring)
  /\ \A b \in DOMAIN frames : frames[b] = ring[from + b]

\* The row tells the turn up to the p-th frame, if it tells that turn at all.
TellsNext(v, ring, s, clean, p) ==
  After(ring, s, p) \in clean => Tells(v, ring, After(ring, s, p), p)

\* What the row tells when they have been translated: the turn up to the last of
\* them, or up to the one that ends it.
Took(r, ring, s, clean, frames, from) ==
  /\ IsShown(r) /\ r.trans.completed \in BOOLEAN
  /\ ~r.trans.completed =>
       SealedBy(frames) = 0 /\ TellsNext(r, ring, s, clean, from + Len(frames))
  /\ SealedBy(frames) # 0 =>
       /\ SealedBy(frames) \in (from + 1)..Len(ring)
       /\ ring[SealedBy(frames)].turn \in clean =>
            Said(r.chat.parts) = PiecesIn(ring, ring[SealedBy(frames)].turn, 0, SealedBy(frames))

\* From the next frames, a row that tells the turn goes on to tell it.
LEMMA QueueTold ==
  ASSUME NEW ring, NEW s, IsLog(ring), LogTold(ring, s), NEW clean, NEW from,
         NEW frames, NextFrames(frames, ring, from),
         NEW v, IsShown(v), v.trans.completed = FALSE, TellsNext(v, ring, s, clean, from),
         NEW r, r = FoldLeft(Translate, v, frames)
  PROVE  Took(r, ring, s, clean, frames, from)
<1> USE DEF NextFrames, TellsNext, Took
<1> DEFINE n == Len(frames)
           t(m) == After(ring, s, from + m)
<1>0. PICK after : Translated(v, frames, after)
  BY TranslatedSteps
<1>1. /\ after[0] = v
      /\ \A m \in 1..n : after[m] = Translate(after[m - 1], frames[m])
      /\ r = after[n]
  BY <1>0 DEF Translated
<1>2. n \in Nat /\ DOMAIN frames = 1..n /\ Len(ring) \in Nat /\ DOMAIN ring = 1..Len(ring)
      /\ from + n <= Len(ring)
  BY SeqShape DEF IsLog
<1>3. ASSUME NEW m \in 1..n
      PROVE  /\ m \in DOMAIN frames /\ frames[m] = ring[from + m] /\ from + m \in DOMAIN ring
             /\ frames[m].type \in FrameTypes /\ frames[m].seq = from + m
             /\ \A i \in 1..(from + m) : FrameTold(ring, i)
             /\ frames[m].type \notin Terminal => t(m) = frames[m].turn
             /\ t(m - 1) = frames[m].turn
  <2>1. m \in DOMAIN frames /\ from + m \in DOMAIN ring /\ frames[m] = ring[from + m]
    BY <1>2
  <2>2. frames[m].type \in FrameTypes /\ frames[m].seq = from + m
    BY <2>1 DEF IsLog
  <2>3. \A i \in 1..(from + m) : FrameTold(ring, i)
    <3>1. \A i \in 1..(from + m) : i \in DOMAIN ring
      BY <1>2, <2>1
    <3> QED BY <3>1 DEF LogTold
  <2>4. frames[m].type \notin Terminal => t(m) = frames[m].turn
    BY <2>1 DEF LogTold, TurnsTold
  <2>5. t(m - 1) = frames[m].turn
    <3>1. from + (m - 1) < Len(ring) /\ (from + (m - 1)) + 1 = from + m
      BY <1>2, <2>1
    <3> QED BY <2>1, <3>1 DEF After
  <2> QED BY <2>1, <2>2, <2>3, <2>4, <2>5
<1>4. v.trans.completed = FALSE /\ IsShown(v) /\ (t(0) \in clean => Tells(v, ring, t(0), from + 0))
  <2>1. from + 0 = from
    OBVIOUS
  <2> QED BY <2>1
<1> DEFINE Told(m) ==
        /\ IsShown(after[m])
        /\ NoneEnds(frames, m) =>
             /\ after[m].trans.completed = FALSE
             /\ t(m) \in clean => Tells(after[m], ring, t(m), from + m)
        /\ \A i \in 1..m : EndsAt(frames, i) =>
             /\ after[m].trans.completed = TRUE
             /\ frames[i].type = "complete" /\ frames[i].turn \in clean =>
                  Said(after[m].chat.parts) = PiecesIn(ring, frames[i].turn, 0, from + i)
<1> DEFINE S == {m \in Nat : m <= n => Told(m)}
<1> HIDE DEF n, t
<1>6. 0 \in S
  BY <1>1, <1>4 DEF NoneEnds
<1> HIDE DEF Told
<1>7. ASSUME NEW m \in S PROVE m + 1 \in S
  <2> SUFFICES ASSUME m + 1 <= n PROVE Told(m + 1)
    OBVIOUS
  <2>0. m + 1 \in 1..n /\ (m + 1) - 1 = m /\ Told(m) /\ m \in Nat
    BY <1>2
  <2>1. /\ m + 1 \in 1..n /\ (m + 1) - 1 = m /\ m \in Nat
        /\ IsShown(after[m])
        /\ NoneEnds(frames, m) =>
             /\ after[m].trans.completed = FALSE
             /\ t(m) \in clean => Tells(after[m], ring, t(m), from + m)
        /\ \A i \in 1..m : EndsAt(frames, i) =>
             /\ after[m].trans.completed = TRUE
             /\ frames[i].type = "complete" /\ frames[i].turn \in clean =>
                  Said(after[m].chat.parts) = PiecesIn(ring, frames[i].turn, 0, from + i)
    BY <2>0 DEF Told
  <2> DEFINE f == frames[m + 1]
             x == after[m]
             y == after[m + 1]
  <2>2. y = Translate(x, f) /\ f.type \in FrameTypes /\ t(m) = f.turn
        /\ (f.type \notin Terminal => t(m + 1) = f.turn)
        /\ f = ring[(from + m) + 1] /\ from + m \in Nat
        /\ \A i \in 1..((from + m) + 1) : FrameTold(ring, i)
    <3>1. from + (m + 1) = (from + m) + 1
      BY <2>1
    <3> QED BY <1>1, <1>3, <2>1, <3>1
  <2>3. NoneEnds(frames, m + 1) <=> NoneEnds(frames, m) /\ f.type \notin Terminal
    <3>1. \A b \in 1..(m + 1) : b \in 1..m \/ b = m + 1
      BY <2>1
    <3>2. \A b \in 1..m : b \in 1..(m + 1)
      BY <2>1
    <3>3. m + 1 \in 1..(m + 1)
      BY <2>1
    <3> QED BY <3>1, <3>2, <3>3 DEF NoneEnds
  <2>4. IsShown(x)
    BY <2>1
  <2>5. /\ IsShown(y)
        /\ x.trans.completed = FALSE =>
             /\ f.type \notin Terminal => y.trans.completed = FALSE
             /\ f.type \in Terminal => y.trans.completed = TRUE
        /\ x.trans.completed = TRUE => y = x
    <3> HIDE DEF x, y, f
    <3> QED BY <2>2, <2>4, TranslateShown
  <2>6. ASSUME NoneEnds(frames, m), t(m) \in clean
        PROVE  /\ f.type \notin Terminal => Tells(y, ring, f.turn, from + (m + 1))
               /\ f.type = "complete" =>
                    Said(y.chat.parts) = PiecesIn(ring, f.turn, 0, from + (m + 1))
    <3>1. Tells(x, ring, f.turn, from + m) /\ x.trans.completed = FALSE
      <4> HIDE DEF f
      <4> QED BY <2>1, <2>2, <2>6
    <3>2. from + (m + 1) = (from + m) + 1
      BY <2>1
    <3> HIDE DEF f, x, y, Told
    <3>3. /\ f.type \notin Terminal => Tells(y, ring, f.turn, (from + m) + 1)
          /\ f.type = "complete" =>
               Said(y.chat.parts) = PiecesIn(ring, f.turn, 0, (from + m) + 1)
      BY <2>2, <3>1, TranslateTells
    <3> QED BY <3>2, <3>3
  <2>7. ASSUME NoneEnds(frames, m + 1)
        PROVE  /\ y.trans.completed = FALSE
               /\ t(m + 1) \in clean => Tells(y, ring, t(m + 1), from + (m + 1))
    <3>1. NoneEnds(frames, m) /\ f.type \notin Terminal
      BY <2>3, <2>7
    <3>2. x.trans.completed = FALSE
      <4> QED BY <2>1, <3>1
    <3>3. y.trans.completed = FALSE
      <4> HIDE DEF x, y, f
      <4> QED BY <2>5, <3>1, <3>2
    <3>4. ASSUME t(m + 1) \in clean PROVE Tells(y, ring, t(m + 1), from + (m + 1))
      <4> HIDE DEF x, y, f
      <4>1. t(m + 1) = f.turn /\ t(m) \in clean
        BY <2>2, <3>1, <3>4
      <4> QED BY <2>6, <3>1, <4>1
    <3> QED BY <3>3, <3>4
  <2>8. ASSUME NEW i \in 1..(m + 1), EndsAt(frames, i)
        PROVE  /\ y.trans.completed = TRUE
               /\ frames[i].type = "complete" /\ frames[i].turn \in clean =>
                    Said(y.chat.parts) = PiecesIn(ring, frames[i].turn, 0, from + i)
    <3>1. CASE i \in 1..m
      <4>1. x.trans.completed = TRUE
        BY <2>1, <2>8, <3>1
      <4>2. y = x
        BY <2>5, <4>1
      <4> QED BY <2>1, <2>8, <3>1, <4>1, <4>2
    <3>2. CASE i = m + 1
      <4>1. NoneEnds(frames, m) /\ f.type \in Terminal
        BY <2>1, <2>8, <3>2 DEF EndsAt, NoneEnds
      <4>2. x.trans.completed = FALSE
        <5> QED BY <2>1, <4>1
      <4> HIDE DEF x, y, f
      <4>3. y.trans.completed = TRUE
        BY <2>5, <4>1, <4>2
      <4>4. f = frames[m + 1]
        BY DEF f
      <4> QED BY <2>2, <2>6, <3>2, <4>1, <4>3, <4>4
    <3>3. i \in 1..m \/ i = m + 1
      BY <2>1
    <3> QED BY <3>1, <3>2, <3>3
  <2>9. IsShown(y)
    BY <2>5
  <2> QED BY <2>7, <2>8, <2>9 DEF Told
<1>8. Told(n)
  <2>1. S \in SUBSET Nat
    OBVIOUS
  <2>2. S = Nat
    <3> HIDE DEF S
    <3> QED BY <1>6, <1>7, <2>1, Induction
  <2>3. n \in S /\ n <= n
    BY <1>2, <2>2
  <2> QED BY <2>3
<1>9. \/ SealedBy(frames) = 0 /\ \A b \in DOMAIN frames : frames[b].type \notin Terminal
      \/ \E i : /\ EndsAt(frames, i)
                /\ SealedBy(frames) = IF frames[i].type = "complete" THEN frames[i].seq ELSE 0
  BY SealedByIs
<1>10. CASE SealedBy(frames) = 0 /\ \A b \in DOMAIN frames : frames[b].type \notin Terminal
  <2>1. NoneEnds(frames, n)
    BY <1>2, <1>10 DEF NoneEnds
  <2>2. /\ IsShown(r) /\ r.trans.completed = FALSE
        /\ t(n) \in clean => Tells(r, ring, t(n), from + n)
    <3> QED BY <1>1, <1>8, <2>1 DEF Told
  <2> QED BY <1>10, <2>2 DEF n, t
<1>11. ASSUME NEW i, EndsAt(frames, i),
              SealedBy(frames) = IF frames[i].type = "complete" THEN frames[i].seq ELSE 0
       PROVE  /\ IsShown(r) /\ r.trans.completed = TRUE
              /\ SealedBy(frames) # 0 =>
                   /\ SealedBy(frames) \in (from + 1)..Len(ring)
                   /\ ring[SealedBy(frames)].turn \in clean =>
                        Said(r.chat.parts) =
                          PiecesIn(ring, ring[SealedBy(frames)].turn, 0, SealedBy(frames))
  <2>1. i \in 1..n
    BY <1>2, <1>11 DEF EndsAt
  <2>2. /\ IsShown(r) /\ r.trans.completed = TRUE
        /\ frames[i].type = "complete" /\ frames[i].turn \in clean =>
             Said(r.chat.parts) = PiecesIn(ring, frames[i].turn, 0, from + i)
    BY <1>1, <1>8, <1>11, <2>1 DEF Told
  <2>3. frames[i] = ring[from + i] /\ frames[i].seq = from + i
    BY <1>3, <2>1
  <2>4. from + i \in (from + 1)..Len(ring)
    BY <1>2, <2>1
  <2> QED BY <1>11, <2>2, <2>3, <2>4
<1>12. CASE \E i : /\ EndsAt(frames, i)
                   /\ SealedBy(frames) = IF frames[i].type = "complete" THEN frames[i].seq ELSE 0
  BY <1>11, <1>12
<1> QED BY <1>9, <1>10, <1>12

----------------------------------------------------------------------------
(* What is still to come on the wire.                                      *)

\* The live frames on it are those after the p-th.
Covers(w, ring, p) ==
  /\ \A i \in DOMAIN w : Live(w, i) => w[i].seq > p
  /\ \A n \in (p + 1)..Len(ring) : \E i \in DOMAIN w : Live(w, i) /\ w[i].seq = n

LEMMA CoversOther ==
  ASSUME NEW w, IsWire(w), NEW m, m.kind \in Kinds, m.kind # "frame", NEW ring, NEW p,
         Covers(w, ring, p)
  PROVE  Covers(Append(w, m), ring, p)
<1> DEFINE x == Append(w, m)
<1>1. /\ DOMAIN x = 1..(Len(w) + 1) /\ x[Len(w) + 1] = m
      /\ \A i \in DOMAIN w : x[i] = w[i]
      /\ Len(w) \in Nat /\ DOMAIN w = 1..Len(w)
  BY WireGrows
<1> HIDE DEF x
<1>2. \A i \in DOMAIN x : Live(x, i) => i \in DOMAIN w /\ Live(w, i) /\ x[i] = w[i]
  BY <1>1 DEF Live
<1>3. \A i \in DOMAIN w : i \in DOMAIN x /\ x[i] = w[i] /\ (Live(w, i) => Live(x, i))
  BY <1>1 DEF Live
<1>4. Covers(x, ring, p)
  BY <1>2, <1>3 DEF Covers
<1> QED BY <1>4 DEF x

LEMMA CoversFrame ==
  ASSUME NEW w, IsWire(w), NEW ring, IsLog(ring), NEW f, f.kind = "frame",
         f.seq = Len(ring) + 1, NEW r, r = Append(ring, f),
         NEW p \in 0..Len(ring), Covers(w, ring, p)
  PROVE  Covers(Append(w, f), r, p)
<1> DEFINE x == Append(w, f)
           k == Len(w) + 1
           n == Len(ring)
<1>1. /\ DOMAIN x = 1..k /\ x[k] = f
      /\ \A i \in DOMAIN w : x[i] = w[i]
      /\ Len(w) \in Nat /\ DOMAIN w = 1..Len(w)
  BY WireGrows DEF Kinds
<1>2. Len(r) = n + 1 /\ n \in Nat
  BY AppendSeq, SeqShape DEF IsLog
<1>3. \A i \in DOMAIN x : i \in DOMAIN w \/ i = k
  BY <1>1
<1>4. \A i \in DOMAIN w : i \in DOMAIN x
  BY <1>1
<1>5. k \in DOMAIN x /\ Live(x, k) /\ x[k].seq = n + 1
  BY <1>1 DEF Live
<1> HIDE DEF x, k
<1>6. ASSUME NEW i \in DOMAIN x, Live(x, i) PROVE x[i].seq > p
  <2>1. CASE i \in DOMAIN w
    BY <1>1, <1>6, <2>1 DEF Covers, Live
  <2>2. CASE i = k
    BY <1>2, <1>5, <2>2
  <2> QED BY <1>3, <2>1, <2>2
<1>7. ASSUME NEW j \in (p + 1)..(n + 1) PROVE \E i \in DOMAIN x : Live(x, i) /\ x[i].seq = j
  <2>1. CASE j = n + 1
    BY <1>5, <2>1
  <2>2. CASE j # n + 1
    <3>1. j \in (p + 1)..n
      BY <1>2, <2>2
    <3>2. PICK i \in DOMAIN w : Live(w, i) /\ w[i].seq = j
      BY <3>1 DEF Covers
    <3> QED BY <1>1, <1>4, <3>2 DEF Live
  <2> QED BY <2>1, <2>2
<1>8. Covers(x, r, p)
  BY <1>2, <1>6, <1>7 DEF Covers
<1> QED BY <1>8 DEF x

LEMMA CoversShift ==
  ASSUME NEW w, NEW x, Follows(x, w), ~Live(w, 1), NEW ring, NEW p, Covers(w, ring, p)
  PROVE  Covers(x, ring, p)
<1>1. \A i \in DOMAIN x : x[i] = w[i + 1] /\ i + 1 \in DOMAIN w
  BY DEF Follows
<1>2. \A i \in DOMAIN w : i = 1 \/ (i - 1 \in DOMAIN x /\ x[i - 1] = w[i])
  BY DEF Follows
<1>3. \A i \in DOMAIN x : Live(x, i) => x[i].seq > p
  BY <1>1 DEF Covers, Live
<1>4. ASSUME NEW n \in (p + 1)..Len(ring) PROVE \E i \in DOMAIN x : Live(x, i) /\ x[i].seq = n
  <2>1. PICK i \in DOMAIN w : Live(w, i) /\ w[i].seq = n
    BY DEF Covers
  <2>2. i # 1
    BY <2>1
  <2>3. i - 1 \in DOMAIN x /\ x[i - 1] = w[i]
    BY <1>2, <2>2
  <2> QED BY <2>1, <2>3 DEF Live
<1> QED BY <1>3, <1>4 DEF Covers

\* The live frame at the head is the next one.
LEMMA CoversNext ==
  ASSUME NEW w, NEW x, Follows(x, w), Live(w, 1), NEW ring, IsLog(ring), NEW mark, NEW done,
         LiveIn(w, ring, mark, done), NEW p \in Nat, Covers(w, ring, p)
  PROVE  w[1].seq = p + 1 /\ w[1] = ring[p + 1] /\ p + 1 <= Len(ring) /\ Covers(x, ring, p + 1)
<1>1. /\ \A i \in DOMAIN x : x[i] = w[i + 1] /\ i + 1 \in DOMAIN w /\ i + 1 > 1
      /\ 1 \in DOMAIN w
      /\ \A i \in DOMAIN w : i = 1 \/ (i - 1 \in DOMAIN x /\ x[i - 1] = w[i])
      /\ DOMAIN w = 1..Len(w) /\ Len(w) \in Nat
  BY SeqShape DEF Follows, IsWire
<1>2. Numbered(w[1], ring) /\ Len(ring) \in Nat
  BY <1>1, SeqShape DEF LiveIn, IsLog
<1>3. w[1].seq \in 1..Len(ring) /\ w[1] = ring[w[1].seq] /\ w[1].seq > p
  BY <1>1, <1>2 DEF Numbered, Covers
<1>4. \A i \in DOMAIN w : i # 1 /\ Live(w, i) => w[1].seq < w[i].seq
  <2> SUFFICES ASSUME NEW i \in DOMAIN w, i # 1, Live(w, i) PROVE w[1].seq < w[i].seq
    OBVIOUS
  <2>1. 1 < i
    BY <1>1
  <2> QED BY <1>1, <2>1 DEF LiveIn
<1>5. w[1].seq = p + 1
  <2>1. p + 1 \in (p + 1)..Len(ring)
    BY <1>2, <1>3
  <2>2. PICK i \in DOMAIN w : Live(w, i) /\ w[i].seq = p + 1
    BY <2>1 DEF Covers
  <2>3. i = 1 \/ w[1].seq < p + 1
    BY <1>4, <2>2
  <2> QED BY <1>3, <2>2, <2>3
<1>6. ASSUME NEW i \in DOMAIN x, Live(x, i) PROVE x[i].seq > p + 1
  <2>1. i + 1 \in DOMAIN w /\ i + 1 # 1 /\ x[i] = w[i + 1] /\ Live(w, i + 1)
    BY <1>1, <1>6 DEF Live
  <2>2. w[1].seq < w[i + 1].seq
    BY <1>4, <2>1
  <2>3. w[i + 1].seq \in Nat
    BY <2>1 DEF LiveIn, Numbered
  <2> QED BY <1>5, <2>1, <2>2, <2>3
<1>7. ASSUME NEW n \in ((p + 1) + 1)..Len(ring)
      PROVE  \E i \in DOMAIN x : Live(x, i) /\ x[i].seq = n
  <2>1. n \in (p + 1)..Len(ring) /\ n # p + 1
    BY <1>2
  <2>2. PICK i \in DOMAIN w : Live(w, i) /\ w[i].seq = n
    BY <2>1 DEF Covers
  <2>3. i - 1 \in DOMAIN x /\ x[i - 1] = w[i]
    BY <1>1, <1>5, <2>1, <2>2
  <2> QED BY <2>2, <2>3 DEF Live
<1>8. Covers(x, ring, p + 1)
  BY <1>6, <1>7 DEF Covers
<1> QED BY <1>2, <1>3, <1>5, <1>8

----------------------------------------------------------------------------
(* The row that a stream writes.                                           *)

IsRowState(r) ==
  r \in [from : Nat, since : Nat, seeded : BOOLEAN, inPlace : BOOLEAN, sealed : Nat]

\* JoinsCleanly, of any log and any row.
JoinsIn(ring, r, t) ==
  \A i \in 1..r.from :
    IF r.seeded THEN /\ ring[i].type = "interim" => ring[i].turn # t
                     /\ ring[i].type \in ToolFrames => i <= r.since
    ELSE ring[i].turn # t

\* The turns that a row tells from its start.
Clean(ring, r) == {t \in Nat : ~r.inPlace /\ JoinsIn(ring, r, t)}

TellsOn(v, ring, s, r, p) ==
  After(ring, s, p) \in Clean(ring, r) => Tells(v, ring, After(ring, s, p), p)

SealedTold(v, ring, r) ==
  r.sealed # 0 =>
    /\ r.from <= r.sealed /\ r.sealed \in 1..Len(ring)
    /\ ring[r.sealed].turn \in Clean(ring, r) =>
         Said(v.chat.parts) = PiecesIn(ring, ring[r.sealed].turn, 0, r.sealed)

LEMMA CleanSame ==
  ASSUME NEW ring, NEW r, NEW q, q.from = r.from, q.since = r.since, q.seeded = r.seeded,
         q.inPlace = r.inPlace
  PROVE  Clean(ring, q) = Clean(ring, r)
  BY DEF Clean, JoinsIn

\* What the frames up to the n-th say, whatever comes after them.
LEMMA PrefixClean ==
  ASSUME NEW ring, NEW was, NEW n \in Nat, \A i \in 1..n : ring[i] = was[i],
         NEW r, r.from \in 0..n
  PROVE  Clean(ring, r) = Clean(was, r)
<1>1. \A i \in 1..r.from : ring[i] = was[i]
  OBVIOUS
<1>2. \A t : JoinsIn(ring, r, t) <=> JoinsIn(was, r, t)
  BY <1>1 DEF JoinsIn
<1> QED BY <1>2 DEF Clean

LEMMA PrefixView ==
  ASSUME NEW ring, NEW was, NEW n \in Nat, \A i \in 1..n : ring[i] = was[i],
         NEW v, NEW t, NEW p \in 0..n, Tells(v, was, t, p)
  PROVE  Tells(v, ring, t, p)
<1> DEFINE last == LastIn(was, "interim", t, p + 1)
<1>1. p + 1 \in 1..(n + 1) /\ p \in Nat
  OBVIOUS
<1>2. RestIn(ring, t, p + 1) = RestIn(was, t, p + 1)
  BY <1>1, PrefixTells
<1>3. LastIn(ring, "interim", t, p + 1) = last
  BY <1>1, PrefixLast
<1>4. PiecesIn(ring, t, 0, p) = PiecesIn(was, t, 0, p)
  <2>1. 0 \in Nat
    OBVIOUS
  <2> QED BY <2>1, PrefixPieces
<1>5. last \in 0..p
  <2>1. IsLast(was, "interim", t, p, last)
    BY <1>1, LastIs
  <2> HIDE DEF last
  <2> QED BY <2>1 DEF IsLast
<1>6. last # 0 => RestIn(ring, t, last) = RestIn(was, t, last)
  <2> HIDE DEF last
  <2> SUFFICES ASSUME last # 0 PROVE RestIn(ring, t, last) = RestIn(was, t, last)
    OBVIOUS
  <2>1. last \in 1..(n + 1)
    BY <1>5
  <2> QED BY <2>1, PrefixTells
<1>7. /\ IsShown(v) /\ IsRow(v.chat.parts)
      /\ Said(v.chat.parts) = PiecesIn(was, t, 0, p)
      /\ v.trans.content = RestIn(was, t, p + 1)
      /\ v.trans.lastInterim = IF last = 0 THEN <<>> ELSE RestIn(was, t, last)
      /\ RestIsOpen(v.chat.parts, RestIn(was, t, p + 1))
      /\ RestIn(was, t, p + 1) = <<>> /\ last # 0 => LastSealed(v.chat.parts, RestIn(was, t, last))
  BY DEF Tells
<1> HIDE DEF last
<1> QED BY <1>2, <1>3, <1>4, <1>6, <1>7 DEF Tells

LEMMA PrefixOn ==
  ASSUME NEW ring, NEW s, NEW was, NEW old, IsLog(was), Len(ring) \in Nat,
         \A i \in 1..Len(was) : ring[i] = was[i], SameTurns(ring, s, was, old),
         NEW v, NEW r, NEW p \in 0..Len(was), r.from \in 0..Len(was), TellsOn(v, was, old, r, p)
  PROVE  TellsOn(v, ring, s, r, p)
<1>1. Len(was) \in Nat
  BY SeqShape DEF IsLog
<1>2. After(ring, s, p) = After(was, old, p)
  BY DEF SameTurns
<1>3. Clean(ring, r) = Clean(was, r)
  <2>1. PICK n \in Nat : n = Len(was)
    BY <1>1
  <2>2. r.from \in 0..n /\ \A i \in 1..n : ring[i] = was[i]
    BY <2>1
  <2> QED BY <2>2, PrefixClean
<1>4. \A t : Tells(v, was, t, p) => Tells(v, ring, t, p)
  BY <1>1, PrefixView
<1> QED BY <1>2, <1>3, <1>4 DEF TellsOn

LEMMA PrefixSealed ==
  ASSUME NEW ring, NEW was, IsLog(was), Len(ring) \in Nat, Len(was) <= Len(ring),
         \A i \in 1..Len(was) : ring[i] = was[i],
         NEW v, NEW r, IsRowState(r), SealedTold(v, was, r)
  PROVE  SealedTold(v, ring, r)
<1> SUFFICES ASSUME r.sealed # 0
             PROVE  /\ r.from <= r.sealed /\ r.sealed \in 1..Len(ring)
                    /\ ring[r.sealed].turn \in Clean(ring, r) =>
                         Said(v.chat.parts) = PiecesIn(ring, ring[r.sealed].turn, 0, r.sealed)
  BY DEF SealedTold
<1>1. /\ r.from <= r.sealed /\ r.sealed \in 1..Len(was)
      /\ was[r.sealed].turn \in Clean(was, r) =>
           Said(v.chat.parts) = PiecesIn(was, was[r.sealed].turn, 0, r.sealed)
  BY DEF SealedTold
<1>2. Len(was) \in Nat /\ r.from \in 0..Len(was) /\ r.sealed \in 1..Len(ring)
  BY <1>1, SeqShape DEF IsLog, IsRowState
<1>3. Clean(ring, r) = Clean(was, r)
  <2>1. PICK n \in Nat : n = Len(was)
    BY <1>2
  <2>2. r.from \in 0..n /\ \A i \in 1..n : ring[i] = was[i]
    BY <1>2, <2>1
  <2> QED BY <2>2, PrefixClean
<1>4. ring[r.sealed] = was[r.sealed]
  BY <1>1
<1>5. \A t : PiecesIn(ring, t, 0, r.sealed) = PiecesIn(was, t, 0, r.sealed)
  <2>1. r.sealed \in 0..Len(was) /\ 0 \in Nat
    BY <1>1, <1>2
  <2> QED BY <1>2, <2>1, PrefixPieces
<1> QED BY <1>1, <1>2, <1>3, <1>4, <1>5

----------------------------------------------------------------------------
(* The inductive invariant: what the row tells.                            *)

\* A snapshot on the wire tells the turn that runs, as far as its place in the
\* stream of frames.
ResumedTold(w, ring, s) ==
  \A k \in DOMAIN w : w[k].kind = "resumed" =>
    /\ w[k].at \in 0..Len(ring) /\ Covers(w, ring, w[k].at)
    /\ w[k].running => w[k].text = PiecesIn(ring, After(ring, s, w[k].at), 0, w[k].at)

MissedAfter(w, since) ==
  \A k \in DOMAIN w : w[k].kind = "missed" =>
    \A a \in DOMAIN w[k].frames :
      w[k].frames[a].type \in Durable /\ w[k].frames[a].seq > since

FreshInv ==
  stream.at \in {"dial", "resume"} =>
    (row.inPlace \/ chat.parts = <<>>) /\ (stream.mode = "turn" => row.seeded = FALSE)

AskedInv ==
  stream.at = "replay" =>
    /\ row.seeded = TRUE
    /\ socket.request.method = "session.events.since" => socket.request.from = row.since
    /\ MissedAfter(socket.wire, row.since)

ReplayTold ==
  stream.at = "replay" =>
    LET n == row.from + Len(stream.buffer)
    IN  /\ n <= Len(log) /\ \A b \in DOMAIN stream.buffer : stream.buffer[b].seq = row.from + b
        /\ Covers(socket.wire, log, n)
        /\ TellsOn(View, log, session, row, row.from)

PumpTold ==
  stream.at = "pump" =>
    \E p \in row.from..Len(log) :
      Covers(socket.wire, log, p) /\ TellsOn(View, log, session, row, p)

SealedInv ==
  IF stream.at = "settling" THEN SealedTold(View, log, row) ELSE row.sealed = 0

TellInv ==
  /\ LogTold(log, session) /\ ResumedTold(socket.wire, log, session)
  /\ IsRowState(row) /\ IsShown(View)
  /\ FreshInv /\ AskedInv /\ ReplayTold /\ PumpTold /\ SealedInv

LEMMA InitTells == Init => TellInv
<1> SUFFICES ASSUME Init PROVE TellInv
  OBVIOUS
<1>1. LogTold(log, session)
  <2>1. PICK ring, s : ring = log /\ s = session
    OBVIOUS
  <2>2. ring = <<>> /\ s.running = FALSE
    BY <2>1 DEF Init
  <2> QED BY <2>1, <2>2, EmptyTells
<1>2. ResumedTold(socket.wire, log, session)
  <2>1. socket.wire = <<>>
    BY DEF Init
  <2>2. DOMAIN socket.wire = {}
    BY <2>1
  <2> QED BY <2>2 DEF ResumedTold
<1>3. IsRowState(row) /\ row.sealed = 0
  BY DEF Init, IsRowState, NewRow
<1>4. IsShown(View)
  BY DEF Init, IsShown, View, NewTranslator, NoRow
<1>5. stream.at = "idle"
  BY DEF Init
<1> QED BY <1>1, <1>2, <1>3, <1>4, <1>5
        DEF TellInv, FreshInv, AskedInv, ReplayTold, PumpTold, SealedInv

\* The ring grows; the snapshots of x are ones of w; what w covers, x covers.
Grows(was, ring) ==
  /\ IsLog(was) /\ Len(ring) \in Nat /\ Len(was) <= Len(ring)
  /\ \A i \in 1..Len(was) : ring[i] = was[i]

SnapshotsOf(x, w) ==
  \A k \in DOMAIN x : x[k].kind = "resumed" => \E j \in DOMAIN w : w[j] = x[k]

CoversOn(w, was, x, ring) ==
  \A p \in 0..Len(was) : Covers(w, was, p) => Covers(x, ring, p)

\* Snapshots stay true as the log grows and other messages come and go.
LEMMA ResumedCarries ==
  ASSUME NEW ring, NEW s, NEW was, NEW old, Grows(was, ring),
         SameTurns(ring, s, was, old), NEW w, NEW x, ResumedTold(w, was, old),
         SnapshotsOf(x, w), CoversOn(w, was, x, ring)
  PROVE  ResumedTold(x, ring, s)
<1> USE DEF Grows, SnapshotsOf, CoversOn
<1> SUFFICES ASSUME NEW k \in DOMAIN x, x[k].kind = "resumed"
             PROVE  /\ x[k].at \in 0..Len(ring) /\ Covers(x, ring, x[k].at)
                    /\ x[k].running =>
                         x[k].text = PiecesIn(ring, After(ring, s, x[k].at), 0, x[k].at)
  BY DEF ResumedTold
<1>1. PICK j \in DOMAIN w : w[j] = x[k]
  OBVIOUS
<1>6. PICK at : at = x[k].at
  OBVIOUS
<1>2. /\ at \in 0..Len(was) /\ Covers(w, was, at)
      /\ x[k].running => x[k].text = PiecesIn(was, After(was, old, at), 0, at)
  BY <1>1, <1>6 DEF ResumedTold
<1>3. Len(was) \in Nat /\ at \in 0..Len(ring) /\ Covers(x, ring, at)
  BY <1>2, SeqShape DEF IsLog
<1>4. After(ring, s, at) = After(was, old, at)
  BY <1>2 DEF SameTurns
<1>5. \A t : PiecesIn(ring, t, 0, at) = PiecesIn(was, t, 0, at)
  <2>1. PICK n \in Nat : n = Len(was)
    BY <1>3
  <2>2. at \in 0..n /\ 0 \in Nat /\ \A i \in 1..n : ring[i] = was[i]
    BY <1>2, <2>1
  <2>3. ASSUME NEW t PROVE PiecesIn(ring, t, 0, at) = PiecesIn(was, t, 0, at)
    <3>1. PICK from \in Nat : from = 0
      OBVIOUS
    <3>2. \A i \in 1..at : ring[i] = was[i]
      BY <2>1, <2>2
    <3>3. at \in Nat
      BY <2>1, <2>2
    <3>4. PiecesIn(ring, t, from, at) = PiecesIn(was, t, from, at)
      BY <3>2, <3>3, PrefixPieces
    <3> QED BY <3>1, <3>4
  <2> QED BY <2>3
<1> QED BY <1>2, <1>3, <1>4, <1>5, <1>6

\* The gateway changes nothing of the client.
LEMMA GatewayTells ==
  ASSUME StreamInv, StreamInv', TellInv, UNCHANGED <<stream, trans, chat, row>>,
         LogTold(log', session'), SameTurns(log', session', log, session),
         Len(log) <= Len(log'), \A i \in 1..Len(log) : log'[i] = log[i],
         stream.at \in {"replay", "pump"} =>
           \A p \in 0..Len(log) : Covers(socket.wire, log, p) => Covers(socket'.wire, log', p),
         ResumedTold(socket'.wire, log', session'), AskedInv'
  PROVE  TellInv'
<1>1. IsLog(log) /\ IsLog(log') /\ Len(log) \in Nat /\ Len(log') \in Nat
  BY SeqShape DEF StreamInv, IsLog
<1>2. View' = View /\ IsRowState(row) /\ IsRowState(row)' /\ IsShown(View)'
      /\ row.from \in Nat /\ row' = row /\ stream' = stream
  BY DEF View, TellInv, IsRowState
<1>3. ASSUME NEW p \in 0..Len(log), row.from <= p, TellsOn(View, log, session, row, p)
      PROVE  TellsOn(View', log', session', row', p)
  <2>1. row.from \in 0..Len(log)
    BY <1>1, <1>2, <1>3
  <2>2. PICK v, r, ring, s : v = View /\ r = row /\ ring = log' /\ s = session'
    OBVIOUS
  <2>3. TellsOn(v, ring, s, r, p)
    BY <1>1, <1>3, <2>1, <2>2, PrefixOn
  <2> QED BY <1>2, <2>2, <2>3
<1>4. FreshInv'
  BY <1>2 DEF TellInv, FreshInv
<1>5. ReplayTold'
  <2> SUFFICES ASSUME stream.at = "replay"
               PROVE  /\ row.from + Len(stream.buffer) <= Len(log')
                      /\ \A b \in DOMAIN stream.buffer : stream.buffer[b].seq = row.from + b
                      /\ Covers(socket'.wire, log', row.from + Len(stream.buffer))
                      /\ TellsOn(View', log', session', row', row.from)
    BY <1>2 DEF ReplayTold
  <2>1. Len(stream.buffer) \in Nat
    BY SeqShape DEF StreamInv, BufferInv, BufferIn
  <2> DEFINE n == row.from + Len(stream.buffer)
  <2>2. /\ n <= Len(log) /\ \A b \in DOMAIN stream.buffer : stream.buffer[b].seq = row.from + b
        /\ Covers(socket.wire, log, n)
        /\ TellsOn(View, log, session, row, row.from)
    BY DEF TellInv, ReplayTold
  <2>3. n \in 0..Len(log) /\ row.from \in 0..Len(log) /\ row.from <= row.from /\ n <= Len(log')
    BY <1>1, <1>2, <2>1, <2>2
  <2> QED BY <1>3, <2>2, <2>3
<1>6. PumpTold'
  <2> SUFFICES ASSUME stream.at = "pump"
               PROVE  \E p \in row.from..Len(log') :
                        Covers(socket'.wire, log', p) /\ TellsOn(View', log', session', row', p)
    BY <1>2 DEF PumpTold
  <2>1. PICK p \in row.from..Len(log) :
          Covers(socket.wire, log, p) /\ TellsOn(View, log, session, row, p)
    BY DEF TellInv, PumpTold
  <2>2. p \in 0..Len(log) /\ p \in row.from..Len(log') /\ row.from <= p
    BY <1>1, <1>2
  <2> QED BY <1>3, <2>1, <2>2
<1>7. SealedInv'
  <2>1. CASE stream.at = "settling"
    <3>1. SealedTold(View, log, row)
      BY <2>1 DEF TellInv, SealedInv
    <3>2. PICK v, r, ring : v = View /\ r = row /\ ring = log'
      OBVIOUS
    <3>3. SealedTold(v, ring, r)
      BY <1>1, <1>2, <3>1, <3>2, PrefixSealed
    <3> QED BY <1>2, <2>1, <3>2, <3>3 DEF SealedInv
  <2>2. CASE stream.at # "settling"
    BY <1>2, <2>2 DEF TellInv, SealedInv
  <2> QED BY <2>1, <2>2
<1> QED BY <1>2, <1>4, <1>5, <1>6, <1>7 DEF TellInv

----------------------------------------------------------------------------
(* The gateway's steps.                                                    *)

LEMMA EmitRow ==
  ASSUME StreamInv, StreamInv', TellInv, NEW type \in FrameTypes, Emit(type) PROVE TellInv'
<1> DEFINE f == Frame(type, session.turn, Len(log) + 1)
<1>1. /\ LogTold(log', session') /\ SameTurns(log', session', log, session)
      /\ log' = Append(log, f)
  BY EmitTells DEF StreamInv, TellInv
<1>2. f.kind = "frame" /\ f.seq = Len(log) + 1
  BY DEF Frame
<1>3. UNCHANGED <<stream, trans, chat, row>>
      /\ socket' = IF socket.bound THEN [socket EXCEPT !.wire = Append(@, f)] ELSE socket
  BY DEF Emit
<1> HIDE DEF f
<1>4. IsLog(log) /\ IsWire(socket.wire) /\ {"bound", "wire", "request"} \subseteq DOMAIN socket
      /\ socket.bound \in BOOLEAN
  BY DEF StreamInv, SocketInv
<1>5. /\ Len(log) \in Nat /\ Len(log') = Len(log) + 1 /\ DOMAIN log = 1..Len(log)
      /\ \A i \in 1..Len(log) : log'[i] = log[i]
  <2>1. IsSeq(log)
    BY <1>4 DEF IsLog
  <2> QED BY <1>1, <2>1, AppendSeq, SeqShape
<1>6. PICK w : w = socket.wire
  OBVIOUS
<1>7. PICK x : x = socket'.wire
  OBVIOUS
<1>8. CASE socket.bound
  <2>1. x = Append(w, f) /\ socket'.request = socket.request
    BY <1>3, <1>4, <1>6, <1>7, <1>8
  <2>2. ASSUME NEW p \in 0..Len(log), Covers(w, log, p) PROVE Covers(x, log', p)
    <3>1. PICK ring, r : ring = log /\ r = log'
      OBVIOUS
    <3>2. Covers(Append(w, f), r, p)
      BY <1>1, <1>2, <1>4, <1>6, <2>2, <3>1, CoversFrame
    <3> QED BY <2>1, <3>1, <3>2
  <2>3. /\ DOMAIN x = 1..(Len(w) + 1) /\ x[Len(w) + 1] = f
        /\ \A i \in DOMAIN w : x[i] = w[i]
        /\ Len(w) \in Nat /\ DOMAIN w = 1..Len(w)
    BY <1>2, <1>4, <1>6, <2>1, WireGrows DEF Kinds
  <2>4. \A k \in DOMAIN x : x[k].kind # "frame" => k \in DOMAIN w /\ w[k] = x[k]
    BY <1>2, <2>3
  <2>5. ResumedTold(w, log, session)
    BY <1>6 DEF TellInv
  <2>6. ResumedTold(x, log', session')
    <3>1. PICK ring, s : ring = log' /\ s = session'
      OBVIOUS
    <3>2. /\ Len(ring) \in Nat /\ Len(log) <= Len(ring) /\ SameTurns(ring, s, log, session)
          /\ \A i \in 1..Len(log) : ring[i] = log[i]
      BY <1>1, <1>5, <3>1
    <3>4. \A k \in DOMAIN x : x[k].kind = "resumed" => \E j \in DOMAIN w : w[j] = x[k]
      BY <2>4
    <3>5. \A p \in 0..Len(log) : Covers(w, log, p) => Covers(x, ring, p)
      BY <2>2, <3>1
    <3>6. PICK was, old : was = log /\ old = session
      OBVIOUS
    <3>7. /\ Grows(was, ring) /\ SnapshotsOf(x, w) /\ CoversOn(w, was, x, ring)
          /\ ResumedTold(w, was, old) /\ SameTurns(ring, s, was, old)
      BY <1>4, <2>5, <3>2, <3>4, <3>5, <3>6 DEF Grows, SnapshotsOf, CoversOn
    <3>3. ResumedTold(x, ring, s)
      BY <3>7, ResumedCarries
    <3> QED BY <3>1, <3>3
  <2>7. AskedInv'
    <3>1. AskedInv
      BY DEF TellInv
    <3>2. ASSUME MissedAfter(w, row.since) PROVE MissedAfter(x, row.since)
      BY <2>4, <3>2 DEF MissedAfter
    <3> QED BY <1>3, <1>6, <1>7, <2>1, <3>1, <3>2 DEF AskedInv
  <2>8. Len(log) <= Len(log')
    BY <1>5
  <2> QED BY <1>1, <1>3, <1>5, <1>6, <1>7, <2>2, <2>6, <2>7, <2>8, GatewayTells
<1>9. CASE ~socket.bound
  <2>1. socket' = socket
    BY <1>3, <1>9
  <2>2. \A k \in DOMAIN w : w[k].kind \in {"ready", "refused"}
    BY <1>6, <1>9 DEF StreamInv, LinkInv
  <2>3. ResumedTold(x, log', session')
    BY <1>6, <1>7, <2>1, <2>2 DEF ResumedTold
  <2>4. stream.at \notin {"replay", "pump"}
    BY <1>9 DEF StreamInv, LinkInv
  <2>5. AskedInv'
    BY <1>3, <2>4 DEF AskedInv
  <2>6. Len(log) <= Len(log')
    BY <1>5
  <2> QED BY <1>1, <1>3, <1>5, <2>3, <2>4, <2>5, <2>6, <1>6, <1>7, GatewayTells
<1> QED BY <1>4, <1>8, <1>9

\* The session changes, and at most a message that is neither a frame nor a
\* snapshot is sent.
LEMMA SessionRow ==
  ASSUME StreamInv, StreamInv', TellInv, UNCHANGED <<log, stream, trans, chat, row>>,
         \/ session'.running = session.running /\ session'.turn = session.turn
         \/ ~session.running /\ session'.running /\ session'.turn = session.turn + 1,
         \/ socket'.wire = socket.wire
         \/ \E m : /\ socket'.wire = Append(socket.wire, m)
                   /\ m.kind \in Kinds /\ m.kind \notin {"frame", "resumed"}
                   /\ m.kind = "missed" =>
                        \A a \in DOMAIN m.frames :
                          m.frames[a].type \in Durable /\ m.frames[a].seq > row.since,
         socket'.request.method = "session.events.since" => socket'.request = socket.request
  PROVE  TellInv'
<1>1. PICK s : s = session'
  OBVIOUS
<1>2. LogTold(log, s) /\ SameTurns(log, s, log, session)
  <2>1. IsLog(log) /\ LogTold(log, session) /\ SessionInv
    BY DEF StreamInv, TellInv
  <2> QED BY <1>1, <2>1, SessionTells
<1>3. PICK w : w = socket.wire
  OBVIOUS
<1>4. PICK x : x = socket'.wire
  OBVIOUS
<1>5. IsWire(w) /\ IsLog(log) /\ Len(log) \in Nat
  BY <1>3, SeqShape DEF StreamInv, SocketInv, IsLog
<1>6. /\ \A p \in 0..Len(log) : Covers(w, log, p) => Covers(x, log, p)
      /\ \A k \in DOMAIN x : x[k].kind = "resumed" => k \in DOMAIN w /\ w[k] = x[k]
      /\ MissedAfter(w, row.since) => MissedAfter(x, row.since)
  <2>1. CASE x = w
    BY <2>1
  <2>2. ASSUME NEW m, x = Append(w, m), m.kind \in Kinds, m.kind \notin {"frame", "resumed"},
               m.kind = "missed" =>
                 \A a \in DOMAIN m.frames :
                   m.frames[a].type \in Durable /\ m.frames[a].seq > row.since
        PROVE  /\ \A p \in 0..Len(log) : Covers(w, log, p) => Covers(x, log, p)
               /\ \A k \in DOMAIN x : x[k].kind = "resumed" => k \in DOMAIN w /\ w[k] = x[k]
               /\ MissedAfter(w, row.since) => MissedAfter(x, row.since)
    <3>1. \A p : Covers(w, log, p) => Covers(Append(w, m), log, p)
      BY <1>5, <2>2, CoversOther
    <3>2. /\ DOMAIN x = 1..(Len(w) + 1) /\ x[Len(w) + 1] = m
          /\ \A i \in DOMAIN w : x[i] = w[i]
          /\ Len(w) \in Nat /\ DOMAIN w = 1..Len(w)
      BY <1>5, <2>2, WireGrows
    <3>3. \A k \in DOMAIN x : (k \in DOMAIN w /\ w[k] = x[k]) \/ x[k] = m
      BY <3>2
    <3>4. MissedAfter(w, row.since) => MissedAfter(x, row.since)
      BY <2>2, <3>3 DEF MissedAfter
    <3> QED BY <2>2, <3>1, <3>3, <3>4
  <2>3. \/ x = w
        \/ \E m : /\ x = Append(w, m)
                  /\ m.kind \in Kinds /\ m.kind \notin {"frame", "resumed"}
                  /\ m.kind = "missed" =>
                       \A a \in DOMAIN m.frames :
                         m.frames[a].type \in Durable /\ m.frames[a].seq > row.since
    BY <1>3, <1>4
  <2>4. CASE x # w
    <3>1. PICK m : /\ x = Append(w, m)
                   /\ m.kind \in Kinds /\ m.kind \notin {"frame", "resumed"}
                   /\ m.kind = "missed" =>
                        \A a \in DOMAIN m.frames :
                          m.frames[a].type \in Durable /\ m.frames[a].seq > row.since
      BY <2>3, <2>4
    <3> QED BY <2>2, <3>1
  <2> QED BY <2>1, <2>4
<1>7. ResumedTold(x, log, s)
  <2>1. ResumedTold(w, log, session)
    BY <1>3 DEF TellInv
  <2>2. Grows(log, log) /\ SnapshotsOf(x, w) /\ CoversOn(w, log, x, log)
    BY <1>5, <1>6 DEF Grows, SnapshotsOf, CoversOn
  <2>3. PICK ring, old : ring = log /\ old = session
    OBVIOUS
  <2>4. ResumedTold(x, ring, s)
    BY <1>2, <2>1, <2>2, <2>3, ResumedCarries
  <2> QED BY <2>3, <2>4
<1>8. AskedInv'
  BY <1>3, <1>4, <1>6 DEF TellInv, AskedInv
<1>9. Len(log) <= Len(log') /\ \A i \in 1..Len(log) : log'[i] = log[i]
  BY <1>5
<1> QED BY <1>1, <1>2, <1>3, <1>4, <1>6, <1>7, <1>8, <1>9, GatewayTells

LEMMA PromptAnsweredRow ==
  ASSUME StreamInv, StreamInv', TellInv, PromptAnswered PROVE TellInv'
<1>1. session'.running = session.running /\ session'.turn = session.turn
  BY DEF PromptAnswered, StreamInv, SessionInv
<1> QED BY <1>1, SessionRow DEF PromptAnswered

LEMMA ForeignTurnRow ==
  ASSUME StreamInv, StreamInv', TellInv, ForeignTurn PROVE TellInv'
<1>1. ~session.running /\ session'.running /\ session'.turn = session.turn + 1
  BY DEF ForeignTurn, StartsTurn, StreamInv, SessionInv
<1> QED BY <1>1, SessionRow DEF ForeignTurn

LEMMA RequestLostRow ==
  ASSUME StreamInv, StreamInv', TellInv, RequestLost PROVE TellInv'
<1>1. socket'.wire = socket.wire /\ socket'.request = NoRequest
  BY DEF RequestLost, StreamInv, SocketInv
<1> QED BY <1>1, SessionRow DEF RequestLost, NoRequest

LEMMA RestartRow ==
  ASSUME StreamInv, StreamInv', TellInv, Restart PROVE TellInv'
<1>1. ~Linked /\ UNCHANGED <<socket, stream, trans, chat>>
  BY DEF Restart, Linked
<1>2. socket.wire = <<>> /\ stream.at \notin {"replay", "pump"}
  BY <1>1 DEF StreamInv, LinkInv, Linked
<1>3. row' = [row EXCEPT !.sealed = 0] /\ log' = <<>> /\ session'.running = FALSE
  BY DEF Restart, StreamInv, SessionInv
<1>4. IsRowState(row)' /\ row'.sealed = 0 /\ row'.inPlace = row.inPlace
      /\ row'.seeded = row.seeded
  BY <1>3 DEF TellInv, IsRowState
<1>5. LogTold(log', session')
  <2>1. PICK ring, s : ring = log' /\ s = session'
    OBVIOUS
  <2>2. LogTold(ring, s)
    BY <1>3, <2>1, EmptyTells
  <2> QED BY <2>1, <2>2
<1>6. ResumedTold(socket'.wire, log', session')
  <2>1. DOMAIN socket'.wire = {}
    BY <1>1, <1>2
  <2> QED BY <2>1 DEF ResumedTold
<1>7. IsShown(View)'
  BY <1>1 DEF TellInv, View
<1>8. FreshInv'
  BY <1>1, <1>4 DEF TellInv, FreshInv
<1>9. SealedInv'
  BY <1>1, <1>4 DEF SealedInv, SealedTold
<1> QED BY <1>1, <1>2, <1>4, <1>5, <1>6, <1>7, <1>8, <1>9
        DEF TellInv, AskedInv, ReplayTold, PumpTold

LEMMA AnswersResumeRow ==
  ASSUME StreamInv, StreamInv', TellInv, AnswersResume, UNCHANGED <<log, stream, trans, chat, row>>
  PROVE  TellInv'
<1>1. stream.at = "resume" /\ ~socket.bound /\ UNCHANGED session
  BY DEF AnswersResume, StreamInv, LinkInv, Linked, PlaceInv, Places
<1>2. {"bound", "wire", "request"} \subseteq DOMAIN socket
  BY DEF StreamInv, SocketInv
<1>3. ASSUME NEW text, text = Pieces(session.turn, 0, Len(log)),
             socket' = [bound |-> TRUE, request |-> NoRequest,
                        wire |-> Append(socket.wire,
                          [kind |-> "resumed", running |-> session.running,
                           failed |-> session.failed, text |-> text,
                           prompt |-> session.blocked, at |-> Len(log)])]
      PROVE  TellInv'
  <2>1. PICK m : m = [kind |-> "resumed", running |-> session.running, failed |-> session.failed,
                      text |-> text, prompt |-> session.blocked, at |-> Len(log)]
    OBVIOUS
  <2>2. /\ m.kind = "resumed" /\ m.running = session.running /\ m.text = text
        /\ m.at = Len(log)
    BY <2>1
  <2>3. socket'.wire = Append(socket.wire, m)
    BY <1>3, <2>1
  <2>4. PICK w : w = socket.wire
    OBVIOUS
  <2>5. PICK x : x = Append(w, m)
    OBVIOUS
  <2>6. IsWire(w) /\ \A i \in DOMAIN w : w[i].kind \in {"ready", "refused"}
    BY <1>1, <2>4 DEF StreamInv, SocketInv, LinkInv
  <2>7. \A k \in DOMAIN x : x[k].kind \in {"ready", "refused"} \/ x[k] = m
    <3>1. /\ DOMAIN x = 1..(Len(w) + 1) /\ x[Len(w) + 1] = m
          /\ \A i \in DOMAIN w : x[i] = w[i]
          /\ Len(w) \in Nat /\ DOMAIN w = 1..Len(w)
      BY <2>2, <2>5, <2>6, WireGrows DEF Kinds
    <3>2. \A k \in DOMAIN x : k \in DOMAIN w \/ x[k] = m
      BY <3>1
    <3> QED BY <2>6, <3>1, <3>2
  <2>8. Len(log) \in Nat
    BY SeqShape DEF StreamInv, IsLog
  <2>9. Covers(x, log, Len(log))
    <3>1. \A i \in DOMAIN x : ~Live(x, i)
      BY <2>2, <2>7 DEF Live
    <3>2. (Len(log) + 1)..Len(log) = {}
      BY <2>8
    <3> QED BY <3>1, <3>2 DEF Covers
  <2>10. m.running => m.text = PiecesIn(log, After(log, session, m.at), 0, m.at)
    <3>1. session.running => After(log, session, Len(log)) = session.turn
      BY <2>8 DEF After
    <3>2. text = PiecesIn(log, session.turn, 0, Len(log))
      BY <1>3, ModelTells
    <3> QED BY <2>2, <3>1, <3>2
  <2>11. ResumedTold(x, log, session)
    <3>1. m.at \in 0..Len(log) /\ Covers(x, log, m.at)
      BY <2>2, <2>8, <2>9
    <3> QED BY <2>7, <2>10, <3>1 DEF ResumedTold
  <2>12. ResumedTold(socket'.wire, log', session')
    BY <1>1, <2>3, <2>4, <2>5, <2>11
  <2>13. LogTold(log', session') /\ SameTurns(log', session', log, session)
    BY <1>1 DEF TellInv, SameTurns
  <2>14. AskedInv'
    BY <1>1 DEF AskedInv
  <2>15. Len(log) <= Len(log') /\ \A i \in 1..Len(log) : log'[i] = log[i]
    BY <2>8
  <2> QED BY <1>1, <2>12, <2>13, <2>14, <2>15, GatewayTells
<1>4. ASSUME NEW notFound, Says(Refusal(notFound)) PROVE TellInv'
  <2> DEFINE m == Refusal(notFound)
  <2>1. m.kind = "refused"
    BY DEF Refusal
  <2> HIDE DEF m
  <2>2. socket'.request = NoRequest /\ socket'.wire = Append(socket.wire, m)
    BY <1>2, <1>4 DEF Says, m
  <2>3. m.kind \in Kinds /\ m.kind \notin {"frame", "resumed"} /\ m.kind # "missed"
    BY <2>1 DEF Kinds
  <2>4. socket'.request.method # "session.events.since"
    BY <2>2 DEF NoRequest
  <2>5. session'.running = session.running /\ session'.turn = session.turn
    BY <1>1
  <2> QED BY <2>2, <2>3, <2>4, <2>5, SessionRow
<1> QED BY <1>3, <1>4 DEF AnswersResume

\* The records asked for come after the watermark they are asked after.
LEMMA RecordsLate ==
  ASSUME NEW ring, IsLog(ring), NEW from \in Nat,
         NEW found, found = DurableOf(SubSeq(ring, from + 1, Len(ring)))
  PROVE  \A a \in DOMAIN found : found[a].type \in Durable /\ found[a].seq > from
<1>1. PICK after : after = SubSeq(ring, from + 1, Len(ring))
  OBVIOUS
<1>2. IsSeq(after) /\ \A i \in DOMAIN after : Numbered(after[i], ring) /\ from < after[i].seq
  BY <1>1, AfterMark
<1>3. PICK I : I = {i \in DOMAIN after : after[i].type \in Durable}
  OBVIOUS
<1>4. found = Picked(after, I)
  BY <1>1, <1>3 DEF DurableOf
<1>5. \A a \in DOMAIN found : \E i \in DOMAIN after : i \in I /\ found[a] = after[i]
  BY <1>2, <1>4, PickedFrom
<1>6. \A i \in DOMAIN after : i \in I => after[i].type \in Durable
  BY <1>3
<1>7. \A i \in DOMAIN after : after[i].seq > from
  <2> SUFFICES ASSUME NEW i \in DOMAIN after PROVE after[i].seq > from
    OBVIOUS
  <2>1. Numbered(after[i], ring) /\ from < after[i].seq /\ Len(ring) \in Nat
    BY <1>2, SeqShape DEF IsLog
  <2> QED BY <2>1 DEF Numbered
<1> QED BY <1>5, <1>6, <1>7

LEMMA AnswersMissedRow ==
  ASSUME StreamInv, StreamInv', TellInv, AnswersMissed, UNCHANGED <<log, stream, trans, chat, row>>
  PROVE  TellInv'
<1>1. /\ stream.at = "replay" /\ UNCHANGED session
      /\ socket.request.method = "session.events.since" /\ socket.request.from \in Nat
      /\ {"bound", "wire", "request"} \subseteq DOMAIN socket /\ IsLog(log)
  BY DEF AnswersMissed, StreamInv, LinkInv, Linked, PlaceInv, Places, SocketInv
<1>2. socket.request.from = row.since
  BY <1>1 DEF TellInv, AskedInv
<1>3. PICK found : found = DurableOf(SubSeq(log, socket.request.from + 1, Len(log)))
  OBVIOUS
<1>4. \A a \in DOMAIN found : found[a].type \in Durable /\ found[a].seq > row.since
  <2>1. PICK ring, from : ring = log /\ from = socket.request.from
    OBVIOUS
  <2>2. \A a \in DOMAIN found : found[a].type \in Durable /\ found[a].seq > from
    BY <1>1, <1>3, <2>1, RecordsLate
  <2> QED BY <1>2, <2>1, <2>2
<1>5. ASSUME NEW frames,
             \A a \in DOMAIN frames : frames[a].type \in Durable /\ frames[a].seq > row.since,
             Says([kind |-> "missed", frames |-> frames])
      PROVE  TellInv'
  <2> DEFINE m == [kind |-> "missed", frames |-> frames]
  <2>1. m.kind = "missed" /\ m.frames = frames
    OBVIOUS
  <2>2. Says(m)
    BY <1>5
  <2> HIDE DEF m
  <2>3. socket'.request = NoRequest /\ socket'.wire = Append(socket.wire, m)
    BY <1>1, <2>2 DEF Says
  <2>4. /\ m.kind \in Kinds /\ m.kind \notin {"frame", "resumed"}
        /\ \A a \in DOMAIN m.frames : m.frames[a].type \in Durable /\ m.frames[a].seq > row.since
    BY <1>5, <2>1 DEF Kinds
  <2>5. socket'.request.method # "session.events.since"
    BY <2>3 DEF NoRequest
  <2>6. session'.running = session.running /\ session'.turn = session.turn
    BY <1>1
  <2> QED BY <2>3, <2>4, <2>5, <2>6, SessionRow
<1>6. \/ Says([kind |-> "missed", frames |-> found])
      \/ Says([kind |-> "missed", frames |-> <<>>])
  BY <1>3 DEF AnswersMissed
<1>7. CASE Says([kind |-> "missed", frames |-> <<>>])
  <2>1. PICK none : none = <<>>
    OBVIOUS
  <2>2. DOMAIN none = {} /\ Says([kind |-> "missed", frames |-> none])
    BY <1>7, <2>1
  <2> QED BY <1>5, <2>2
<1> QED BY <1>4, <1>5, <1>6, <1>7

LEMMA AnswersSubmitRow ==
  ASSUME StreamInv, StreamInv', TellInv, AnswersSubmit, UNCHANGED <<log, stream, trans, chat, row>>
  PROVE  TellInv'
<1>1. /\ {"bound", "wire", "request"} \subseteq DOMAIN socket
      /\ {"turn", "running"} \subseteq DOMAIN session
  BY DEF StreamInv, SocketInv, SessionInv
<1>2. CASE Says(Refusal(FALSE)) /\ UNCHANGED session
  <2> DEFINE m == Refusal(FALSE)
  <2>1. m.kind = "refused"
    BY DEF Refusal
  <2> HIDE DEF m
  <2>2. socket'.request = NoRequest /\ socket'.wire = Append(socket.wire, m)
    BY <1>1, <1>2 DEF Says, m
  <2>3. m.kind \in Kinds /\ m.kind \notin {"frame", "resumed"} /\ m.kind # "missed"
    BY <2>1 DEF Kinds
  <2>4. socket'.request.method # "session.events.since"
    BY <2>2 DEF NoRequest
  <2>5. session'.running = session.running /\ session'.turn = session.turn
    BY <1>2
  <2> QED BY <2>2, <2>3, <2>4, <2>5, SessionRow
<1>3. ASSUME socket' = [socket EXCEPT !.request = NoRequest],
             \/ UNCHANGED session
             \/ ~session.running /\ session' = StartsTurn
      PROVE  TellInv'
  <2>1. socket'.wire = socket.wire /\ socket'.request.method # "session.events.since"
    BY <1>1, <1>3 DEF NoRequest
  <2>2. \/ session'.running = session.running /\ session'.turn = session.turn
        \/ ~session.running /\ session'.running /\ session'.turn = session.turn + 1
    <3>1. CASE UNCHANGED session
      BY <3>1
    <3>2. CASE ~session.running /\ session' = StartsTurn
      BY <3>2 DEF StartsTurn, StreamInv, SessionInv
    <3> QED BY <1>3, <3>1, <3>2
  <2> QED BY <2>1, <2>2, SessionRow
<1> QED BY <1>2, <1>3 DEF AnswersSubmit

LEMMA AnswerRow ==
  ASSUME StreamInv, StreamInv', TellInv, Answer PROVE TellInv'
  BY AnswersResumeRow, AnswersMissedRow, AnswersSubmitRow DEF Answer

----------------------------------------------------------------------------
(* The client's steps.                                                     *)

\* The stream is at a place where it has no row to tell of.
LEMMA AwayRow ==
  ASSUME TellInv, UNCHANGED <<log, session>>, ResumedTold(socket'.wire, log, session),
         IsRowState(row'), row'.sealed = 0, IsShown(View'), FreshInv',
         stream'.at \in {"idle", "dial", "resume", "delay"}
  PROVE  TellInv'
<1>1. LogTold(log', session') /\ ResumedTold(socket'.wire, log', session')
  BY DEF TellInv
<1> QED BY <1>1 DEF TellInv, AskedInv, ReplayTold, PumpTold, SealedInv

LEMMA NewRowIs ==
  ASSUME NEW r, r = NewRow
  PROVE  IsRowState(r) /\ r.sealed = 0 /\ r.inPlace = FALSE /\ r.seeded = FALSE
  BY DEF NewRow, IsRowState

LEMMA OpenRow ==
  ASSUME StreamInv, TellInv, NEW mode, Open(mode) PROVE TellInv'
<1>1. /\ stream'.at = "dial" /\ row' = NewRow /\ chat' = FreshRow
      /\ UNCHANGED <<log, session, socket, trans>>
  BY DEF Open
<1>2. IsRowState(row') /\ row'.sealed = 0 /\ row'.inPlace = FALSE /\ row'.seeded = FALSE
  BY <1>1, NewRowIs
<1>3. IsShown(View')
  BY <1>1 DEF TellInv, IsShown, View, FreshRow
<1>4. FreshInv'
  BY <1>1, <1>2 DEF FreshInv, FreshRow
<1>5. ResumedTold(socket'.wire, log, session)
  BY <1>1 DEF TellInv
<1> QED BY <1>1, <1>2, <1>3, <1>4, <1>5, AwayRow

LEMMA ReattachRow ==
  ASSUME StreamInv, TellInv, Reattach PROVE TellInv'
<1>1. /\ stream.at = "delay" /\ row' = [row EXCEPT !.inPlace = @ \/ chat.parts # <<>>]
      /\ stream' = [stream EXCEPT !.at = "dial", !.mode = "reattach"]
      /\ UNCHANGED <<log, session, socket, trans, chat>>
  BY DEF Reattach
<1>2. stream'.at = "dial" /\ stream'.mode = "reattach"
  BY <1>1 DEF StreamInv, PlaceInv
<1>3. IsRowState(row) /\ row.sealed = 0
  BY <1>1 DEF TellInv, SealedInv
<1>4. IsRowState(row') /\ row'.sealed = 0 /\ (row'.inPlace \/ chat.parts = <<>>)
  BY <1>1, <1>3 DEF IsRowState
<1>5. IsShown(View') /\ ResumedTold(socket'.wire, log, session)
  BY <1>1 DEF TellInv, View
<1>6. FreshInv'
  BY <1>1, <1>2, <1>4 DEF FreshInv
<1> QED BY <1>1, <1>2, <1>4, <1>5, <1>6, AwayRow

LEMMA SettleRow ==
  ASSUME StreamInv, TellInv, Settle PROVE TellInv'
<1>1. /\ stream' = [stream EXCEPT !.at = "idle", !.known = FALSE]
      /\ chat' = Settled(TimelineReconciled(chat)) \/ chat' = Settled(chat)
      /\ trans' = NewTranslator(0) /\ row' = NewRow
      /\ UNCHANGED <<log, session, socket>>
  BY DEF Settle
<1>2. IsRowState(row') /\ row'.sealed = 0
  BY <1>1, NewRowIs
<1>3. stream'.at = "idle"
  BY <1>1 DEF StreamInv, PlaceInv
<1>4. ASSUME NEW c, {"parts", "prompt", "plan", "status"} \subseteq DOMAIN c
      PROVE  {"parts", "prompt", "plan", "status"} \subseteq DOMAIN Settled(c)
  BY <1>4 DEF Settled
<1>5. {"parts", "prompt", "plan", "status"} \subseteq DOMAIN chat
  BY DEF TellInv, IsShown, View
<1>6. {"parts", "prompt", "plan", "status"} \subseteq DOMAIN chat'
  <2>1. PICK c : c = TimelineReconciled(chat)
    OBVIOUS
  <2>2. {"parts", "prompt", "plan", "status"} \subseteq DOMAIN c
    BY <1>5, <2>1 DEF TimelineReconciled
  <2> QED BY <1>1, <1>4, <1>5, <2>1, <2>2
<1>7. IsShown(View')
  BY <1>1, <1>6 DEF IsShown, View, NewTranslator
<1>8. FreshInv'
  BY <1>3 DEF FreshInv
<1>9. ResumedTold(socket'.wire, log, session)
  BY <1>1 DEF TellInv
<1> QED BY <1>1, <1>2, <1>3, <1>7, <1>8, <1>9, AwayRow

LEMMA DialledRow ==
  ASSUME StreamInv, TellInv, Dialled PROVE TellInv'
<1>1. /\ stream.at = "dial" /\ stream' = [stream EXCEPT !.at = "resume"]
      /\ UNCHANGED <<log, session, trans, chat, row>>
  BY DEF Dialled
<1>2. stream'.at = "resume" /\ stream'.mode = stream.mode
  BY <1>1 DEF StreamInv, PlaceInv
<1>3. ResumedTold(socket'.wire, log, session)
  <2>1. socket'.wire = <<[kind |-> "ready", epoch |-> session.epoch]>>
    BY DEF Dialled
  <2>2. DOMAIN socket'.wire = {1} /\ socket'.wire[1].kind = "ready"
    BY <2>1
  <2> QED BY <2>2 DEF ResumedTold
<1>4. IsRowState(row') /\ row'.sealed = 0 /\ IsShown(View')
  BY <1>1 DEF TellInv, SealedInv, View
<1>5. FreshInv'
  BY <1>1, <1>2 DEF TellInv, FreshInv
<1> QED BY <1>1, <1>2, <1>3, <1>4, <1>5, AwayRow

LEMMA ErrorTold ==
  ASSUME NEW v, IsShown(v)
  PROVE  SameTold(v, [v EXCEPT !.chat = TransportError(v.chat)])
  BY DEF SameTold, IsShown, TransportError

\* The stream ends, fails or is taken up again.
LEMMA ClosesRow ==
  ASSUME StreamInv, TellInv, UNCHANGED <<log, session>>, NEW v, IsShown(v),
         IsRowState(row'),
         \/ Ends(v) /\ SealedTold(v, log, row')
         \/ (Fails(v) \/ Disconnected(v)) /\ row'.sealed = 0
  PROVE  TellInv'
<1>1. {"at", "mode", "known", "attempts", "buffer", "prompt"} \subseteq DOMAIN stream
  BY DEF StreamInv, PlaceInv
<1>2. ASSUME socket' = Closed PROVE ResumedTold(socket'.wire, log, session)
  <2>1. DOMAIN socket'.wire = {}
    BY <1>2 DEF Closed
  <2> QED BY <2>1 DEF ResumedTold
<1>3. ASSUME NEW u, IsShown(u), Ends(u), SealedTold(u, log, row') PROVE TellInv'
  <2>1. stream'.at = "settling" /\ socket' = Closed /\ Show(u)
    BY <1>1, <1>3 DEF Ends
  <2>2. View'.trans = u.trans /\ View'.chat = u.chat /\ IsShown(View')
    BY <1>3, <2>1 DEF Show, View, IsShown
  <2>3. SealedTold(View', log', row')
    BY <1>3, <2>2 DEF SealedTold
  <2>4. LogTold(log', session') /\ ResumedTold(socket'.wire, log', session')
    BY <1>2, <2>1 DEF TellInv
  <2> QED BY <2>1, <2>2, <2>3, <2>4
          DEF TellInv, FreshInv, AskedInv, ReplayTold, PumpTold, SealedInv
<1>4. CASE Fails(v) /\ row'.sealed = 0
  <2> DEFINE u == [v EXCEPT !.chat = TransportError(v.chat)]
  <2>1. Ends(u) /\ IsShown(u)
    BY <1>4, ErrorTold DEF Fails, SameTold
  <2> HIDE DEF u
  <2>2. SealedTold(u, log, row')
    BY <1>4 DEF SealedTold
  <2> QED BY <1>3, <2>1, <2>2
<1>5. CASE Disconnected(v) /\ MayReattach /\ row'.sealed = 0
  <2>1. stream'.at = "delay" /\ socket' = Closed /\ Show(v)
    BY <1>1, <1>5 DEF Disconnected
  <2>2. View'.trans = v.trans /\ View'.chat = v.chat /\ IsShown(View')
    BY <2>1 DEF Show, View, IsShown
  <2>3. FreshInv'
    BY <2>1 DEF FreshInv
  <2> QED BY <1>2, <1>5, <2>1, <2>2, <2>3, AwayRow
<1>6. CASE Disconnected(v) /\ ~MayReattach /\ row'.sealed = 0
  BY <1>4, <1>6 DEF Disconnected
<1> QED BY <1>3, <1>4, <1>5, <1>6

LEMMA DialFailsRow ==
  ASSUME StreamInv, TellInv, DialFails PROVE TellInv'
<1>1. /\ stream.at = "dial" /\ UNCHANGED <<log, session, row>>
      /\ Disconnected(View) \/ Fails(View)
  BY DEF DialFails
<1>2. IsRowState(row') /\ row'.sealed = 0 /\ IsShown(View)
  BY <1>1 DEF TellInv, SealedInv
<1>3. PICK v : v = View
  OBVIOUS
<1> QED BY <1>1, <1>2, <1>3, ClosesRow

LEMMA RefusedRow ==
  ASSUME StreamInv, TellInv, stream.at # "settling", NEW m, HandleRefused(m),
         UNCHANGED <<log, session, drops>>
  PROVE  TellInv'
<1>1. UNCHANGED row /\ (Ends(View) \/ Fails(View))
  BY DEF HandleRefused
<1>2. IsRowState(row') /\ row'.sealed = 0 /\ IsShown(View)
  BY <1>1 DEF TellInv, SealedInv
<1>3. PICK v : v = View
  OBVIOUS
<1>4. SealedTold(v, log, row')
  BY <1>2 DEF SealedTold
<1> QED BY <1>1, <1>2, <1>3, <1>4, ClosesRow

LEMMA ReadyRow ==
  ASSUME StreamInv, StreamInv', TellInv, socket.wire # <<>>, socket.wire[1].kind = "ready",
         HandleReady(socket.wire[1]), UNCHANGED <<log, session, drops>>
  PROVE  TellInv'
<1>1. PICK w : w = socket.wire
  OBVIOUS
<1>2. PICK x : x = Tail(w)
  OBVIOUS
<1>3. Follows(x, w) /\ ~Live(w, 1)
  BY <1>1, <1>2, Rest DEF Live
<1>4. /\ socket'.wire = x /\ socket'.request = socket.request
      /\ UNCHANGED <<stream, trans, chat, row>>
  BY <1>1, <1>2 DEF HandleReady, StreamInv, SocketInv
<1>5. IsLog(log) /\ Len(log) \in Nat /\ LogTold(log, session)
  BY SeqShape DEF StreamInv, TellInv, IsLog
<1>6. \A p \in 0..Len(log) : Covers(w, log, p) => Covers(x, log, p)
  BY <1>3, CoversShift
<1>7. SameTurns(log, session, log, session)
  BY DEF SameTurns
<1>8. ResumedTold(x, log, session)
  <2>1. Grows(log, log) /\ SnapshotsOf(x, w) /\ CoversOn(w, log, x, log)
    BY <1>3, <1>5, <1>6 DEF Grows, SnapshotsOf, CoversOn, Follows
  <2>2. ResumedTold(w, log, session)
    BY <1>1 DEF TellInv
  <2>3. PICK ring, s : ring = log /\ s = session
    OBVIOUS
  <2>4. ResumedTold(x, ring, s)
    BY <1>7, <2>1, <2>2, <2>3, ResumedCarries
  <2> QED BY <2>3, <2>4
<1>9. AskedInv'
  <2>1. MissedAfter(w, row.since) => MissedAfter(x, row.since)
    BY <1>3 DEF MissedAfter, Follows
  <2> QED BY <1>1, <1>4, <2>1 DEF TellInv, AskedInv
<1>10. /\ LogTold(log', session') /\ SameTurns(log', session', log, session)
       /\ Len(log) <= Len(log') /\ \A i \in 1..Len(log) : log'[i] = log[i]
       /\ ResumedTold(socket'.wire, log', session')
       /\ \A p \in 0..Len(log) : Covers(socket.wire, log, p) => Covers(socket'.wire, log', p)
  BY <1>1, <1>4, <1>5, <1>6, <1>7, <1>8
<1> QED BY <1>4, <1>9, <1>10, GatewayTells

\* Where a row is on the line, no snapshot is.
LEMMA NoSnapshot ==
  ASSUME NEW w, NEW at, at # "resume", NEW method, NEW epoch, InOrder(w, at, method, epoch),
         NEW ring, NEW s
  PROVE  ResumedTold(w, ring, s)
  BY DEF InOrder, ResumedTold

LEMMA QueuedRow ==
  ASSUME StreamInv, StreamInv', TellInv, socket.wire # <<>>, NEW m, m = socket.wire[1],
         m.kind = "frame", stream.at = "replay",
         stream' = [stream EXCEPT !.buffer = Append(@, m)],
         socket' = [socket EXCEPT !.wire = Tail(@)],
         UNCHANGED <<log, session, trans, chat, row>>
  PROVE  TellInv'
<1>1. PICK w : w = socket.wire
  OBVIOUS
<1>2. PICK x : x = Tail(w)
  OBVIOUS
<1>3. Follows(x, w) /\ Live(w, 1) /\ w[1] = m
  BY <1>1, <1>2, Rest DEF Live
<1>4. socket'.wire = x /\ socket'.request = socket.request
  BY <1>1, <1>2 DEF StreamInv, SocketInv
<1>5. stream'.at = "replay" /\ stream'.buffer = Append(stream.buffer, m)
  BY DEF StreamInv, PlaceInv
<1>6. IsLog(log) /\ LiveIn(w, log, Mark, applied) /\ IsSeq(stream.buffer)
  BY <1>1 DEF StreamInv, LiveInv, BufferInv, BufferIn
<1>7. PICK q : q = stream.buffer
  OBVIOUS
<1>8. PICK from : from = row.from
  OBVIOUS
<1>9. /\ from + Len(q) <= Len(log) /\ \A b \in DOMAIN q : q[b].seq = from + b
      /\ Covers(w, log, from + Len(q))
      /\ TellsOn(View, log, session, row, from)
  BY <1>1, <1>7, <1>8 DEF TellInv, ReplayTold
<1>10. from \in Nat /\ Len(q) \in Nat
  BY <1>6, <1>7, <1>8, SeqShape DEF TellInv, IsRowState
<1>11. PICK p \in Nat : p = from + Len(q)
  BY <1>10
<1>12. w[1].seq = p + 1 /\ p + 1 <= Len(log) /\ Covers(x, log, p + 1)
  <2>1. PICK mark, done : mark = Mark /\ done = applied
    OBVIOUS
  <2> QED BY <1>3, <1>6, <1>9, <1>11, <2>1, CoversNext
<1>13. ReplayTold'
  <2>1. PICK q2 : q2 = Append(q, m)
    OBVIOUS
  <2>2. /\ Len(q2) = Len(q) + 1 /\ DOMAIN q2 = 1..(Len(q) + 1) /\ q2[Len(q) + 1] = m
        /\ \A i \in DOMAIN q : q2[i] = q[i]
    BY <1>6, <1>7, <2>1, AppendSeq
  <2>3. from + Len(q2) = p + 1
    BY <1>10, <1>11, <2>2
  <2>4. ASSUME NEW b \in DOMAIN q2 PROVE q2[b].seq = from + b
    <3>1. CASE b \in DOMAIN q
      BY <1>9, <2>2, <3>1
    <3>2. CASE b \notin DOMAIN q
      <4>1. DOMAIN q = 1..Len(q)
        BY <1>6, <1>7, SeqShape
      <4>2. b = Len(q) + 1
        BY <1>10, <2>2, <3>2, <4>1
      <4> QED BY <1>3, <1>10, <1>11, <1>12, <2>2, <4>2
    <3> QED BY <3>1, <3>2
  <2>5. stream'.buffer = q2
    BY <1>5, <1>7, <2>1
  <2>6. View' = View
    BY DEF View
  <2> QED BY <1>4, <1>8, <1>9, <1>12, <2>3, <2>4, <2>5, <2>6 DEF ReplayTold
<1>14. AskedInv'
  <2>1. MissedAfter(w, row.since) => MissedAfter(x, row.since)
    BY <1>3 DEF MissedAfter, Follows
  <2> QED BY <1>1, <1>4, <1>5, <2>1 DEF TellInv, AskedInv
<1>15. ResumedTold(socket'.wire, log', session')
  <2>1. InOrder(socket'.wire, stream'.at, socket'.request.method, session'.epoch)
    BY DEF StreamInv, WireInv
  <2>2. PICK y, at, method, epoch, ring, s : y = socket'.wire /\ at = stream'.at
          /\ method = socket'.request.method /\ epoch = session'.epoch
          /\ ring = log' /\ s = session'
    OBVIOUS
  <2>3. ResumedTold(y, ring, s)
    BY <1>5, <2>1, <2>2, NoSnapshot
  <2> QED BY <2>2, <2>3
<1>16. LogTold(log', session') /\ IsRowState(row') /\ IsShown(View') /\ row'.sealed = 0
  BY DEF TellInv, View, SealedInv
<1> QED BY <1>5, <1>13, <1>14, <1>15, <1>16 DEF TellInv, FreshInv, PumpTold, SealedInv

\* What the pump took has been shown; the stream goes on, or is over.
LEMMA PumpsOn ==
  ASSUME StreamInv, StreamInv', TellInv, UNCHANGED <<log, session>>,
         NEW n, row' = [row EXCEPT !.sealed = n], n \in Nat,
         NEW after, IsShown(after), SealedTold(after, log, row'),
         NEW x,
         IF after.trans.completed THEN Ends(after)
         ELSE /\ Show(after) /\ stream'.at = "pump" /\ socket'.wire = x /\ n = 0
              /\ \E p \in row.from..Len(log) :
                   Covers(x, log, p) /\ TellsOn(after, log, session, row, p)
  PROVE  TellInv'
<1>1. /\ IsRowState(row) /\ IsRowState(row') /\ row'.from = row.from /\ row'.since = row.since
      /\ row'.seeded = row.seeded /\ row'.inPlace = row.inPlace /\ row'.sealed = n
  BY DEF TellInv, IsRowState
<1>2. CASE after.trans.completed
  BY <1>1, <1>2, ClosesRow
<1>3. CASE ~after.trans.completed
  <2>1. /\ Show(after) /\ stream'.at = "pump" /\ socket'.wire = x /\ n = 0
        /\ \E p \in row.from..Len(log) :
             Covers(x, log, p) /\ TellsOn(after, log, session, row, p)
    BY <1>3
  <2>2. PICK p \in row.from..Len(log) :
          Covers(x, log, p) /\ TellsOn(after, log, session, row, p)
    BY <2>1
  <2>3. PICK v : v = View'
    OBVIOUS
  <2>4. v.trans = after.trans /\ v.chat = after.chat /\ IsShown(v)
    BY <2>1, <2>3 DEF Show, View, IsShown
  <2>5. Clean(log, row') = Clean(log, row)
    <3>1. PICK r, q : r = row /\ q = row'
      OBVIOUS
    <3>2. Clean(log, q) = Clean(log, r)
      BY <1>1, <3>1, CleanSame
    <3> QED BY <3>1, <3>2
  <2>6. SameTold(after, v)
    BY <2>4 DEF SameTold
  <2>7. TellsOn(v, log, session, row', p)
    <3>1. \A t : Tells(after, log, t, p) => Tells(v, log, t, p)
      BY <2>6, SameTells
    <3> QED BY <2>2, <2>5, <3>1 DEF TellsOn
  <2>8. PumpTold'
    BY <1>1, <2>1, <2>2, <2>3, <2>7 DEF PumpTold
  <2>9. ResumedTold(socket'.wire, log', session')
    <3>1. InOrder(socket'.wire, stream'.at, socket'.request.method, session'.epoch)
      BY DEF StreamInv, WireInv
    <3>2. PICK y, at, method, epoch, ring, s : y = socket'.wire /\ at = stream'.at
            /\ method = socket'.request.method /\ epoch = session'.epoch
            /\ ring = log' /\ s = session'
      OBVIOUS
    <3>3. ResumedTold(y, ring, s)
      BY <2>1, <3>1, <3>2, NoSnapshot
    <3> QED BY <3>2, <3>3
  <2>10. LogTold(log', session') /\ row'.sealed = 0
    BY <1>1, <2>1 DEF TellInv
  <2> QED BY <1>1, <2>1, <2>3, <2>4, <2>8, <2>9, <2>10
          DEF TellInv, FreshInv, AskedInv, ReplayTold, SealedInv
<1> QED BY <1>2, <1>3

\* The row is sealed, or not, and stays the same otherwise.
SealsRow(q, r, n) ==
  /\ q.sealed = n /\ q.from = r.from /\ q.since = r.since /\ q.seeded = r.seeded
  /\ q.inPlace = r.inPlace

\* The row joined the stream of frames no later than after the p-th.
JoinedBy(r, p) == r.from <= p

\* The row tells the turn up to the last of the frames after the p-th.
TellsThrough(v, ring, s, r, p, frames) == TellsOn(v, ring, s, r, p + Len(frames))

\* What a row tells when frames that follow each other have been translated.
LEMMA TookFrames ==
  ASSUME NEW ring, NEW s, IsLog(ring), LogTold(ring, s), NEW r, IsRowState(r),
         NEW q,
         NEW p, JoinedBy(r, p), NEW frames, NextFrames(frames, ring, p),
         NEW v, IsShown(v), v.trans.completed = FALSE, TellsOn(v, ring, s, r, p),
         NEW after, after = FoldLeft(Translate, v, frames), SealsRow(q, r, SealedBy(frames))
  PROVE  /\ SealedBy(frames) \in Nat /\ IsShown(after) /\ after.trans.completed \in BOOLEAN
         /\ SealedTold(after, ring, q)
         /\ ~after.trans.completed =>
              SealedBy(frames) = 0 /\ TellsThrough(after, ring, s, r, p, frames)
<1>1. PICK clean : clean = Clean(ring, r)
  OBVIOUS
<1>2. TellsNext(v, ring, s, clean, p)
  BY <1>1 DEF TellsOn, TellsNext
<1>12. Took(after, ring, s, clean, frames, p)
  BY <1>2, QueueTold
<1>3. /\ IsShown(after) /\ after.trans.completed \in BOOLEAN
      /\ ~after.trans.completed =>
           LET n == p + Len(frames)
           IN  /\ SealedBy(frames) = 0
               /\ After(ring, s, n) \in clean => Tells(after, ring, After(ring, s, n), n)
      /\ SealedBy(frames) # 0 =>
           /\ SealedBy(frames) \in (p + 1)..Len(ring)
           /\ ring[SealedBy(frames)].turn \in clean =>
                Said(after.chat.parts) =
                  PiecesIn(ring, ring[SealedBy(frames)].turn, 0, SealedBy(frames))
  BY <1>12 DEF Took, TellsNext
<1>4. PICK n : n = SealedBy(frames)
  OBVIOUS
<1>5. r.from \in Nat /\ Len(ring) \in Nat /\ p \in Nat
  BY SeqShape DEF IsRowState, IsLog, NextFrames
<1>6. n \in Nat /\ (n # 0 => r.from <= n /\ n \in 1..Len(ring))
  BY <1>3, <1>4, <1>5 DEF JoinedBy
<1>8. /\ q.sealed = n /\ q.from = r.from /\ q.since = r.since /\ q.seeded = r.seeded
      /\ q.inPlace = r.inPlace
  BY <1>4 DEF SealsRow
<1>9. Clean(ring, q) = clean
  BY <1>1, <1>8, CleanSame
<1>10. SealedTold(after, ring, q)
  BY <1>3, <1>4, <1>6, <1>8, <1>9 DEF SealedTold
<1> QED BY <1>1, <1>3, <1>4, <1>6, <1>10 DEF TellsThrough, TellsOn

LEMMA PumpedRow ==
  ASSUME StreamInv, StreamInv', TellInv, socket.wire # <<>>, NEW m, m = socket.wire[1],
         m.kind = "frame", stream.at = "pump", Pump(View, <<m>>),
         UNCHANGED <<log, session>>
  PROVE  TellInv'
<1>1. PICK w : w = socket.wire
  OBVIOUS
<1>2. PICK x : x = Tail(w)
  OBVIOUS
<1>3. Follows(x, w) /\ Live(w, 1) /\ w[1] = m
  BY <1>1, <1>2, Rest DEF Live
<1>4. IsLog(log) /\ LiveIn(w, log, Mark, applied) /\ LogTold(log, session) /\ IsRowState(row)
  BY <1>1 DEF StreamInv, LiveInv, TellInv
<1>5. PICK p \in row.from..Len(log) : Covers(w, log, p) /\ TellsOn(View, log, session, row, p)
  BY <1>1 DEF TellInv, PumpTold
<1>6. p \in Nat /\ row.from <= p /\ row.from \in Nat /\ Len(log) \in Nat
  BY <1>4, <1>5, SeqShape DEF IsRowState, IsLog
<1>7. w[1] = log[p + 1] /\ p + 1 <= Len(log) /\ Covers(x, log, p + 1)
  <2>1. PICK mark, done : mark = Mark /\ done = applied
    OBVIOUS
  <2> QED BY <1>3, <1>4, <1>5, <1>6, <2>1, CoversNext
<1>8. PICK frames : frames = <<m>>
  OBVIOUS
<1>9. IsSeq(frames) /\ Len(frames) = 1 /\ DOMAIN frames = {1} /\ frames[1] = m
  <2>1. frames \in Seq({m}) /\ Len(frames) = 1 /\ frames[1] = m
    BY <1>8
  <2> QED BY <2>1, SeqIs
<1>10. IsShown(View) /\ View.trans.completed = FALSE
  BY DEF TellInv, StreamInv, LinkInv, ViewInv, IsTranslator, View
<1>11. PICK v : v = View
  OBVIOUS
<1>12. PICK after : after = FoldLeft(Translate, v, frames)
  OBVIOUS
<1>13. PICK n : n = SealedBy(frames)
  OBVIOUS
<1>14. /\ n \in Nat /\ IsShown(after) /\ after.trans.completed \in BOOLEAN
       /\ SealedTold(after, log, [row EXCEPT !.sealed = n])
       /\ ~after.trans.completed => n = 0 /\ TellsOn(after, log, session, row, p + 1)
  <2>1. PICK ring, s, r : ring = log /\ s = session /\ r = row
    OBVIOUS
  <2>2. NextFrames(frames, ring, p)
    BY <1>3, <1>6, <1>7, <1>9, <2>1 DEF NextFrames
  <2>4. /\ IsLog(ring) /\ LogTold(ring, s) /\ IsRowState(r) /\ JoinedBy(r, p)
        /\ IsShown(v) /\ v.trans.completed = FALSE /\ TellsOn(v, ring, s, r, p)
    BY <1>4, <1>5, <1>6, <1>10, <1>11, <2>1 DEF JoinedBy
  <2>5. PICK q : q = [row EXCEPT !.sealed = n]
    OBVIOUS
  <2>6. SealsRow(q, r, SealedBy(frames))
    BY <1>4, <1>13, <2>1, <2>5 DEF SealsRow, IsRowState
  <2>3. /\ SealedBy(frames) \in Nat /\ IsShown(after) /\ after.trans.completed \in BOOLEAN
        /\ SealedTold(after, ring, q)
        /\ ~after.trans.completed =>
             SealedBy(frames) = 0 /\ TellsThrough(after, ring, s, r, p, frames)
    BY <1>12, <2>2, <2>4, <2>6, TookFrames
  <2> QED BY <1>9, <1>13, <2>1, <2>3, <2>5 DEF TellsThrough
<1>15. /\ row' = [row EXCEPT !.sealed = n]
       /\ IF after.trans.completed THEN Ends(after)
          ELSE /\ stream' = [stream EXCEPT !.at = "pump", !.attempts = 0, !.buffer = <<>>,
                                           !.prompt = 0]
               /\ socket' = [socket EXCEPT !.wire = Tail(@)]
               /\ Show(after)
  BY <1>8, <1>11, <1>12, <1>13 DEF Pump
<1>16. ~after.trans.completed =>
         /\ Show(after) /\ stream'.at = "pump" /\ socket'.wire = x /\ n = 0
         /\ \E k \in row.from..Len(log) :
              Covers(x, log, k) /\ TellsOn(after, log, session, row, k)
  <2> SUFFICES ASSUME ~after.trans.completed
               PROVE  /\ Show(after) /\ stream'.at = "pump" /\ socket'.wire = x /\ n = 0
                      /\ \E k \in row.from..Len(log) :
                           Covers(x, log, k) /\ TellsOn(after, log, session, row, k)
    OBVIOUS
  <2>1. Show(after) /\ stream'.at = "pump" /\ socket'.wire = x
    BY <1>1, <1>2, <1>15 DEF StreamInv, PlaceInv, SocketInv
  <2>2. p + 1 \in row.from..Len(log)
    BY <1>6, <1>7
  <2> QED BY <1>7, <1>14, <2>1, <2>2
<1>17. row' = [row EXCEPT !.sealed = n] /\ SealedTold(after, log, row')
  BY <1>14, <1>15
<1> QED BY <1>14, <1>15, <1>16, <1>17, PumpsOn

LEMMA FrameRow ==
  ASSUME StreamInv, StreamInv', TellInv, socket.wire # <<>>, socket.wire[1].kind = "frame",
         HandleFrame(socket.wire[1]), UNCHANGED <<log, session, drops>>
  PROVE  TellInv'
<1>1. PICK m : m = socket.wire[1]
  OBVIOUS
<1>2. stream.at \in {"replay", "pump"}
  BY <1>1, FrameArrives
<1>3. IF stream.at = "pump" THEN Pump(View, <<m>>)
      ELSE /\ stream' = [stream EXCEPT !.buffer = Append(@, m)]
           /\ socket' = [socket EXCEPT !.wire = Tail(@)]
           /\ UNCHANGED <<trans, chat, row, applied>>
  BY <1>1 DEF HandleFrame
<1>4. CASE stream.at = "pump"
  BY <1>1, <1>3, <1>4, PumpedRow
<1>5. CASE stream.at = "replay"
  BY <1>1, <1>3, <1>5, QueuedRow
<1> QED BY <1>2, <1>4, <1>5

----------------------------------------------------------------------------
(* The session is resumed.                                                 *)

LEMMA NothingSaid ==
  ASSUME NEW parts, parts = <<>>
  PROVE  IsRow(parts) /\ Said(parts) = <<>> /\ RestIsOpen(parts, <<>>)
<1>1. IsSeq(parts) /\ DOMAIN parts = {} /\ Len(parts) = 0
  BY NoSeq
<1>2. IsRow(parts)
  BY <1>1 DEF IsRow
<1>3. Said(parts) = <<>>
  <2>1. PICK said : said[0] = <<>> /\ Said(parts) = said[Len(parts)]
    BY <1>2, SaidSteps
  <2> QED BY <1>1, <2>1
<1> QED BY <1>1, <1>2, <1>3 DEF RestIsOpen

LEMMA StartTold ==
  ASSUME NEW v, IsShown(v), NEW message, NEW r, r = Start(v, message)
  PROVE  /\ IsShown(r) /\ r.chat.parts = v.chat.parts /\ r.trans.content = <<>>
         /\ r.trans.lastInterim = <<>> /\ r.trans.completed = FALSE
  BY DEF Start, IsShown, NewTranslator

\* A row that starts empty tells the turn whose text so far it is seeded with.
LEMMA SeedTells ==
  ASSUME NEW v, IsShown(v), v.chat.parts = <<>>, NEW message, NEW ring, NEW t,
         NEW at \in Nat, LastIn(ring, "interim", t, at + 1) = 0,
         RestIn(ring, t, at + 1) = PiecesIn(ring, t, 0, at),
         NEW r, r = IF PiecesIn(ring, t, 0, at) = <<>> THEN Start(v, message)
                    ELSE Delta(Start(v, message), PiecesIn(ring, t, 0, at))
  PROVE  Tells(r, ring, t, at)
<1>1. PICK text : text = PiecesIn(ring, t, 0, at)
  OBVIOUS
<1>2. text \in Texts
  <2>1. PICK from \in Nat : from = 0
    OBVIOUS
  <2>2. from <= at
    BY <2>1
  <2>3. PiecesIn(ring, t, from, at) \in Texts
    BY <2>2, PiecesStep
  <2> QED BY <1>1, <2>1, <2>3
<1>3. PICK u : u = Start(v, message)
  OBVIOUS
<1>4. /\ IsShown(u) /\ u.chat.parts = <<>> /\ u.trans.content = <<>>
      /\ u.trans.lastInterim = <<>> /\ u.trans.completed = FALSE
  BY <1>3, StartTold
<1>5. PICK parts : parts = u.chat.parts
  OBVIOUS
<1>6. IsRow(parts) /\ Said(parts) = <<>> /\ RestIsOpen(parts, <<>>)
  BY <1>4, <1>5, NothingSaid
<1>7. CASE text = <<>>
  <2>1. r = u
    BY <1>1, <1>3, <1>7
  <2> QED BY <1>1, <1>4, <1>5, <1>6, <1>7, <2>1 DEF Tells
<1>8. CASE text # <<>>
  <2>1. r = Delta(u, text)
    BY <1>1, <1>3, <1>8
  <2>2. /\ IsShown(r) /\ r.chat.parts = Appended(parts, text)
        /\ r.trans.content = u.trans.content \o text /\ r.trans.lastInterim = <<>>
    <3>1. /\ IsShown(Delta(u, text)) /\ Delta(u, text).chat.parts = Appended(u.chat.parts, text)
          /\ Delta(u, text).trans.content = u.trans.content \o text
          /\ Delta(u, text).trans.lastInterim = u.trans.lastInterim
      BY <1>4, DeltaTold
    <3> QED BY <1>4, <1>5, <2>1, <3>1
  <2>3. PICK none : none = <<>>
    OBVIOUS
  <2>4. none \in Texts /\ none \o text = text
    BY <1>2, <2>3, ConcatTexts
  <2>5. /\ IsRow(Appended(parts, text)) /\ Said(Appended(parts, text)) = Said(parts) \o text
        /\ RestIsOpen(Appended(parts, text), none \o text)
    BY <1>2, <1>6, <1>8, <2>3, <2>4, AppendedTells
  <2>6. r.trans.content = text
    BY <1>4, <2>2, <2>3, <2>4
  <2>7. Said(r.chat.parts) = text /\ RestIsOpen(r.chat.parts, text) /\ IsRow(r.chat.parts)
    BY <1>6, <2>2, <2>3, <2>4, <2>5
  <2> QED BY <1>1, <1>8, <2>2, <2>6, <2>7 DEF Tells
<1> QED BY <1>7, <1>8

LEMMA JoinsRow ==
  ASSUME StreamInv, StreamInv', TellInv, UNCHANGED <<log, session>>,
         socket.wire # <<>>, socket.wire[1].kind = "resumed",
         socket'.wire = Tail(socket.wire),
         IsRowState(row'), row'.sealed = 0, row'.from = socket.wire[1].at,
         stream'.at \in {"replay", "pump"}, stream'.buffer = <<>>, IsShown(View'),
         TellsOn(View', log, session, row', row'.from),
         stream'.at = "replay" => AskedInv'
  PROVE  TellInv'
<1>1. PICK w : w = socket.wire
  OBVIOUS
<1>2. PICK x : x = Tail(w)
  OBVIOUS
<1>3. Follows(x, w) /\ ~Live(w, 1) /\ 1 \in DOMAIN w
  <2>1. Follows(x, w)
    BY <1>1, <1>2, Rest
  <2> QED BY <1>1, <2>1 DEF Live, Follows
<1>4. PICK p : p = row'.from
  OBVIOUS
<1>5. p \in 0..Len(log) /\ Covers(w, log, p)
  <2>1. ResumedTold(w, log, session) /\ w[1].kind = "resumed" /\ w[1].at = p
    BY <1>1, <1>4 DEF TellInv
  <2> QED BY <1>3, <2>1 DEF ResumedTold
<1>6. Covers(x, log, p)
  BY <1>3, <1>5, CoversShift
<1>7. Len(log) \in Nat
  BY SeqShape DEF StreamInv, IsLog
<1>8. ReplayTold'
  <2> SUFFICES ASSUME stream'.at = "replay"
               PROVE  LET n == p + Len(stream'.buffer)
                      IN  /\ n <= Len(log')
                          /\ \A b \in DOMAIN stream'.buffer : stream'.buffer[b].seq = p + b
                          /\ Covers(socket'.wire, log', n)
                          /\ TellsOn(View', log', session', row', p)
    BY <1>4 DEF ReplayTold
  <2>1. Len(stream'.buffer) = 0 /\ DOMAIN stream'.buffer = {}
    OBVIOUS
  <2>2. p + Len(stream'.buffer) = p /\ p <= Len(log)
    BY <1>5, <1>7, <2>1
  <2>3. Covers(socket'.wire, log', p) /\ TellsOn(View', log', session', row', p)
    BY <1>1, <1>2, <1>4, <1>6
  <2> QED BY <2>1, <2>2, <2>3
<1>9. PumpTold'
  <2>1. p \in p..Len(log)
    BY <1>5, <1>7
  <2>2. Covers(socket'.wire, log', p) /\ TellsOn(View', log', session', row', p)
    BY <1>1, <1>2, <1>4, <1>6
  <2> QED BY <1>4, <2>1, <2>2 DEF PumpTold
<1>10. ResumedTold(socket'.wire, log', session')
  <2>1. InOrder(socket'.wire, stream'.at, socket'.request.method, session'.epoch)
    BY DEF StreamInv, WireInv
  <2>2. PICK y, at, method, epoch, ring, s : y = socket'.wire /\ at = stream'.at
          /\ method = socket'.request.method /\ epoch = session'.epoch
          /\ ring = log' /\ s = session'
    OBVIOUS
  <2>3. ResumedTold(y, ring, s)
    BY <2>1, <2>2, NoSnapshot
  <2> QED BY <2>2, <2>3
<1>11. LogTold(log', session')
  BY DEF TellInv
<1>12. FreshInv' /\ SealedInv' /\ AskedInv'
  BY DEF FreshInv, SealedInv, AskedInv
<1> QED BY <1>8, <1>9, <1>10, <1>11, <1>12 DEF TellInv

\* What the head tells, a snapshot.
LEMMA SnapshotHead ==
  ASSUME StreamInv, TellInv, socket.wire # <<>>, socket.wire[1].kind = "resumed"
  PROVE  LET m == socket.wire[1]
         IN  /\ m.at \in Nat /\ m.at <= Len(log)
             /\ m.running => m.text = PiecesIn(log, After(log, session, m.at), 0, m.at)
             /\ stream.at = "resume" /\ row.sealed = 0 /\ IsRowState(row)
             /\ stream.buffer = <<>> /\ (row.inPlace \/ chat.parts = <<>>)
             /\ stream.mode = "turn" => row.seeded = FALSE
             /\ IsShown(View)
             /\ \A i \in DOMAIN Tail(socket.wire) : Tail(socket.wire)[i].kind # "missed"
<1>1. PICK w : w = socket.wire
  OBVIOUS
<1>2. PICK x : x = Tail(w)
  OBVIOUS
<1>3. Follows(x, w) /\ 1 \in DOMAIN w
  <2>1. Follows(x, w)
    BY <1>1, <1>2, Rest
  <2> QED BY <2>1 DEF Follows
<1>4. ResumedTold(w, log, session) /\ w[1].kind = "resumed"
  BY <1>1 DEF TellInv
<1>5. /\ w[1].at \in 0..Len(log)
      /\ w[1].running => w[1].text = PiecesIn(log, After(log, session, w[1].at), 0, w[1].at)
  BY <1>3, <1>4 DEF ResumedTold
<1>6. /\ stream.at = "resume" /\ stream.buffer = <<>>
      /\ \A i \in DOMAIN w : i > 1 => w[i].kind \notin {"ready", "resumed", "missed"}
  BY <1>1, <1>4, ResumedHead
<1>7. \A i \in DOMAIN x : x[i].kind # "missed"
  BY <1>3, <1>6 DEF Follows
<1>8. Len(log) \in Nat
  BY SeqShape DEF StreamInv, IsLog
<1>9. w[1].at \in Nat /\ w[1].at <= Len(log)
  BY <1>5, <1>8
<1>10. /\ row.sealed = 0 /\ IsRowState(row) /\ (row.inPlace \/ chat.parts = <<>>)
       /\ stream.mode = "turn" => row.seeded = FALSE
       /\ IsShown(View)
  BY <1>6 DEF TellInv, FreshInv, SealedInv
<1> QED BY <1>1, <1>2, <1>5, <1>6, <1>7, <1>9, <1>10

LEMMA SubmitsRow ==
  ASSUME StreamInv, StreamInv', TellInv, socket.wire # <<>>, NEW m, m = socket.wire[1],
         m.kind = "resumed", stream.mode = "turn", HandleResumedForTurn(m),
         UNCHANGED <<log, session>>
  PROVE  TellInv'
<1>1. /\ m.at \in Nat /\ stream.at = "resume" /\ row.sealed = 0 /\ IsRowState(row)
      /\ stream.buffer = <<>> /\ (row.inPlace \/ chat.parts = <<>>) /\ row.seeded = FALSE
      /\ IsShown(View)
  BY SnapshotHead
<1>2. /\ Show(Started) /\ stream'.at = "pump" /\ stream'.buffer = <<>>
      /\ row' = [row EXCEPT !.from = m.at] /\ socket'.wire = Tail(socket.wire)
  BY <1>1 DEF HandleResumedForTurn, Call, StreamInv, PlaceInv, SocketInv
<1>3. /\ IsRowState(row') /\ row'.from = m.at /\ row'.seeded = FALSE /\ row'.sealed = 0
      /\ row'.inPlace = row.inPlace
  BY <1>1, <1>2 DEF IsRowState
<1>4. PICK u : u = Started
  OBVIOUS
<1>5. /\ IsShown(u) /\ u.chat.parts = chat.parts /\ u.trans.content = <<>>
      /\ u.trans.lastInterim = <<>> /\ u.trans.completed = FALSE
  <2>1. PICK v, message : v = View /\ message = trans.message + 1
    OBVIOUS
  <2>2. u = Start(v, message) /\ v.chat = chat
    BY <1>4, <2>1 DEF Started, View
  <2>3. IsShown(v)
    BY <1>1, <2>1
  <2>4. /\ IsShown(u) /\ u.chat.parts = v.chat.parts /\ u.trans.content = <<>>
        /\ u.trans.lastInterim = <<>> /\ u.trans.completed = FALSE
    BY <2>2, <2>3, StartTold
  <2> QED BY <2>2, <2>4
<1>6. PICK v : v = View'
  OBVIOUS
<1>7. v.trans = u.trans /\ v.chat = u.chat /\ IsShown(v) /\ SameTold(u, v)
  <2>1. v.trans = u.trans /\ v.chat = u.chat /\ DOMAIN v = {"trans", "chat"}
    BY <1>2, <1>4, <1>6 DEF Show, View
  <2> QED BY <1>5, <2>1 DEF IsShown, SameTold
<1>8. TellsOn(v, log, session, row', m.at)
  <2> DEFINE t == After(log, session, m.at)
  <2> SUFFICES ASSUME t \in Clean(log, row') PROVE Tells(v, log, t, m.at)
    BY DEF TellsOn
  <2>1. row'.inPlace = FALSE /\ JoinsIn(log, row', t)
    BY <1>3 DEF Clean, IsRowState
  <2> HIDE DEF t
  <2>2. \A i \in 1..m.at : log[i].turn # t
    BY <1>3, <2>1 DEF JoinsIn
  <2>3. PICK ring, n : ring = log /\ n = m.at
    OBVIOUS
  <2>4. /\ LastIn(ring, "interim", t, n + 1) = 0
        /\ PiecesIn(ring, t, 0, n) = <<>> /\ RestIn(ring, t, n + 1) = <<>>
    <3>1. n \in Nat /\ \A i \in 1..n : ring[i].turn # t
      BY <1>1, <2>2, <2>3
    <3> QED BY <3>1, NothingTold
  <2>5. PICK parts : parts = v.chat.parts
    OBVIOUS
  <2>6. parts = <<>>
    BY <1>1, <1>3, <1>5, <1>7, <2>1, <2>5
  <2>7. IsRow(parts) /\ Said(parts) = <<>> /\ RestIsOpen(parts, <<>>)
    BY <2>6, NothingSaid
  <2>8. Tells(v, ring, t, n)
    BY <1>5, <1>7, <2>4, <2>5, <2>7 DEF Tells
  <2> QED BY <2>3, <2>8
<1> QED BY <1>2, <1>3, <1>6, <1>7, <1>8, JoinsRow

\* The row of a running turn is seeded from the snapshot.
SeedOf(m, since, r, v) ==
  /\ m = socket.wire[1] /\ m.kind = "resumed" /\ m.running /\ since \in Nat
  /\ r = SeedRow(m, since) /\ v = Seeded(m)

SeedTold(m, since, r, v) ==
  /\ IsRowState(r) /\ r.sealed = 0 /\ r.from = m.at /\ r.since = since /\ r.seeded = TRUE
  /\ IsShown(v) /\ v.trans.completed = FALSE /\ TellsOn(v, log, session, r, m.at)

LEMMA SeedsRow ==
  ASSUME StreamInv, TellInv, socket.wire # <<>>, NEW m, NEW since, NEW r, NEW v,
         SeedOf(m, since, r, v)
  PROVE  SeedTold(m, since, r, v)
<1>a. /\ m = socket.wire[1] /\ m.kind = "resumed" /\ m.running /\ since \in Nat
      /\ r = SeedRow(m, since) /\ v = Seeded(m)
  BY DEF SeedOf
<1>1. /\ m.at \in Nat /\ row.sealed = 0 /\ IsRowState(row)
      /\ m.text = PiecesIn(log, After(log, session, m.at), 0, m.at)
      /\ (row.inPlace \/ chat.parts = <<>>) /\ IsShown(View)
  BY <1>a, SnapshotHead
<1>2. /\ IsRowState(r) /\ r.sealed = 0 /\ r.from = m.at /\ r.since = since
      /\ r.seeded = TRUE /\ r.inPlace = row.inPlace
  BY <1>a, <1>1 DEF SeedRow, IsRowState
<1>3. PICK v0 : v0 = View
  OBVIOUS
<1>4. PICK message : message = trans.message + 1
  OBVIOUS
<1>5. PICK u : u = Start(v0, message)
  OBVIOUS
<1>6. v = IF m.text = <<>> THEN u ELSE Delta(u, m.text)
  BY <1>a, <1>3, <1>4, <1>5 DEF Seeded, Started
<1>7. IsShown(v0) /\ v0.chat.parts = chat.parts
  BY <1>1, <1>3 DEF View
<1>8. IsShown(u) /\ u.trans.completed = FALSE
  BY <1>5, <1>7, StartTold
<1>9. IsShown(v) /\ v.trans.completed = FALSE
  <2>1. PICK text : text = m.text
    OBVIOUS
  <2>2. IsShown(Delta(u, text)) /\ Delta(u, text).trans.completed = u.trans.completed
    BY <1>8, DeltaTold
  <2> QED BY <1>6, <1>8, <2>1, <2>2
<1>10. TellsOn(v, log, session, r, m.at)
  <2> DEFINE t == After(log, session, m.at)
  <2> SUFFICES ASSUME t \in Clean(log, r) PROVE Tells(v, log, t, m.at)
    BY DEF TellsOn
  <2>1. r.inPlace = FALSE /\ JoinsIn(log, r, t)
    BY <1>2 DEF Clean, IsRowState
  <2>2. m.text = PiecesIn(log, t, 0, m.at)
    BY <1>1
  <2> HIDE DEF t
  <2>3. \A i \in 1..m.at : log[i].type = "interim" => log[i].turn # t
    BY <1>2, <2>1 DEF JoinsIn
  <2>4. PICK ring, n : ring = log /\ n = m.at
    OBVIOUS
  <2>5. n \in Nat /\ \A i \in 1..n : ring[i].type = "interim" => ring[i].turn # t
    BY <1>1, <2>3, <2>4
  <2>6. LastIn(ring, "interim", t, n + 1) = 0 /\ RestIn(ring, t, n + 1) = PiecesIn(ring, t, 0, n)
    BY <2>5, NoInterim
  <2>7. v0.chat.parts = <<>>
    BY <1>1, <1>2, <1>7, <2>1
  <2>8. v = IF PiecesIn(ring, t, 0, n) = <<>> THEN Start(v0, message)
            ELSE Delta(Start(v0, message), PiecesIn(ring, t, 0, n))
    BY <1>5, <1>6, <2>2, <2>4
  <2>9. Tells(v, ring, t, n)
    BY <1>7, <2>5, <2>6, <2>7, <2>8, SeedTells
  <2> QED BY <2>4, <2>9
<1> QED BY <1>2, <1>9, <1>10 DEF SeedTold

LEMMA PendingTold ==
  ASSUME NEW v, IsShown(v), NEW p PROVE SameTold(v, ReplayPendingPrompts(v, p))
<1>1. CASE v.trans.completed \/ p = 0
  BY <1>1 DEF ReplayPendingPrompts, SameTold
<1>2. CASE ~(v.trans.completed \/ p = 0)
  BY <1>2, PromptTold DEF ReplayPendingPrompts
<1> QED BY <1>1, <1>2

LEMMA ResumedRow ==
  ASSUME StreamInv, StreamInv', TellInv, socket.wire # <<>>, socket.wire[1].kind = "resumed",
         HandleResumed(socket.wire[1]), UNCHANGED <<log, session, drops>>
  PROVE  TellInv'
<1>1. PICK m : m = socket.wire[1]
  OBVIOUS
<1>2. /\ m.at \in Nat /\ row.sealed = 0 /\ IsRowState(row) /\ IsShown(View)
      /\ stream.at = "resume" /\ stream.buffer = <<>>
      /\ \A i \in DOMAIN Tail(socket.wire) : Tail(socket.wire)[i].kind # "missed"
  BY <1>1, SnapshotHead
<1>3. IF stream.mode = "turn" THEN HandleResumedForTurn(m)
      ELSE RebuildFailedTurn(m) \/ NothingRuns(m) \/ AskForMissed(m) \/ NothingMissed(m)
  BY <1>1 DEF HandleResumed
<1>4. CASE stream.mode = "turn"
  BY <1>1, <1>3, <1>4, SubmitsRow
<1>5. CASE RebuildFailedTurn(m) \/ NothingRuns(m)
  <2>1. PICK v : IsShown(v) /\ Ends(v)
    <3>1. CASE NothingRuns(m)
      BY <1>2, <3>1 DEF NothingRuns
    <3>2. CASE RebuildFailedTurn(m)
      <4>1. PICK u, t : u = Started /\ t = m.text
        OBVIOUS
      <4>2. PICK v0, message : v0 = View /\ message = trans.message + 1
        OBVIOUS
      <4>3. u = Start(v0, message) /\ IsShown(v0)
        BY <1>2, <4>1, <4>2 DEF Started
      <4>4. IsShown(u)
        BY <4>3, StartTold
      <4>5. IsShown(FinishWithTurnError(u, t))
        BY <4>4, FailedTold
      <4> QED BY <3>2, <4>1, <4>5 DEF RebuildFailedTurn
    <3> QED BY <1>5, <3>1, <3>2
  <2>2. row' = row
    BY <1>5 DEF RebuildFailedTurn, NothingRuns
  <2>3. IsRowState(row') /\ SealedTold(v, log, row')
    BY <1>2, <2>2 DEF SealedTold
  <2> QED BY <2>1, <2>3, ClosesRow
<1>6. CASE AskForMissed(m)
  <2>1. /\ m.running /\ Show(Seeded(m)) /\ row' = SeedRow(m, replay.mark)
        /\ stream'.at = "replay" /\ stream'.buffer = <<>>
        /\ socket'.wire = Tail(socket.wire) /\ socket'.request.from = replay.mark
    BY <1>2, <1>6 DEF AskForMissed, Call, StreamInv, PlaceInv, SocketInv
  <2>3. PICK since \in Nat : since = replay.mark
    BY DEF StreamInv, MarkInv
  <2>2. PICK v, r : v = Seeded(m) /\ r = row'
    OBVIOUS
  <2>4. /\ IsRowState(r) /\ r.sealed = 0 /\ r.from = m.at /\ r.since = since /\ r.seeded = TRUE
        /\ IsShown(v) /\ TellsOn(v, log, session, r, m.at)
    <3>1. m.kind = "resumed" /\ m.running /\ r = SeedRow(m, since) /\ v = Seeded(m)
      BY <1>1, <2>1, <2>2, <2>3
    <3>2. SeedOf(m, since, r, v)
      BY <1>1, <2>3, <3>1 DEF SeedOf
    <3>3. SeedTold(m, since, r, v)
      BY <3>2, SeedsRow
    <3> QED BY <3>3 DEF SeedTold
  <2>5. PICK u : u = View'
    OBVIOUS
  <2>6. SameTold(v, u)
    <3>1. u.trans = v.trans /\ u.chat = v.chat /\ DOMAIN u = {"trans", "chat"}
      BY <2>1, <2>2, <2>5 DEF Show, View
    <3> QED BY <2>4, <3>1 DEF SameTold, IsShown
  <2>7. IsShown(u) /\ TellsOn(u, log, session, r, m.at)
    <3>1. \A t : Tells(v, log, t, m.at) => Tells(u, log, t, m.at)
      BY <2>6, SameTells
    <3> QED BY <2>4, <2>6, <3>1 DEF TellsOn, SameTold
  <2>8. AskedInv'
    <3>1. MissedAfter(socket'.wire, r.since)
      BY <1>2, <2>1 DEF MissedAfter
    <3> QED BY <2>1, <2>2, <2>3, <2>4, <3>1 DEF AskedInv
  <2> QED BY <1>1, <2>1, <2>2, <2>4, <2>5, <2>7, <2>8, JoinsRow
<1>7. CASE NothingMissed(m)
  <2>1. /\ m.running /\ Show(ReplayPendingPrompts(Seeded(m), m.prompt)) /\ row' = SeedRow(m, m.at)
        /\ stream'.at = "pump" /\ stream'.buffer = <<>>
        /\ socket'.wire = Tail(socket.wire)
    BY <1>2, <1>7 DEF NothingMissed, StreamInv, PlaceInv, SocketInv
  <2>2. PICK v, r : v = Seeded(m) /\ r = row'
    OBVIOUS
  <2>3. PICK since \in Nat : since = m.at
    BY <1>2
  <2>4. /\ IsRowState(r) /\ r.sealed = 0 /\ r.from = m.at
        /\ IsShown(v) /\ TellsOn(v, log, session, r, m.at)
    <3>1. m.kind = "resumed" /\ m.running /\ r = SeedRow(m, since) /\ v = Seeded(m)
      BY <1>1, <2>1, <2>2, <2>3
    <3>2. SeedOf(m, since, r, v)
      BY <1>1, <2>3, <3>1 DEF SeedOf
    <3>3. SeedTold(m, since, r, v)
      BY <3>2, SeedsRow
    <3> QED BY <3>3 DEF SeedTold
  <2>5. PICK u : u = View'
    OBVIOUS
  <2>6. SameTold(v, u)
    <3>1. PICK z, prompt : z = ReplayPendingPrompts(v, prompt) /\ prompt = m.prompt
      OBVIOUS
    <3>2. u.trans = z.trans /\ u.chat = z.chat /\ DOMAIN u = {"trans", "chat"}
      BY <2>1, <2>2, <2>5, <3>1 DEF Show, View
    <3>3. SameTold(v, z)
      BY <2>4, <3>1, PendingTold
    <3> QED BY <3>2, <3>3 DEF SameTold, IsShown
  <2>7. IsShown(u) /\ TellsOn(u, log, session, r, m.at)
    <3>1. \A t : Tells(v, log, t, m.at) => Tells(u, log, t, m.at)
      BY <2>6, SameTells
    <3> QED BY <2>4, <2>6, <3>1 DEF TellsOn, SameTold
  <2> QED BY <1>1, <2>1, <2>2, <2>4, <2>5, <2>7, JoinsRow
<1> QED BY <1>3, <1>4, <1>5, <1>6, <1>7

----------------------------------------------------------------------------
(* The records missed, and the queue.                                      *)

\* Records end no turn; plans leave the text as it is.
LEMMA RecordsTold ==
  ASSUME NEW v, IsShown(v), v.trans.completed = FALSE, NEW frames, IsSeq(frames),
         \A a \in DOMAIN frames : frames[a].type \in Durable,
         NEW r, r = FoldLeft(Translate, v, frames)
  PROVE  /\ IsShown(r) /\ r.trans.completed = FALSE
         /\ (\A a \in DOMAIN frames : frames[a].type = "todo") => SameTold(v, r)
<1>0. PICK after : Translated(v, frames, after)
  BY TranslatedSteps
<1>1. PICK n : n = Len(frames)
  OBVIOUS
<1>2. n \in Nat /\ DOMAIN frames = 1..n
  BY <1>1, SeqShape
<1>3. /\ after[0] = v /\ r = after[n]
      /\ \A m \in 1..n : after[m] = Translate(after[m - 1], frames[m])
  BY <1>0, <1>1 DEF Translated
<1> DEFINE plans == \A a \in DOMAIN frames : frames[a].type = "todo"
           Told(m) == /\ IsShown(after[m]) /\ after[m].trans.completed = FALSE
                      /\ plans => SameTold(v, after[m])
           S == {m \in Nat : m <= n => Told(m)}
<1>4. 0 \in S
  BY <1>3 DEF SameTold
<1> HIDE DEF Told
<1>5. ASSUME NEW m \in S PROVE m + 1 \in S
  <2> SUFFICES ASSUME m + 1 <= n PROVE Told(m + 1)
    OBVIOUS
  <2>0. m + 1 \in 1..n /\ (m + 1) - 1 = m /\ Told(m) /\ m \in Nat
    BY <1>2
  <2>1. /\ m + 1 \in 1..n /\ (m + 1) - 1 = m
        /\ IsShown(after[m]) /\ after[m].trans.completed = FALSE
        /\ plans => SameTold(v, after[m])
    BY <2>0 DEF Told
  <2>2. PICK x, y, f : x = after[m] /\ y = after[m + 1] /\ f = frames[m + 1]
    OBVIOUS
  <2>3. y = Translate(x, f) /\ IsShown(x) /\ x.trans.completed = FALSE /\ f.type \in Durable
    BY <1>2, <1>3, <2>1, <2>2
  <2>4. f.type \in FrameTypes /\ f.type \notin Terminal
    BY <2>3 DEF FrameTypes, Durable, ToolFrames, Terminal
  <2>5. IsShown(y) /\ y.trans.completed = FALSE
    BY <2>3, <2>4, TranslateShown
  <2>6. ASSUME plans PROVE SameTold(v, y)
    <3>1. f.type = "todo" /\ SameTold(v, x)
      BY <1>2, <2>1, <2>2, <2>6
    <3>2. PICK ref : ref = f.ref
      OBVIOUS
    <3>3. y = TodoSnapshot(x, ref)
      BY <2>3, <3>1, <3>2 DEF Translate
    <3>4. SameTold(x, y)
      BY <2>3, <3>3, TodoTold
    <3> QED BY <3>1, <3>4 DEF SameTold
  <2> HIDE DEF plans
  <2> QED BY <2>2, <2>5, <2>6 DEF Told
<1>6. Told(n)
  <2>1. S \in SUBSET Nat
    OBVIOUS
  <2>2. S = Nat
    <3> HIDE DEF S
    <3> QED BY <1>4, <1>5, <2>1, Induction
  <2>3. n \in S /\ n <= n
    BY <1>2, <2>2
  <2> QED BY <2>3
<1> QED BY <1>3, <1>6 DEF Told

\* What the replay shows before the queue.
LEMMA AttachTold ==
  ASSUME StreamInv, TellInv, stream.at = "replay", NEW new, IsSeq(new),
         \A a \in DOMAIN new : new[a].type \in Durable,
         (\E a \in DOMAIN new : new[a].type # "todo") => Clean(log, row) = {},
         NEW v, v = Attached(new)
  PROVE  IsShown(v) /\ v.trans.completed = FALSE /\ TellsOn(v, log, session, row, row.from)
<1>1. PICK u : u = View
  OBVIOUS
<1>2. /\ IsShown(u) /\ u.trans.completed = FALSE /\ TellsOn(u, log, session, row, row.from)
  BY <1>1 DEF TellInv, ReplayTold, StreamInv, LinkInv, ViewInv, IsTranslator, View
<1>3. PICK r : r = FoldLeft(Translate, u, new)
  OBVIOUS
<1>4. /\ IsShown(r) /\ r.trans.completed = FALSE
      /\ (\A a \in DOMAIN new : new[a].type = "todo") => SameTold(u, r)
  BY <1>2, <1>3, RecordsTold
<1>5. PICK prompt : prompt = stream.prompt
  OBVIOUS
<1>6. v = ReplayPendingPrompts(r, prompt)
  BY <1>1, <1>3, <1>5 DEF Attached
<1>7. SameTold(r, v)
  BY <1>4, <1>6, PendingTold
<1>8. IsShown(v) /\ v.trans.completed = FALSE
  BY <1>4, <1>7 DEF SameTold
<1>9. CASE \A a \in DOMAIN new : new[a].type = "todo"
  <2>1. SameTold(u, v)
    BY <1>4, <1>7, <1>9 DEF SameTold
  <2>2. \A t : Tells(u, log, t, row.from) => Tells(v, log, t, row.from)
    BY <2>1, SameTells
  <2> QED BY <1>2, <1>8, <2>2 DEF TellsOn
<1>10. CASE \E a \in DOMAIN new : new[a].type # "todo"
  BY <1>8, <1>10 DEF TellsOn
<1> QED BY <1>9, <1>10

\* What the row tells once the queue is handed out, after a replay.
TakesQueue(v, after, n, q) ==
  /\ IsShown(v) /\ v.trans.completed = FALSE /\ TellsOn(v, log, session, row, row.from)
  /\ after = FoldLeft(Translate, v, stream.buffer)
  /\ n = SealedBy(stream.buffer) /\ SealsRow(q, row, n)

TookQueue(after, n, q) ==
  /\ n \in Nat /\ IsShown(after) /\ after.trans.completed \in BOOLEAN
  /\ SealedTold(after, log, q)
  /\ ~after.trans.completed =>
       n = 0 /\ TellsThrough(after, log, session, row, row.from, stream.buffer)

LEMMA QueueTook ==
  ASSUME StreamInv, TellInv, stream.at = "replay", NEW v, NEW after, NEW n, NEW q,
         TakesQueue(v, after, n, q)
  PROVE  TookQueue(after, n, q)
<1>0. /\ IsShown(v) /\ v.trans.completed = FALSE /\ TellsOn(v, log, session, row, row.from)
      /\ after = FoldLeft(Translate, v, stream.buffer)
      /\ n = SealedBy(stream.buffer) /\ SealsRow(q, row, n)
  BY DEF TakesQueue
<1>1. PICK ring, s, r, p, frames : /\ ring = log /\ s = session /\ r = row
                                   /\ p = row.from /\ frames = stream.buffer
  OBVIOUS
<1>2. /\ IsLog(ring) /\ LogTold(ring, s) /\ IsRowState(r) /\ p \in Nat
      /\ p + Len(frames) <= Len(ring)
      /\ \A b \in DOMAIN frames : frames[b].seq = p + b
  BY <1>1 DEF StreamInv, TellInv, ReplayTold, IsRowState
<1>3. IsSeq(frames) /\ \A b \in DOMAIN frames : Numbered(frames[b], ring)
  BY <1>1 DEF StreamInv, BufferInv, BufferIn
<1>4. NextFrames(frames, ring, p)
  <2>1. \A b \in DOMAIN frames : frames[b] = ring[p + b]
    BY <1>2, <1>3 DEF Numbered
  <2> QED BY <1>2, <1>3, <2>1 DEF NextFrames
<1>5. JoinedBy(r, p)
  BY <1>1, <1>2 DEF JoinedBy
<1>6. SealsRow(q, r, SealedBy(frames))
  BY <1>0, <1>1
<1>7. TellsOn(v, ring, s, r, p) /\ after = FoldLeft(Translate, v, frames)
  BY <1>0, <1>1
<1>8. /\ SealedBy(frames) \in Nat /\ IsShown(after) /\ after.trans.completed \in BOOLEAN
      /\ SealedTold(after, ring, q)
      /\ ~after.trans.completed =>
           SealedBy(frames) = 0 /\ TellsThrough(after, ring, s, r, p, frames)
  <2>1. IsLog(ring) /\ LogTold(ring, s) /\ IsRowState(r)
    BY <1>2
  <2> QED BY <1>0, <1>4, <1>5, <1>6, <1>7, <2>1, TookFrames
<1> QED BY <1>0, <1>1, <1>8 DEF TookQueue

\* The tools among the records missed come from before the row joined.
LEMMA MissedRecords ==
  ASSUME StreamInv, TellInv, NEW w, w = socket.wire, w # <<>>, w[1].kind = "missed",
         NEW new, new = Unseen(w[1].frames)
  PROVE  /\ stream.at = "replay" /\ IsSeq(new)
         /\ \A a \in DOMAIN new : new[a].type \in Durable
         /\ (\E a \in DOMAIN new : new[a].type # "todo") => Clean(log, row) = {}
<1>1. PICK x : x = Tail(w)
  OBVIOUS
<1>2. Follows(x, w) /\ 1 \in DOMAIN w /\ ~Live(w, 1)
  <2>1. Follows(x, w)
    BY <1>1, Rest
  <2> QED BY <2>1 DEF Live, Follows
<1>3. /\ stream.at = "replay" /\ IsSeq(new)
      /\ \A a \in DOMAIN new :
           /\ Numbered(new[a], log) /\ replay.mark < new[a].seq /\ stream.buffer = <<>>
           /\ \A j \in DOMAIN w : j > 1 /\ Live(w, j) => new[a].seq < w[j].seq
  BY MissedHead
<1>4. IsSeq(w[1].frames)
  BY <1>2 DEF StreamInv, MissedInv, MissedIn
<1>5. \A a \in DOMAIN w[1].frames :
        w[1].frames[a].type \in Durable /\ w[1].frames[a].seq > row.since
  BY <1>2, <1>3 DEF TellInv, AskedInv, MissedAfter
<1>6. \A a \in DOMAIN new : new[a].type \in Durable /\ new[a].seq > row.since
  <2>1. PICK frames : frames = w[1].frames
    OBVIOUS
  <2>2. PICK I : new = Picked(frames, I)
    BY <2>1 DEF Unseen
  <2>3. \A a \in DOMAIN new : \E i \in DOMAIN frames : new[a] = frames[i]
    BY <1>4, <2>1, <2>2, PickedFrom
  <2> QED BY <1>5, <2>1, <2>3
<1>7. ASSUME NEW a \in DOMAIN new, new[a].type # "todo" PROVE Clean(log, row) = {}
  <2>1. PICK i : i = new[a].seq
    OBVIOUS
  <2>2. i \in 1..Len(log) /\ new[a] = log[i] /\ stream.buffer = <<>> /\ Len(log) \in Nat
    BY <1>3, <1>7, <2>1, SeqShape DEF Numbered, StreamInv, IsLog
  <2>3. log[i].type \in ToolFrames /\ i > row.since
    BY <1>6, <1>7, <2>1, <2>2 DEF Durable
  <2>4. row.from \in Nat /\ row.since \in Nat /\ row.seeded = TRUE
    BY <1>3 DEF TellInv, IsRowState, AskedInv
  <2>5. Covers(w, log, row.from)
    <3>1. Len(stream.buffer) = 0
      BY <2>2
    <3>2. row.from + Len(stream.buffer) = row.from
      BY <2>4, <3>1
    <3> QED BY <1>3, <3>2 DEF TellInv, ReplayTold
  <2>6. i <= row.from
    <3> SUFFICES ASSUME ~(i <= row.from) PROVE FALSE
      OBVIOUS
    <3>1. i \in (row.from + 1)..Len(log)
      BY <2>2, <2>4
    <3>2. PICK j \in DOMAIN w : Live(w, j) /\ w[j].seq = i
      BY <2>5, <3>1 DEF Covers
    <3>3. j # 1
      BY <1>2, <3>2
    <3>4. j > 1
      BY <1>2, <3>3, SeqShape DEF Follows, IsWire
    <3>5. new[a].seq < w[j].seq
      BY <1>3, <3>2, <3>4
    <3>6. i < i
      BY <2>1, <3>2, <3>5
    <3>7. i \in Nat
      BY <2>2
    <3> QED BY <3>6, <3>7
  <2>7. i \in 1..row.from
    BY <2>2, <2>4, <2>6
  <2>8. \A t : ~JoinsIn(log, row, t)
    BY <2>3, <2>4, <2>7 DEF JoinsIn
  <2> QED BY <2>8 DEF Clean
<1> QED BY <1>3, <1>6, <1>7

LEMMA MissedRow ==
  ASSUME StreamInv, StreamInv', TellInv, socket.wire # <<>>, socket.wire[1].kind = "missed",
         HandleMissed(socket.wire[1]), UNCHANGED <<log, session, drops>>
  PROVE  TellInv'
<1>1. PICK w : w = socket.wire
  OBVIOUS
<1>2. w # <<>> /\ w[1].kind = "missed"
  BY <1>1
<1>3. PICK x : x = Tail(w)
  OBVIOUS
<1>4. Follows(x, w) /\ ~Live(w, 1)
  BY <1>1, <1>2, <1>3, Rest DEF Live
<1>5. PICK new : new = Unseen(w[1].frames)
  OBVIOUS
<1>6. PICK v : v = Attached(new)
  OBVIOUS
<1>7. PICK after : after = FoldLeft(Translate, v, stream.buffer)
  OBVIOUS
<1>8. PICK n : n = SealedBy(stream.buffer)
  OBVIOUS
<1>9. /\ row' = [row EXCEPT !.sealed = n]
      /\ IF after.trans.completed THEN Ends(after)
         ELSE /\ stream' = [stream EXCEPT !.at = "pump", !.buffer = <<>>, !.prompt = 0]
              /\ socket' = [socket EXCEPT !.wire = Tail(@)]
              /\ Show(after)
  BY <1>1, <1>5, <1>6, <1>7, <1>8 DEF HandleMissed
<1>10. /\ stream.at = "replay" /\ IsSeq(new)
       /\ \A a \in DOMAIN new : new[a].type \in Durable
       /\ (\E a \in DOMAIN new : new[a].type # "todo") => Clean(log, row) = {}
  BY <1>1, <1>2, <1>5, MissedRecords
<1>11. IsShown(v) /\ v.trans.completed = FALSE /\ TellsOn(v, log, session, row, row.from)
  BY <1>6, <1>10, AttachTold
<1>12. PICK q : q = row'
  OBVIOUS
<1>16. SealsRow(q, row, n)
  BY <1>9, <1>12 DEF TellInv, IsRowState, SealsRow
<1>13. /\ n \in Nat /\ IsShown(after) /\ after.trans.completed \in BOOLEAN
       /\ SealedTold(after, log, q)
       /\ ~after.trans.completed =>
            n = 0 /\ TellsThrough(after, log, session, row, row.from, stream.buffer)
  <2>1. TakesQueue(v, after, n, q)
    BY <1>7, <1>8, <1>11, <1>16 DEF TakesQueue
  <2>2. stream.at = "replay"
    BY <1>10
  <2>3. TookQueue(after, n, q)
    BY <2>1, <2>2, QueueTook
  <2> QED BY <2>3 DEF TookQueue
<1>14. ~after.trans.completed =>
         /\ Show(after) /\ stream'.at = "pump" /\ socket'.wire = x /\ n = 0
         /\ \E k \in row.from..Len(log) :
              Covers(x, log, k) /\ TellsOn(after, log, session, row, k)
  <2> SUFFICES ASSUME ~after.trans.completed
               PROVE  /\ Show(after) /\ stream'.at = "pump" /\ socket'.wire = x /\ n = 0
                      /\ \E k \in row.from..Len(log) :
                           Covers(x, log, k) /\ TellsOn(after, log, session, row, k)
    OBVIOUS
  <2>1. Show(after) /\ stream'.at = "pump" /\ socket'.wire = x
    BY <1>1, <1>3, <1>9 DEF StreamInv, PlaceInv, SocketInv
  <2>2. PICK k : k = row.from + Len(stream.buffer)
    OBVIOUS
  <2>3. Covers(w, log, k) /\ k <= Len(log) /\ row.from \in Nat
    BY <1>1, <1>10, <2>2 DEF TellInv, ReplayTold, IsRowState
  <2>4. Covers(x, log, k)
    BY <1>4, <2>3, CoversShift
  <2>5. Len(stream.buffer) \in Nat /\ Len(log) \in Nat
    BY SeqShape DEF StreamInv, BufferInv, BufferIn, IsLog
  <2>6. k \in row.from..Len(log)
    BY <2>2, <2>3, <2>5
  <2>7. n = 0 /\ TellsOn(after, log, session, row, k)
    BY <1>13, <2>2 DEF TellsThrough
  <2> QED BY <2>1, <2>4, <2>6, <2>7
<1>15. SealedTold(after, log, row')
  BY <1>12, <1>13
<1> QED BY <1>9, <1>13, <1>14, <1>15, PumpsOn

----------------------------------------------------------------------------
(* The connection goes, and what the queue held is shown.                  *)

DrainedTold(v, n, q) ==
  /\ n \in Nat /\ IsShown(v) /\ v.trans.completed \in BOOLEAN /\ SealedTold(v, log, q)
  /\ ~v.trans.completed => n = 0
  /\ stream.at # "replay" => n = 0

DrainsTo(v, n, q) ==
  v = Drained /\ n = SealedBy(stream.buffer) /\ SealsRow(q, row, n)

\* Nothing waits but while the records missed are asked for.
LEMMA NoQueue ==
  ASSUME StreamInv, stream.at # "replay" PROVE SealedBy(stream.buffer) = 0
<1>1. PICK frames : frames = stream.buffer
  OBVIOUS
<1>2. frames = <<>> /\ IsSeq(frames)
  BY <1>1 DEF StreamInv, LinkInv, BufferInv, BufferIn
<1>3. DOMAIN frames = {}
  BY <1>2, NoSeq
<1>4. \A i : ~EndsAt(frames, i)
  BY <1>3 DEF EndsAt
<1>5. SealedBy(frames) = 0
  BY <1>2, <1>4, SealedByIs
<1> QED BY <1>1, <1>5

LEMMA DrainedRow ==
  ASSUME StreamInv, TellInv, stream.at \in {"resume", "replay", "pump"},
         NEW v, NEW n, NEW q, DrainsTo(v, n, q)
  PROVE  DrainedTold(v, n, q)
<1>1. v = Drained /\ n = SealedBy(stream.buffer) /\ SealsRow(q, row, n)
  BY DEF DrainsTo
<1>2. CASE stream.at = "replay"
  <2>1. PICK new : new = <<>>
    OBVIOUS
  <2>2. IsSeq(new) /\ DOMAIN new = {}
    BY <2>1, NoSeq
  <2>3. PICK u : u = Attached(new)
    OBVIOUS
  <2>4. IsShown(u) /\ u.trans.completed = FALSE /\ TellsOn(u, log, session, row, row.from)
    BY <1>2, <2>2, <2>3, AttachTold
  <2>5. v = FoldLeft(Translate, u, stream.buffer)
    BY <1>1, <1>2, <2>1, <2>3 DEF Drained
  <2>6. TakesQueue(u, v, n, q)
    BY <1>1, <2>4, <2>5 DEF TakesQueue
  <2>7. TookQueue(v, n, q)
    BY <1>2, <2>6, QueueTook
  <2> QED BY <1>2, <2>7 DEF TookQueue, DrainedTold
<1>3. CASE stream.at # "replay"
  <2>1. n = 0
    BY <1>1, <1>3, NoQueue
  <2>2. v = View
    BY <1>1, <1>3 DEF Drained
  <2>3. IsShown(v) /\ v.trans.completed \in BOOLEAN
    BY <2>2 DEF TellInv, StreamInv, ViewInv, IsTranslator, View
  <2>4. q.sealed = 0
    BY <1>1, <2>1 DEF SealsRow
  <2>5. SealedTold(v, log, q)
    BY <2>4 DEF SealedTold
  <2> QED BY <1>3, <2>1, <2>3, <2>5 DEF DrainedTold
<1> QED BY <1>2, <1>3

\* The row that is drained into.
LEMMA DrainsRow ==
  ASSUME StreamInv, TellInv, stream.at \in {"resume", "replay", "pump"}, Drains,
         NEW v, v = Drained
  PROVE  /\ IsShown(v) /\ v.trans.completed \in BOOLEAN /\ SealedTold(v, log, row')
         /\ ~v.trans.completed \/ stream.at # "replay" => row'.sealed = 0
         /\ IsRowState(row')
<1>1. PICK n : n = SealedBy(stream.buffer)
  OBVIOUS
<1>2. PICK q : q = row'
  OBVIOUS
<1>3. q = [row EXCEPT !.sealed = n] /\ IsRowState(row)
  BY <1>1, <1>2 DEF Drains, TellInv
<1>4. SealsRow(q, row, n)
  BY <1>3 DEF IsRowState, SealsRow
<1>5. DrainsTo(v, n, q)
  BY <1>1, <1>4 DEF DrainsTo
<1>6. DrainedTold(v, n, q)
  BY <1>5, DrainedRow
<1>7. IsRowState(q)
  BY <1>3, <1>4, <1>6 DEF IsRowState, SealsRow, DrainedTold
<1>8. q.sealed = n
  BY <1>4 DEF SealsRow
<1> QED BY <1>2, <1>6, <1>7, <1>8 DEF DrainedTold

LEMMA LoseRow ==
  ASSUME StreamInv, TellInv, Lose PROVE TellInv'
<1>1. PICK v : v = Drained
  OBVIOUS
<1>2. /\ stream.at \in {"resume", "replay", "pump"} /\ Drains /\ UNCHANGED <<log, session>>
      /\ IF stream.at = "replay" /\ v.trans.completed THEN Ends(v) ELSE Disconnected(v)
  BY <1>1 DEF Lose, Drains, DrainedAndDone
<1>3. /\ IsShown(v) /\ v.trans.completed \in BOOLEAN /\ SealedTold(v, log, row')
      /\ ~v.trans.completed \/ stream.at # "replay" => row'.sealed = 0
      /\ IsRowState(row')
  BY <1>1, <1>2, DrainsRow
<1>4. CASE stream.at = "replay" /\ v.trans.completed
  BY <1>2, <1>3, <1>4, ClosesRow
<1>5. CASE ~(stream.at = "replay" /\ v.trans.completed)
  <2>1. row'.sealed = 0 /\ Disconnected(v)
    BY <1>2, <1>3, <1>5
  <2> QED BY <1>2, <1>3, <2>1, ClosesRow
<1> QED BY <1>4, <1>5

LEMMA CloseQueueRow ==
  ASSUME StreamInv, TellInv, CloseQueue PROVE TellInv'
<1>1. PICK v, t : v = Drained /\ t = v.trans.content
  OBVIOUS
<1>2. PICK u : u = Finish(v, t, FALSE)
  OBVIOUS
<1>3. /\ stream.at \in {"resume", "replay", "pump"} /\ Drains /\ UNCHANGED <<log, session>>
      /\ IF stream.at = "resume" THEN Disconnected(View) ELSE Ends(u)
  BY <1>1, <1>2 DEF CloseQueue, Drains
<1>4. /\ IsShown(v) /\ v.trans.completed \in BOOLEAN /\ SealedTold(v, log, row')
      /\ ~v.trans.completed \/ stream.at # "replay" => row'.sealed = 0
      /\ IsRowState(row')
  BY <1>1, <1>3, DrainsRow
<1>5. CASE stream.at = "resume"
  <2>1. PICK z : z = View
    OBVIOUS
  <2>2. IsShown(z) /\ Disconnected(z) /\ row'.sealed = 0
    BY <1>3, <1>4, <1>5, <2>1 DEF TellInv
  <2> QED BY <1>3, <1>4, <2>2, ClosesRow
<1>6. CASE stream.at # "resume"
  <2>1. IsShown(u) /\ SealedTold(u, log, row')
    <3>1. CASE v.trans.completed
      <4>1. u = v
        BY <1>2, <3>1 DEF Finish
      <4> QED BY <1>4, <4>1
    <3>2. CASE ~v.trans.completed
      <4>1. PICK previewed : previewed = FALSE
        OBVIOUS
      <4>2. u = Finish(v, t, previewed)
        BY <1>2, <4>1
      <4>3. IsShown(u)
        BY <1>4, <3>2, <4>2, FinishTold
      <4>4. row'.sealed = 0
        BY <1>4, <3>2
      <4> QED BY <4>3, <4>4 DEF SealedTold
    <3> QED BY <3>1, <3>2
  <2>2. Ends(u)
    BY <1>3, <1>6
  <2> QED BY <1>3, <1>4, <2>1, <2>2, ClosesRow
<1> QED BY <1>5, <1>6

LEMMA DeliverRow ==
  ASSUME StreamInv, StreamInv', TellInv, Deliver PROVE TellInv'
<1>1. PICK w, x : w = socket.wire /\ x = Tail(w)
  OBVIOUS
<1>2. w # <<>> /\ UNCHANGED <<log, session, drops>> /\ socket.wire # <<>>
  BY <1>1 DEF Deliver
<1>3. Linked /\ Head(w) = w[1] /\ Follows(x, w)
  BY <1>1, <1>2, Rest
<1>4. PICK m : m = w[1]
  OBVIOUS
<1>5. m.kind \in Kinds /\ m = Head(socket.wire) /\ m = socket.wire[1]
  BY <1>1, <1>3, <1>4 DEF Follows, IsWire
<1>6. CASE m.kind = "ready"
  <2>1. HandleReady(m)
    BY <1>5, <1>6 DEF Deliver
  <2> QED BY <1>2, <1>5, <1>6, <2>1, ReadyRow
<1>7. CASE m.kind = "frame"
  <2>1. HandleFrame(m)
    BY <1>5, <1>7 DEF Deliver
  <2> QED BY <1>2, <1>5, <1>7, <2>1, FrameRow
<1>8. CASE m.kind = "resumed"
  <2>1. HandleResumed(m)
    BY <1>5, <1>8 DEF Deliver
  <2> QED BY <1>2, <1>5, <1>8, <2>1, ResumedRow
<1>9. CASE m.kind = "missed"
  <2>1. HandleMissed(m)
    BY <1>5, <1>9 DEF Deliver
  <2> QED BY <1>2, <1>5, <1>9, <2>1, MissedRow
<1>10. CASE m.kind = "refused"
  <2>1. HandleRefused(m)
    BY <1>5, <1>10 DEF Deliver
  <2>2. stream.at # "settling"
    BY <1>3 DEF Linked
  <2> QED BY <1>2, <2>1, <2>2, RefusedRow
<1> QED BY <1>5, <1>6, <1>7, <1>8, <1>9, <1>10 DEF Kinds

----------------------------------------------------------------------------
(* The row's theorem.                                                      *)

LEMMA QuietRow ==
  ASSUME TellInv, UNCHANGED vars PROVE TellInv'
<1>1. View' = View
  BY DEF vars, View
<1>2. FreshInv' /\ AskedInv' /\ ReplayTold' /\ PumpTold' /\ SealedInv'
  BY <1>1 DEF vars, TellInv, FreshInv, AskedInv, ReplayTold, PumpTold, SealedInv
<1> QED BY <1>1, <1>2 DEF vars, TellInv

LEMMA TellsKeep == StreamInv /\ StreamInv' /\ TellInv /\ [Next]_vars => TellInv'
<1> SUFFICES ASSUME StreamInv, StreamInv', TellInv, [Next]_vars PROVE TellInv'
  OBVIOUS
<1>1. CASE Gateway
  BY <1>1, EmitRow, PromptAnsweredRow, ForeignTurnRow, RestartRow, AnswerRow, RequestLostRow
     DEF Gateway
<1>2. CASE Client
  BY <1>2, OpenRow, DialledRow, DeliverRow, ReattachRow, SettleRow, DialFailsRow, LoseRow,
     CloseQueueRow DEF Client, Send, ResumeTurn
<1>3. CASE UNCHANGED vars
  BY <1>3, QuietRow
<1> QED BY <1>1, <1>2, <1>3 DEF Next

LEMMA RowSafe == Spec => [](StreamInv /\ TellInv)
<1>1. Init => StreamInv /\ TellInv
  BY InitHolds, InitTells
<1>2. StreamInv /\ TellInv /\ [Next]_vars => (StreamInv /\ TellInv)'
  BY StepKeeps, TellsKeep
<1> QED BY <1>1, <1>2, PTL DEF Spec

\* A row that one stream wrote from the start of its turn, or from a snapshot of
\* what the turn had streamed, says when the turn is over what the turn said,
\* every piece once and in order: the seed of resumeActiveTurn, the deltas, the
\* interims that are sealed and the final text that replaces the last open part
\* (the translator of services/gateway and the chat reducer), whatever was lost,
\* and with what waited in the queue meanwhile.
THEOREM RowIsTheTurn == Spec => []RowTellsTheTurn
<1>1. StreamInv /\ TellInv => RowTellsTheTurn
  <2> SUFFICES ASSUME StreamInv, TellInv, stream.at = "settling", row.sealed \in DOMAIN log,
                      ~row.inPlace, JoinsCleanly(log[row.sealed].turn)
               PROVE  RowText(chat) = Pieces(log[row.sealed].turn, 0, row.sealed)
    BY DEF RowTellsTheTurn
  <2>1. PICK n, t : n = row.sealed /\ t = log[n].turn
    OBVIOUS
  <2>2. SealedTold(View, log, row)
    BY DEF TellInv, SealedInv
  <2>3. n # 0
    BY <2>1, SeqShape DEF StreamInv, IsLog
  <2>4. t \in Nat
    BY <2>1 DEF TellInv, LogTold, TurnsTold
  <2>5. t \in Clean(log, row)
    BY <2>1, <2>4 DEF Clean, JoinsCleanly, JoinsIn
  <2>6. Said(View.chat.parts) = PiecesIn(log, t, 0, n)
    BY <2>1, <2>2, <2>3, <2>5 DEF SealedTold
  <2>7. RowText(chat) = Said(chat.parts) /\ View.chat.parts = chat.parts
    BY DEF RowText, Said, View
  <2>8. Pieces(t, 0, n) = PiecesIn(log, t, 0, n)
    BY ModelTells
  <2> QED BY <2>1, <2>6, <2>7, <2>8
<1> QED BY <1>1, RowSafe, PTL
===============================================================================
