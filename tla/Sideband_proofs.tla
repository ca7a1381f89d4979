--------------------------- MODULE Sideband_proofs ---------------------------
(***************************************************************************)
(* Proofs about the sideband: the gate reopens, a tool call keeps the user *)
(* item its response followed, and every result and note is delivered once *)
(* and in order, for any number of turns, responses, tool calls and notes, *)
(* and a socket that may throw at every send.                              *)
(***************************************************************************)
EXTENDS Sideband, WellFoundedInduction, TLAPS

----------------------------------------------------------------------------
(* Induction, and the folds of the model unfolded.                         *)

\* A set of naturals that is not empty has a least element: induction, for facts
\* whose statement is written as a set.
LEMMA LeastElement ==
  ASSUME NEW T \in SUBSET Nat, T # {} PROVE \E n \in T : \A m \in T : n <= m
<1> DEFINE R == {p \in Nat \X Nat : p[1] < p[2]}
<1>1. R = OpToRel(<, Nat)
  BY DEF OpToRel
<1>2. IsWellFoundedOn(R, Nat)
  BY <1>1, NatLessThanWellFounded
<1>3. PICK n \in T : \A m \in T : ~(<<m, n>> \in R)
  BY <1>2, WFMin
<1>4. ASSUME NEW m \in T PROVE n <= m
  <2>1. <<m, n>> \in Nat \X Nat /\ <<m, n>>[1] = m /\ <<m, n>>[2] = n
    OBVIOUS
  <2>2. ~(m < n)
    BY <1>3, <2>1 DEF R
  <2> QED BY <2>2
<1> QED BY <1>4

\* The same, as it is used: what holds of 0 and goes from n to n + 1.
LEMMA Induction ==
  ASSUME NEW S \in SUBSET Nat, 0 \in S, \A n \in S : n + 1 \in S PROVE S = Nat
<1> SUFFICES ASSUME Nat \ S # {} PROVE FALSE
  OBVIOUS
<1>1. PICK n \in Nat \ S : \A m \in Nat \ S : n <= m
  BY LeastElement
<1>2. n # 0 /\ n - 1 \in Nat /\ n - 1 \notin Nat \ S
  BY <1>1
<1>3. (n - 1) + 1 \in S
  BY <1>2
<1> QED BY <1>1, <1>3

LEMMA MaxOfPrefix ==
  ASSUME NEW n \in Nat, n # 0, NEW D \in SUBSET (1..n), n \in D PROVE Max(D) = n
<1>1. \A y \in D : n >= y
  OBVIOUS
<1>2. Max(D) \in D /\ \A y \in D : Max(D) >= y
  BY <1>1 DEF Max
<1> DEFINE m == Max(D)
<1>3. m \in 1..n /\ m >= n
  BY <1>2
<1> HIDE DEF m
<1>4. m = n
  BY <1>3
<1> QED BY <1>4 DEF m

\* One step of either fold of the model: the i-th call is handed to the listeners,
\* or the i-th message is kept when it is of the kind asked for.
Step(fold, x, i) ==
  IF fold.listens THEN UNION {Listener(t, fold.over[i]) : t \in x}
  ELSE IF fold.over[i].type = fold.kind THEN Append(x, fold.over[i]) ELSE x

\* The fold from base, unfolded: states[D] after the places of D.
Folding(fold, base, n, states) ==
  states = [D \in SUBSET (1..n) |->
              IF D = {} THEN base ELSE Step(fold, states[D \ {Max(D)}], Max(D))]

LEMMA FoldingExists ==
  ASSUME NEW fold, NEW base
  PROVE  \A n \in Nat : \E states : Folding(fold, base, n, states)
<1> DEFINE S == {n \in Nat : \E states : Folding(fold, base, n, states)}
<1>1. 0 \in S
  <2> DEFINE f == [D \in SUBSET (1..0) |-> base]
  <2>1. \A D \in SUBSET (1..0) : D = {}
    OBVIOUS
  <2>2. Folding(fold, base, 0, f)
    BY <2>1 DEF Folding
  <2> QED BY <2>2
<1>2. ASSUME NEW n \in S PROVE n + 1 \in S
  <2>1. PICK h : Folding(fold, base, n, h)
    BY <1>2
  <2> DEFINE last(D) == Step(fold, h[D \ {n + 1}], n + 1)
             f == [D \in SUBSET (1..(n + 1)) |-> IF n + 1 \in D THEN last(D) ELSE h[D]]
  <2>2. ASSUME NEW D \in SUBSET (1..(n + 1))
        PROVE  f[D] = IF D = {} THEN base ELSE Step(fold, f[D \ {Max(D)}], Max(D))
    <3>1. CASE n + 1 \in D
      <4>1. Max(D) = n + 1
        BY <3>1, MaxOfPrefix
      <4>2. D \ {n + 1} \in SUBSET (1..(n + 1)) /\ n + 1 \notin D \ {n + 1} /\ D # {}
        BY <3>1
      <4>3. f[D \ {n + 1}] = h[D \ {n + 1}] /\ f[D] = last(D)
        BY <3>1, <4>2
      <4> HIDE DEF f
      <4> QED BY <4>1, <4>2, <4>3
    <3>2. CASE n + 1 \notin D
      <4>1. D \in SUBSET (1..n)
        BY <3>2
      <4>2. f[D] = h[D]
        BY <3>2
      <4>3. h[D] = IF D = {} THEN base ELSE Step(fold, h[D \ {Max(D)}], Max(D))
        BY <2>1, <4>1 DEF Folding
      <4>4. f[D \ {Max(D)}] = h[D \ {Max(D)}]
        BY <3>2
      <4> HIDE DEF f
      <4> QED BY <4>2, <4>3, <4>4
    <3> QED BY <3>1, <3>2
  <2>3. Folding(fold, base, n + 1, f)
    <3>1. f = [D \in SUBSET (1..(n + 1)) |-> f[D]]
      OBVIOUS
    <3> HIDE DEF f
    <3> QED BY <2>2, <3>1 DEF Folding
  <2> QED BY <2>3
<1> QED BY <1>1, <1>2, Induction

\* The states a fold goes through, by the number of its steps.
LEMMA FoldingSteps ==
  ASSUME NEW fold, NEW base, NEW n \in Nat, NEW states, Folding(fold, base, n, states)
  PROVE  /\ states[1..0] = base
         /\ \A m \in 1..n : states[1..m] = Step(fold, states[1..(m - 1)], m)
<1>1. states[1..0] = base
  <2>1. 1..0 = {} /\ 1..0 \in SUBSET (1..n)
    OBVIOUS
  <2> QED BY <2>1 DEF Folding
<1>2. ASSUME NEW m \in 1..n PROVE states[1..m] = Step(fold, states[1..(m - 1)], m)
  <2>1. m \in Nat /\ m # 0 /\ 1..m \in SUBSET (1..m) /\ m \in 1..m
    OBVIOUS
  <2> DEFINE D == 1..m
  <2>2. D \in SUBSET (1..n) /\ D # {} /\ Max(D) = m /\ D \ {m} = 1..(m - 1)
    <3>1. Max(1..m) = m
      BY <2>1, MaxOfPrefix
    <3> QED BY <2>1, <3>1
  <2> HIDE DEF D
  <2>3. states[D] = Step(fold, states[D \ {Max(D)}], Max(D))
    BY <2>2 DEF Folding
  <2> QED BY <2>2, <2>3 DEF D
<1> QED BY <1>1, <1>2

\* The dispatch of any number of calls stays in the sets P that one listener after
\* the other leads through.
LEMMA DispatchReaches ==
  ASSUME NEW s, NEW calls \in Seq(Calls), NEW P, s \in P[0],
         \A m \in 1..Len(calls) : \A t \in P[m - 1] : Listener(t, calls[m]) \subseteq P[m]
  PROVE  Dispatch(s, calls) \subseteq P[Len(calls)]
<1>0. PICK base : base = {s}
  OBVIOUS
<1> DEFINE n == Len(calls)
           fold == [listens |-> TRUE, over |-> calls]
           Unfolds(f) == f = [D \in SUBSET (1..n) |->
                                IF D = {} THEN base
                                ELSE UNION {Listener(t, calls[Max(D)]) : t \in f[D \ {Max(D)}]}]
           states == CHOOSE f : Unfolds(f)
<1>1. n \in Nat /\ DOMAIN calls = 1..n
  OBVIOUS
<1>2. Dispatch(s, calls) = states[1..n]
  BY <1>0, <1>1 DEF Dispatch, FoldLeft, MapThenFoldSet
<1>3. \A f : Folding(fold, base, n, f) <=> Unfolds(f)
  <2>1. \A x, i : Step(fold, x, i) = UNION {Listener(t, calls[i]) : t \in x}
    BY DEF Step
  <2> HIDE DEF fold, n
  <2> SUFFICES ASSUME NEW f PROVE Folding(fold, base, n, f) <=> Unfolds(f)
    OBVIOUS
  <2>2. \A D \in SUBSET (1..n) :
          (IF D = {} THEN base ELSE Step(fold, f[D \ {Max(D)}], Max(D)))
            = (IF D = {} THEN base
               ELSE UNION {Listener(t, calls[Max(D)]) : t \in f[D \ {Max(D)}]})
    BY <2>1
  <2> QED BY <2>2 DEF Folding
<1>4. \E f : Unfolds(f)
  <2>1. \E f : Folding(fold, base, n, f)
    <3> HIDE DEF fold, n
    <3> QED BY <1>1, FoldingExists
  <2> HIDE DEF fold, n, Unfolds
  <2> QED BY <1>3, <2>1
<1>5. Unfolds(states)
  BY <1>4
<1> HIDE DEF states, Unfolds
<1>6. /\ states[1..0] = base
      /\ \A m \in 1..n : states[1..m] = Step(fold, states[1..(m - 1)], m)
  <2>1. Folding(fold, base, n, states)
    BY <1>3, <1>5
  <2>2. n \in Nat
    BY <1>1
  <2> HIDE DEF fold, n
  <2> QED BY <2>1, <2>2, FoldingSteps
<1>7. \A m \in 1..n : states[1..m] = UNION {Listener(t, calls[m]) : t \in states[1..(m - 1)]}
  BY <1>6 DEF Step
<1> DEFINE S == {m \in Nat : m <= n => states[1..m] \subseteq P[m]}
<1>8. 0 \in S
  BY <1>0, <1>6
<1>9. ASSUME NEW m \in S PROVE m + 1 \in S
  <2> SUFFICES ASSUME m + 1 <= n PROVE states[1..(m + 1)] \subseteq P[m + 1]
    OBVIOUS
  <2>1. m + 1 \in 1..n /\ (m + 1) - 1 = m /\ states[1..m] \subseteq P[m]
    BY <1>1
  <2>2. states[1..(m + 1)] = UNION {Listener(t, calls[m + 1]) : t \in states[1..m]}
    BY <1>7, <2>1
  <2>3. \A t \in P[m] : Listener(t, calls[m + 1]) \subseteq P[m + 1]
    BY <2>1
  <2> QED BY <2>1, <2>2, <2>3
<1>10. n \in S
  <2>1. S \in SUBSET Nat
    OBVIOUS
  <2> HIDE DEF S
  <2> QED BY <1>1, <1>8, <1>9, <2>1, Induction
<1> QED BY <1>1, <1>2, <1>10

\* What every listener keeps, the dispatch keeps.
LEMMA DispatchKeeps ==
  ASSUME NEW s, NEW calls \in Seq(Calls), NEW P, s \in P,
         \A t \in P, c \in Calls : Listener(t, c) \subseteq P
  PROVE  Dispatch(s, calls) \subseteq P
<1> DEFINE n == Len(calls)
           Ps == [m \in 0..n |-> P]
<1>1. n \in Nat /\ \A m \in 1..n : calls[m] \in Calls /\ m \in 0..n /\ m - 1 \in 0..n
  OBVIOUS
<1>2. \A m \in 0..n : Ps[m] = P
  OBVIOUS
<1> HIDE DEF Ps
<1>3. s \in Ps[0] /\ \A m \in 1..n : \A t \in Ps[m - 1] : Listener(t, calls[m]) \subseteq Ps[m]
  BY <1>1, <1>2
<1>4. Dispatch(s, calls) \subseteq Ps[n]
  BY <1>3, DispatchReaches
<1> QED BY <1>1, <1>2, <1>4

----------------------------------------------------------------------------
(* The messages of one kind.                                               *)

LEMMA SequenceFacts ==
  ASSUME NEW S
  PROVE  /\ <<>> \in Seq(S)
         /\ \A s \in Seq(S) : s \o <<>> = s /\ <<>> \o s = s
         /\ \A s, t \in Seq(S) : s \o t \in Seq(S)
         /\ \A s \in Seq(S), e \in S : Append(s, e) \in Seq(S) /\ Append(s, e) = s \o <<e>>
         /\ \A e \in S : <<e>> \in Seq(S)
<1>1. <<>> \in Seq(S) /\ \A s \in Seq(S) : s \o <<>> = s /\ <<>> \o s = s
  OBVIOUS
<1>2. \A s, t \in Seq(S) : s \o t \in Seq(S)
  OBVIOUS
<1>3. \A s \in Seq(S), e \in S : Append(s, e) \in Seq(S) /\ Append(s, e) = s \o <<e>>
  OBVIOUS
<1>4. \A e \in S : <<e>> \in Seq(S)
  OBVIOUS
<1> QED BY <1>1, <1>2, <1>3, <1>4

LEMMA MessagesAssociate ==
  ASSUME NEW first \in Seq(Message), NEW second \in Seq(Message), NEW third \in Seq(Message)
  PROVE  first \o (second \o third) = (first \o second) \o third
  OBVIOUS

LEMMA AppendMessage ==
  ASSUME NEW s \in Seq(Message), NEW t \in Seq(Message), NEW e \in Message
  PROVE  Append(s \o t, e) = s \o Append(t, e)
  OBVIOUS

LEMMA AppendCall ==
  ASSUME NEW s \in Seq(Calls), NEW t \in Seq(Calls), NEW e \in Calls
  PROVE  Append(s \o t, e) = s \o Append(t, e)
  OBVIOUS

\* A concatenation, position by position.
LEMMA ConcatCalls ==
  ASSUME NEW s \in Seq(Calls), NEW t \in Seq(Calls), NEW n, NEW k, n = Len(s), k = Len(t),
         NEW f, f = [i \in 1..(n + k) |-> IF i <= n THEN s[i] ELSE t[i - n]]
  PROVE  s \o t = f
<1>1. n \in Nat /\ k \in Nat /\ DOMAIN s = 1..n /\ DOMAIN t = 1..k
  OBVIOUS
<1>2. s \o t \in Seq(Calls) /\ Len(s \o t) = n + k
  OBVIOUS
<1>3. \A i \in 1..(n + k) : (s \o t)[i] = IF i <= n THEN s[i] ELSE t[i - n]
  OBVIOUS
<1>4. PICK both : both = s \o t
  OBVIOUS
<1>5. both \in Seq(Calls) /\ Len(both) = n + k
  BY <1>2, <1>4
<1>6. both = [i \in 1..(n + k) |-> both[i]]
  BY <1>5
<1>7. \A i \in 1..(n + k) : both[i] = IF i <= n THEN s[i] ELSE t[i - n]
  BY <1>3, <1>4
<1> QED BY <1>4, <1>6, <1>7

\* How OfType goes through the messages.
Kept(kind, messages, kept) ==
  /\ kept[0] = <<>>
  /\ \A m \in 1..Len(messages) :
       kept[m] = IF messages[m].type = kind THEN Append(kept[m - 1], messages[m]) ELSE kept[m - 1]
  /\ OfType(kind, messages) = kept[Len(messages)]

LEMMA OfTypeSteps ==
  ASSUME NEW kind, NEW messages \in Seq(Message) PROVE \E kept : Kept(kind, messages, kept)
<1> DEFINE n == Len(messages)
           fold == [listens |-> FALSE, over |-> messages, kind |-> kind]
           Unfolds(f) == f = [D \in SUBSET (1..n) |->
                                IF D = {} THEN <<>>
                                ELSE IF messages[Max(D)].type = kind
                                     THEN Append(f[D \ {Max(D)}], messages[Max(D)])
                                     ELSE f[D \ {Max(D)}]]
           states == CHOOSE f : Unfolds(f)
           kept == [m \in 0..n |-> states[1..m]]
<1>1. n \in Nat /\ DOMAIN messages = 1..n
  OBVIOUS
<1>2. OfType(kind, messages) = states[1..n]
  BY <1>1 DEF OfType, FoldLeft, MapThenFoldSet
<1>3. \A f : Folding(fold, <<>>, n, f) <=> Unfolds(f)
  <2>1. \A x, i : Step(fold, x, i) =
                    IF messages[i].type = kind THEN Append(x, messages[i]) ELSE x
    BY DEF Step
  <2> HIDE DEF fold, n
  <2> SUFFICES ASSUME NEW f PROVE Folding(fold, <<>>, n, f) <=> Unfolds(f)
    OBVIOUS
  <2>2. \A D \in SUBSET (1..n) :
          (IF D = {} THEN <<>> ELSE Step(fold, f[D \ {Max(D)}], Max(D)))
            = (IF D = {} THEN <<>>
               ELSE IF messages[Max(D)].type = kind
                    THEN Append(f[D \ {Max(D)}], messages[Max(D)])
                    ELSE f[D \ {Max(D)}])
    BY <2>1
  <2> QED BY <1>1, <2>2 DEF Folding
<1>4. \E f : Unfolds(f)
  <2>1. \E f : Folding(fold, <<>>, n, f)
    <3> HIDE DEF fold, n
    <3> QED BY <1>1, FoldingExists
  <2> HIDE DEF fold, n, Unfolds
  <2> QED BY <1>3, <2>1
<1>5. Unfolds(states)
  BY <1>4
<1> HIDE DEF states, Unfolds
<1>6. /\ states[1..0] = <<>>
      /\ \A m \in 1..n : states[1..m] = Step(fold, states[1..(m - 1)], m)
  <2>1. Folding(fold, <<>>, n, states)
    BY <1>3, <1>5
  <2> HIDE DEF fold, n
  <2> QED BY <1>1, <2>1, FoldingSteps
<1>7. \A m \in 1..n :
        states[1..m] = IF messages[m].type = kind THEN Append(states[1..(m - 1)], messages[m])
                       ELSE states[1..(m - 1)]
  BY <1>6 DEF Step
<1> HIDE DEF fold
<1>8. \A m \in 0..n : kept[m] = states[1..m]
  OBVIOUS
<1> HIDE DEF kept
<1>9. kept[0] = <<>> /\ OfType(kind, messages) = kept[n]
  BY <1>1, <1>2, <1>6, <1>8
<1>10. ASSUME NEW m \in 1..n
       PROVE  kept[m] = IF messages[m].type = kind THEN Append(kept[m - 1], messages[m])
                        ELSE kept[m - 1]
  <2>1. m \in 0..n /\ m - 1 \in 0..n
    BY <1>1
  <2> QED BY <1>7, <1>8, <2>1
<1> QED BY <1>9, <1>10 DEF Kept

LEMMA OfTypeIs ==
  ASSUME NEW kind, NEW messages \in Seq(Message)
  PROVE  /\ OfType(kind, messages) \in Seq(Message)
         /\ \A i \in DOMAIN OfType(kind, messages) : OfType(kind, messages)[i].type = kind
<1>1. PICK kept : Kept(kind, messages, kept)
  BY OfTypeSteps
<1> DEFINE n == Len(messages)
           Right(k) == k \in Seq(Message) /\ \A i \in DOMAIN k : k[i].type = kind
           S == {m \in Nat : m <= n => Right(kept[m])}
<1>2. n \in Nat /\ DOMAIN messages = 1..n
  OBVIOUS
<1>3. 0 \in S
  <2>1. kept[0] = <<>>
    BY <1>1 DEF Kept
  <2>2. Right(<<>>)
    OBVIOUS
  <2> HIDE DEF Right
  <2> QED BY <2>1, <2>2
<1>4. ASSUME NEW m \in S PROVE m + 1 \in S
  <2> SUFFICES ASSUME m + 1 <= n PROVE Right(kept[m + 1])
    OBVIOUS
  <2>1. m + 1 \in 1..n /\ (m + 1) - 1 = m /\ Right(kept[m]) /\ messages[m + 1] \in Message
    BY <1>2
  <2>2. kept[m + 1] = IF messages[m + 1].type = kind THEN Append(kept[m], messages[m + 1])
                      ELSE kept[m]
    BY <1>1, <2>1 DEF Kept
  <2>3. \A k, e : Right(k) /\ e \in Message /\ e.type = kind => Right(Append(k, e))
    OBVIOUS
  <2> HIDE DEF Right
  <2> QED BY <2>1, <2>2, <2>3
<1>5. n \in S
  <2>1. S \in SUBSET Nat
    OBVIOUS
  <2> HIDE DEF S
  <2> QED BY <1>2, <1>3, <1>4, <2>1, Induction
<1> QED BY <1>1, <1>2, <1>5 DEF Kept

\* Of two sequences one after the other: what the first has, then the second.
LEMMA OfTypeConcat ==
  ASSUME NEW kind, NEW s \in Seq(Message), NEW t \in Seq(Message)
  PROVE  OfType(kind, s \o t) = OfType(kind, s) \o OfType(kind, t)
<1> DEFINE n == Len(s)
           k == Len(t)
           both == s \o t
<1>1. /\ both \in Seq(Message) /\ Len(both) = n + k /\ n \in Nat /\ k \in Nat
      /\ \A i \in 1..n : both[i] = s[i]
      /\ \A i \in 1..k : both[n + i] = t[i]
  OBVIOUS
<1> HIDE DEF both
<1>2. PICK kept : Kept(kind, s, kept)
  BY OfTypeSteps
<1>3. PICK then : Kept(kind, t, then)
  BY OfTypeSteps
<1>4. PICK all : Kept(kind, both, all)
  BY <1>1, OfTypeSteps
<1> DEFINE First == {m \in Nat : m <= n => all[m] = kept[m]}
<1>5. all[n] = kept[n]
  <2>1. 0 \in First
    BY <1>2, <1>4 DEF Kept
  <2>2. ASSUME NEW m \in First PROVE m + 1 \in First
    <3> SUFFICES ASSUME m + 1 <= n PROVE all[m + 1] = kept[m + 1]
      OBVIOUS
    <3>1. m + 1 \in 1..n /\ m + 1 \in 1..(n + k) /\ (m + 1) - 1 = m /\ all[m] = kept[m]
      BY <1>1
    <3>2. both[m + 1] = s[m + 1]
      BY <1>1, <3>1
    <3> QED BY <1>1, <1>2, <1>4, <3>1, <3>2 DEF Kept
  <2>3. First \in SUBSET Nat
    OBVIOUS
  <2> HIDE DEF First
  <2>4. n \in First
    BY <1>1, <2>1, <2>2, <2>3, Induction
  <2> QED BY <1>1, <2>4 DEF First
<1>6. OfType(kind, s) \in Seq(Message)
  BY OfTypeIs
<1> DEFINE head == OfType(kind, s)
           Second == {m \in Nat : m <= k => then[m] \in Seq(Message) /\ all[n + m] = head \o then[m]}
<1>7. all[n] = head
  BY <1>2, <1>5 DEF Kept
<1> HIDE DEF head
<1>8. k \in Second
  <2>1. 0 \in Second
    <3>1. then[0] = <<>> /\ n + 0 = n
      BY <1>1, <1>3 DEF Kept
    <3>2. head \o <<>> = head /\ <<>> \in Seq(Message)
      BY <1>6, SequenceFacts DEF head
    <3>3. then[0] \in Seq(Message) /\ all[n + 0] = head \o then[0]
      BY <1>7, <3>1, <3>2
    <3> QED BY <3>3
  <2>2. ASSUME NEW m \in Second PROVE m + 1 \in Second
    <3> SUFFICES ASSUME m + 1 <= k
                 PROVE  then[m + 1] \in Seq(Message) /\ all[n + (m + 1)] = head \o then[m + 1]
      OBVIOUS
    <3>1. /\ m + 1 \in 1..k /\ n + (m + 1) \in 1..(n + k) /\ (m + 1) - 1 = m
          /\ (n + (m + 1)) - 1 = n + m
          /\ then[m] \in Seq(Message) /\ all[n + m] = head \o then[m]
      BY <1>1
    <3>2. both[n + (m + 1)] = t[m + 1] /\ t[m + 1] \in Message
      BY <1>1, <3>1
    <3>3. /\ then[m + 1] = IF t[m + 1].type = kind THEN Append(then[m], t[m + 1]) ELSE then[m]
          /\ all[n + (m + 1)] = IF t[m + 1].type = kind THEN Append(all[n + m], t[m + 1])
                                ELSE all[n + m]
      <4>1. then[m + 1] = IF t[m + 1].type = kind THEN Append(then[(m + 1) - 1], t[m + 1])
                          ELSE then[(m + 1) - 1]
        BY <1>3, <3>1 DEF Kept
      <4>2. all[n + (m + 1)] =
              IF both[n + (m + 1)].type = kind
              THEN Append(all[(n + (m + 1)) - 1], both[n + (m + 1)])
              ELSE all[(n + (m + 1)) - 1]
        BY <1>1, <1>4, <3>1 DEF Kept
      <4> QED BY <3>1, <3>2, <4>1, <4>2
    <3>4. /\ Append(then[m], t[m + 1]) \in Seq(Message)
          /\ Append(head \o then[m], t[m + 1]) = head \o Append(then[m], t[m + 1])
      <4>1. PICK a, e, h : a = then[m] /\ e = t[m + 1] /\ h = head
        OBVIOUS
      <4>2. a \in Seq(Message) /\ e \in Message /\ h \in Seq(Message)
        BY <1>6, <3>1, <3>2, <4>1 DEF head
      <4>3. Append(a, e) \in Seq(Message)
        BY <4>2, SequenceFacts
      <4>4. Append(h \o a, e) = h \o Append(a, e)
        BY <4>2, AppendMessage
      <4> QED BY <4>1, <4>3, <4>4
    <3> QED BY <3>1, <3>3, <3>4
  <2>3. Second \in SUBSET Nat
    OBVIOUS
  <2> HIDE DEF Second
  <2> QED BY <1>1, <2>1, <2>2, <2>3, Induction
<1>9. all[n + k] = head \o then[k]
  BY <1>1, <1>8
<1> QED BY <1>1, <1>3, <1>4, <1>9 DEF Kept, head, both

LEMMA OfTypeOne ==
  ASSUME NEW kind, NEW m \in Message
  PROVE  OfType(kind, <<m>>) = IF m.type = kind THEN <<m>> ELSE <<>>
<1>1. <<m>> \in Seq(Message)
  BY SequenceFacts
<1>2. PICK kept : Kept(kind, <<m>>, kept)
  BY <1>1, OfTypeSteps
<1>3. Len(<<m>>) = 1 /\ <<m>>[1] = m /\ 1 - 1 = 0 /\ 1 \in 1..1 /\ Append(<<>>, m) = <<m>>
  OBVIOUS
<1> QED BY <1>2, <1>3 DEF Kept

\* Messages of one kind: all of them, or none.
LEMMA OfTypeAll ==
  ASSUME NEW kind, NEW other, NEW s \in Seq(Message), \A i \in DOMAIN s : s[i].type = other
  PROVE  OfType(kind, s) = IF kind = other THEN s ELSE <<>>
<1>1. PICK kept : Kept(kind, s, kept)
  BY OfTypeSteps
<1> DEFINE n == Len(s)
           part(m) == IF kind = other THEN SubSeq(s, 1, m) ELSE <<>>
           S == {m \in Nat : m <= n => kept[m] = part(m)}
<1>2. n \in Nat /\ DOMAIN s = 1..n
  OBVIOUS
<1>3. 0 \in S
  <2>1. kept[0] = <<>> /\ SubSeq(s, 1, 0) = <<>>
    BY <1>1 DEF Kept
  <2> QED BY <2>1
<1>4. ASSUME NEW m \in S PROVE m + 1 \in S
  <2> SUFFICES ASSUME m + 1 <= n PROVE kept[m + 1] = part(m + 1)
    OBVIOUS
  <2>1. m + 1 \in 1..n /\ (m + 1) - 1 = m /\ kept[m] = part(m) /\ s[m + 1].type = other
    BY <1>2
  <2>2. kept[m + 1] = IF kind = other THEN Append(kept[m], s[m + 1]) ELSE kept[m]
    BY <1>1, <2>1 DEF Kept
  <2>3. Append(SubSeq(s, 1, m), s[m + 1]) = SubSeq(s, 1, m + 1)
    BY <2>1
  <2> QED BY <2>1, <2>2, <2>3
<1>5. n \in S
  <2>1. S \in SUBSET Nat
    OBVIOUS
  <2> HIDE DEF S
  <2> QED BY <1>2, <1>3, <1>4, <2>1, Induction
<1>6. SubSeq(s, 1, n) = s
  OBVIOUS
<1>7. kept[n] = part(n)
  BY <1>2, <1>5
<1>8. OfType(kind, s) = part(n)
  BY <1>1, <1>7 DEF Kept
<1> QED BY <1>6, <1>8

LEMMA OutputsTyped ==
  ASSUME NEW calls \in Seq(Calls)
  PROVE  /\ Outputs(calls) \in Seq(Message) /\ Len(Outputs(calls)) = Len(calls)
         /\ Create \in Message /\ Create.type = "create"
<1>1. \A i \in DOMAIN calls : [type |-> "output", call |-> calls[i]] \in Message
  BY DEF Message
<1>2. DOMAIN calls = 1..Len(calls) /\ Len(calls) \in Nat
  OBVIOUS
<1>3. Outputs(calls) \in [1..Len(calls) -> Message]
  BY <1>1, <1>2 DEF Outputs
<1>4. Create \in Message /\ Create.type = "create"
  BY DEF Create, Message
<1> QED BY <1>2, <1>3, <1>4

\* The answers in a sequence of messages, the same.
LEMMA AnsweringIs ==
  ASSUME NEW s \in Seq(Message) PROVE Answering(s) \in Seq(Calls)
<1> DEFINE outputs == OfType("output", s)
<1>1. outputs \in Seq(Message) /\ \A i \in DOMAIN outputs : outputs[i].type = "output"
  BY OfTypeIs
<1>2. Answering(s) = [i \in DOMAIN outputs |-> outputs[i].call]
  BY DEF Answering
<1> HIDE DEF outputs
<1>3. \A i \in DOMAIN outputs : outputs[i].call \in Calls
  BY <1>1 DEF Message
<1>4. DOMAIN outputs = 1..Len(outputs) /\ Len(outputs) \in Nat
  BY <1>1
<1>5. Answering(s) \in [1..Len(outputs) -> Calls]
  BY <1>2, <1>3, <1>4
<1> QED BY <1>4, <1>5

LEMMA AnsweringConcat ==
  ASSUME NEW s \in Seq(Message), NEW t \in Seq(Message)
  PROVE  Answering(s \o t) = Answering(s) \o Answering(t)
<1> DEFINE Calling(outputs) == [i \in DOMAIN outputs |-> outputs[i].call]
           Answers(outputs) == \A i \in DOMAIN outputs : outputs[i].call \in Calls
<1>1. ASSUME NEW a \in Seq(Message), NEW b \in Seq(Message), Answers(a), Answers(b)
      PROVE  Calling(a \o b) = Calling(a) \o Calling(b)
  <2>1. PICK n, k : n = Len(a) /\ k = Len(b)
    OBVIOUS
  <2>2. n \in Nat /\ k \in Nat /\ DOMAIN a = 1..n /\ DOMAIN b = 1..k
    BY <2>1
  <2>3. PICK f, g : f = Calling(a) /\ g = Calling(b)
    OBVIOUS
  <2>4. /\ f \in [1..n -> Calls] /\ g \in [1..k -> Calls]
        /\ \A i \in 1..n : f[i] = a[i].call
        /\ \A i \in 1..k : g[i] = b[i].call
    BY <1>1, <2>2, <2>3
  <2>5. /\ DOMAIN (a \o b) = 1..(n + k)
        /\ \A i \in 1..(n + k) : (a \o b)[i] = IF i <= n THEN a[i] ELSE b[i - n]
    BY <2>1
  <2>6. Calling(a \o b) = [i \in 1..(n + k) |-> IF i <= n THEN a[i].call ELSE b[i - n].call]
    BY <2>5
  <2>7. f \in Seq(Calls) /\ g \in Seq(Calls) /\ Len(f) = n /\ Len(g) = k
    BY <2>2, <2>4
  <2>8. f \o g = [i \in 1..(n + k) |-> IF i <= n THEN f[i] ELSE g[i - n]]
    <3> HIDE DEF Calling, Answers
    <3>1. PICK h : h = [i \in 1..(n + k) |-> IF i <= n THEN f[i] ELSE g[i - n]]
      OBVIOUS
    <3>2. f \o g = h
      BY <2>7, <3>1, ConcatCalls
    <3> QED BY <3>1, <3>2
  <2>9. ASSUME NEW i \in 1..(n + k), ~(i <= n) PROVE i - n \in 1..k
    BY <2>2, <2>9
  <2>10. ASSUME NEW i \in 1..(n + k), i <= n PROVE i \in 1..n
    BY <2>2, <2>10
  <2> HIDE DEF Calling, Answers
  <2> QED BY <2>3, <2>4, <2>6, <2>8, <2>9, <2>10
<1>2. \A m : Answering(m) = Calling(OfType("output", m))
  BY DEF Answering
<1> HIDE DEF Calling
<1>3. ASSUME NEW m \in Seq(Message)
      PROVE  OfType("output", m) \in Seq(Message) /\ Answers(OfType("output", m))
  <2>1. PICK outputs : outputs = OfType("output", m)
    OBVIOUS
  <2>2. outputs \in Seq(Message) /\ \A i \in DOMAIN outputs : outputs[i].type = "output"
    BY <2>1, OfTypeIs
  <2>3. \A i \in DOMAIN outputs : outputs[i] \in Message
    BY <2>2
  <2>4. Answers(outputs)
    BY <2>2, <2>3 DEF Message
  <2> QED BY <2>1, <2>2, <2>4
<1> HIDE DEF Answers
<1>4. PICK a, b : a = OfType("output", s) /\ b = OfType("output", t)
  OBVIOUS
<1>5. Calling(a \o b) = Calling(a) \o Calling(b)
  BY <1>1, <1>3, <1>4
<1> QED BY <1>2, <1>4, <1>5, OfTypeConcat

LEMMA AnsweringOutputs ==
  ASSUME NEW calls \in Seq(Calls)
  PROVE  Answering(Outputs(calls)) = calls /\ OfType("note", Outputs(calls)) = <<>>
<1>1. Outputs(calls) \in Seq(Message) /\ Len(Outputs(calls)) = Len(calls)
  BY OutputsTyped
<1>2. \A i \in DOMAIN Outputs(calls) :
        Outputs(calls)[i].type = "output" /\ Outputs(calls)[i].call = calls[i]
  BY DEF Outputs
<1>3. OfType("output", Outputs(calls)) = Outputs(calls) /\ OfType("note", Outputs(calls)) = <<>>
  BY <1>1, <1>2, OfTypeAll
<1>4. Answering(Outputs(calls)) = [i \in DOMAIN Outputs(calls) |-> Outputs(calls)[i].call]
  BY <1>3 DEF Answering
<1>5. DOMAIN Outputs(calls) = DOMAIN calls
  BY DEF Outputs
<1> QED BY <1>2, <1>3, <1>4, <1>5

\* A message that is no output answers nothing.
LEMMA AnsweringOther ==
  ASSUME NEW m \in Message, m.type # "output" PROVE Answering(<<m>>) = <<>>
<1>1. OfType("output", <<m>>) = <<>>
  BY OfTypeOne
<1> QED BY <1>1 DEF Answering

----------------------------------------------------------------------------
(* Sending.                                                                *)
HasCreate(messages) == \E i \in DOMAIN messages : messages[i].type = "create"

\* What a send leaves alone, and what it may do to the gate: it never opens one,
\* it shuts it only with a response.create under way, and loses none under way.
Sent(s, t) ==
  /\ t \in Fields /\ (s.closed => t.closed)
  /\ t.latestUserItemId = s.latestUserItemId /\ t.userSpeaking = s.userSpeaking
  /\ t.responseUserItems = s.responseUserItems
  /\ HasCreate(s.socket) => HasCreate(t.socket)
  /\ s.responseInProgress => t.responseInProgress
  /\ t.responseInProgress => s.responseInProgress \/ HasCreate(t.socket)

LEMMA SentTwice ==
  ASSUME NEW s, NEW t, NEW u, Sent(s, t), Sent(t, u) PROVE Sent(s, u)
  BY DEF Sent

LEMMA CreateStays ==
  ASSUME NEW m \in Seq(Message), NEW out \in Seq(Message)
  PROVE  /\ m \o out \in Seq(Message)
         /\ HasCreate(m) => HasCreate(m \o out)
         /\ HasCreate(out) => HasCreate(m \o out)
<1>1. ASSUME HasCreate(m) PROVE HasCreate(m \o out)
  <2>1. PICK i \in DOMAIN m : m[i].type = "create"
    BY <1>1 DEF HasCreate
  <2>2. i \in DOMAIN (m \o out) /\ (m \o out)[i] = m[i]
    OBVIOUS
  <2> QED BY <2>1, <2>2 DEF HasCreate
<1>2. ASSUME HasCreate(out) PROVE HasCreate(m \o out)
  <2>1. PICK i \in DOMAIN out : out[i].type = "create"
    BY <1>2 DEF HasCreate
  <2>2. Len(m) + i \in DOMAIN (m \o out) /\ (m \o out)[Len(m) + i] = out[i]
    OBVIOUS
  <2> QED BY <2>1, <2>2 DEF HasCreate
<1> QED BY <1>1, <1>2

LEMMA NoteFlushed ==
  ASSUME NEW s \in Fields, NEW t \in FlushProgress(s)
  PROVE  /\ Sent(s, t) /\ t.closed = s.closed /\ t.pendingResults = s.pendingResults
         /\ t.responseInProgress = s.responseInProgress
<1> DEFINE cleared == [s EXCEPT !.pendingProgressNote = "none"]
           note == [type |-> "note", note |-> s.pendingProgressNote]
           sent == [cleared EXCEPT !.progressNotesSent = @ + 1, !.socket = Append(@, note)]
<1>1. t = s \/ t = cleared \/ t = sent
  BY DEF FlushProgress, Failures
<1>2. CASE t = s
  BY <1>2 DEF Sent
<1>3. CASE t = cleared
  BY <1>3 DEF Sent, Fields, Notes
<1>4. CASE t = sent
  <2>1. note \in Message /\ <<note>> \in Seq(Message) /\ s.socket \in Seq(Message)
    BY DEF Message, Fields, Notes
  <2>2. Append(s.socket, note) = s.socket \o <<note>>
    BY <2>1
  <2> HIDE DEF note
  <2>3. Append(s.socket, note) \in Seq(Message)
        /\ (HasCreate(s.socket) => HasCreate(Append(s.socket, note)))
    BY <2>1, <2>2, CreateStays
  <2>4. t = [s EXCEPT !.pendingProgressNote = "none", !.progressNotesSent = @ + 1,
                      !.socket = Append(s.socket, note)]
    BY <1>4 DEF Fields
  <2> DEFINE socket == Append(s.socket, note)
  <2> HIDE DEF socket
  <2>5. t = [s EXCEPT !.pendingProgressNote = "none", !.progressNotesSent = @ + 1,
                      !.socket = socket]
    BY <2>4 DEF socket
  <2>6. socket \in Seq(Message) /\ (HasCreate(s.socket) => HasCreate(socket))
    BY <2>3 DEF socket
  <2>7. t \in Fields
    <3>1. s.progressNotesSent + 1 \in Nat /\ "none" \in Notes
      BY DEF Fields, Notes
    <3> QED BY <2>5, <2>6, <3>1 DEF Fields
  <2>8. /\ t.socket = socket /\ t.latestUserItemId = s.latestUserItemId
        /\ t.userSpeaking = s.userSpeaking /\ t.responseUserItems = s.responseUserItems
        /\ t.responseInProgress = s.responseInProgress /\ t.closed = s.closed
        /\ t.pendingResults = s.pendingResults
    BY <2>5 DEF Fields
  <2> QED BY <2>6, <2>7, <2>8 DEF Sent
<1> QED BY <1>1, <1>2, <1>3, <1>4

LEMMA ResultsSent ==
  ASSUME NEW s \in Fields, ~s.closed, NEW t \in SendResults(s)
  PROVE  /\ Sent(s, t)
         /\ t.closed \/ (t.responseInProgress /\ t.pendingResults = <<>>)
<1> DEFINE out == Outputs(s.pendingResults)
           all == Append(out, Create)
           part(n) == SubSeq(out, 1, n)
<1>1. out \in Seq(Message) /\ Create \in Message /\ Create.type = "create"
      /\ s.socket \in Seq(Message)
  BY OutputsTyped DEF Fields
<1> HIDE DEF out
<1>2. CASE t = [s EXCEPT !.socket = @ \o all, !.pendingResults = <<>>, !.responseInProgress = TRUE]
  <2>1. all \in Seq(Message) /\ all[Len(out) + 1] = Create /\ Len(out) + 1 \in DOMAIN all
    BY <1>1
  <2> HIDE DEF all
  <2>2. HasCreate(all)
    BY <1>1, <2>1 DEF HasCreate
  <2> DEFINE socket == s.socket \o all
  <2>3. socket \in Seq(Message) /\ HasCreate(socket)
    BY <1>1, <2>1, <2>2, CreateStays
  <2>4. t = [s EXCEPT !.socket = socket, !.pendingResults = <<>>, !.responseInProgress = TRUE]
    BY <1>2
  <2> HIDE DEF socket
  <2>5. t \in Fields
    <3>1. <<>> \in Seq(Calls) /\ TRUE \in BOOLEAN
      OBVIOUS
    <3> QED BY <2>3, <2>4, <3>1 DEF Fields
  <2> QED BY <2>3, <2>4, <2>5 DEF Sent, Fields
<1>3. ASSUME NEW some \in Seq(Message), NEW pending \in Seq(Calls),
             t = [s EXCEPT !.socket = @ \o some, !.pendingResults = pending, !.closed = TRUE]
      PROVE  Sent(s, t) /\ t.closed
  <2> DEFINE socket == s.socket \o some
  <2>1. socket \in Seq(Message) /\ (HasCreate(s.socket) => HasCreate(socket))
    BY <1>1, CreateStays
  <2>2. t = [s EXCEPT !.socket = socket, !.pendingResults = pending, !.closed = TRUE]
    BY <1>3
  <2> HIDE DEF socket
  <2>3. t \in Fields
    BY <2>1, <2>2 DEF Fields
  <2> QED BY <2>1, <2>2, <2>3 DEF Sent, Fields
<1>4. ASSUME NEW n \in 0 .. Len(out) - 1,
             t = [s EXCEPT !.socket = @ \o part(n), !.closed = TRUE]
      PROVE  Sent(s, t) /\ t.closed
  <2>1. part(n) \in Seq(Message)
    BY <1>1
  <2>2. t = [s EXCEPT !.socket = @ \o part(n), !.pendingResults = s.pendingResults, !.closed = TRUE]
    BY <1>4 DEF Fields
  <2>3. s.pendingResults \in Seq(Calls)
    BY DEF Fields
  <2> HIDE DEF part
  <2> QED BY <1>3, <2>1, <2>2, <2>3
<1>5. CASE t = [s EXCEPT !.socket = @ \o out, !.pendingResults = <<>>, !.closed = TRUE]
  <2>1. <<>> \in Seq(Calls)
    OBVIOUS
  <2> QED BY <1>1, <1>3, <1>5, <2>1
<1>6. \/ t = [s EXCEPT !.socket = @ \o all, !.pendingResults = <<>>, !.responseInProgress = TRUE]
      \/ \E n \in 0 .. Len(out) - 1 : t = [s EXCEPT !.socket = @ \o part(n), !.closed = TRUE]
      \/ t = [s EXCEPT !.socket = @ \o out, !.pendingResults = <<>>, !.closed = TRUE]
  BY DEF SendResults, Failures, out
<1> QED BY <1>2, <1>4, <1>5, <1>6

\* After a flush nothing waits behind an open gate.
LEMMA Flushed ==
  ASSUME NEW s \in Fields, NEW t \in FlushResults(s)
  PROVE  Sent(s, t) /\ (~Gated(t) => t.pendingResults = <<>>)
<1>1. CASE Gated(s)
  BY <1>1 DEF FlushResults, Sent
<1>2. CASE ~Gated(s)
  <2>1. PICK u \in FlushProgress(s) :
          t \in IF u.pendingResults = <<>> THEN {u} ELSE SendResults(u)
    BY <1>2 DEF FlushResults
  <2>2. Sent(s, u) /\ u.closed = s.closed /\ u \in Fields
    BY NoteFlushed DEF Sent
  <2>3. CASE u.pendingResults = <<>> /\ t = u
    BY <2>2, <2>3
  <2>4. CASE t \in SendResults(u)
    <3>1. ~u.closed
      BY <1>2, <2>2 DEF Gated
    <3>2. Sent(u, t) /\ (t.closed \/ t.responseInProgress)
      BY <2>2, <2>4, <3>1, ResultsSent
    <3> QED BY <2>2, <3>2, SentTwice DEF Gated
  <2> QED BY <2>1, <2>3, <2>4
<1> QED BY <1>1, <1>2

LEMMA ResultTaken ==
  ASSUME NEW s \in Fields, NEW c \in Calls, NEW t \in SendFunctionResult(s, c)
  PROVE  Sent(s, t) /\ (s.closed \/ (~Gated(t) => t.pendingResults = <<>>))
<1>1. CASE s.closed
  BY <1>1 DEF SendFunctionResult, Sent
<1>2. CASE ~s.closed
  <2> DEFINE u == [s EXCEPT !.pendingResults = Append(@, c), !.submitted = Append(@, c)]
  <2>1. Append(s.pendingResults, c) \in Seq(Calls) /\ Append(s.submitted, c) \in Seq(Calls)
    BY DEF Fields
  <2>2. u \in Fields /\ Sent(s, u)
    BY <2>1 DEF Fields, Sent
  <2>3. t \in FlushResults(u)
    BY <1>2 DEF SendFunctionResult
  <2> HIDE DEF u
  <2> QED BY <2>2, <2>3, Flushed, SentTwice
<1> QED BY <1>1, <1>2

LEMMA NoteTaken ==
  ASSUME NEW s \in Fields, NEW t \in InjectProgressNote(s)
  PROVE  /\ Sent(s, t) /\ t.closed = s.closed /\ t.pendingResults = s.pendingResults
         /\ t.responseInProgress = s.responseInProgress
<1>1. CASE t = s
  BY <1>1 DEF Sent
<1>2. ASSUME NEW suppressed \in BOOLEAN, NEW note \in Notes,
             t \in FlushProgress([s EXCEPT !.progressSuppressed = suppressed,
                                           !.pendingProgressNote = note])
      PROVE  /\ Sent(s, t) /\ t.closed = s.closed /\ t.pendingResults = s.pendingResults
             /\ t.responseInProgress = s.responseInProgress
  <2> DEFINE u == [s EXCEPT !.progressSuppressed = suppressed, !.pendingProgressNote = note]
  <2>1. /\ u \in Fields /\ Sent(s, u) /\ u.closed = s.closed
        /\ u.pendingResults = s.pendingResults /\ u.responseInProgress = s.responseInProgress
    BY DEF Fields, Sent
  <2>2. t \in FlushProgress(u)
    BY <1>2
  <2> HIDE DEF u
  <2>3. /\ Sent(u, t) /\ t.closed = u.closed /\ t.pendingResults = u.pendingResults
        /\ t.responseInProgress = u.responseInProgress
    BY <2>1, <2>2, NoteFlushed
  <2> QED BY <2>1, <2>3, SentTwice
<1>3. CASE t \in FlushProgress([s EXCEPT !.progressSuppressed = TRUE,
                                         !.pendingProgressNote = "suppressed"])
  BY <1>2, <1>3 DEF Notes
<1>4. CASE t \in FlushProgress([s EXCEPT !.pendingProgressNote = "note"])
  <2>1. [s EXCEPT !.pendingProgressNote = "note"]
          = [s EXCEPT !.progressSuppressed = s.progressSuppressed, !.pendingProgressNote = "note"]
    BY DEF Fields
  <2>2. s.progressSuppressed \in BOOLEAN
    BY DEF Fields
  <2> QED BY <1>2, <1>4, <2>1, <2>2 DEF Notes
<1> QED BY <1>1, <1>3, <1>4 DEF InjectProgressNote

\* A response that ends with any calls, answered at once or not.
LEMMA ResponseHandled ==
  ASSUME NEW s \in Fields, NEW event, event.response \in Responses,
         event.calls \in Seq(Calls), NEW t \in ResponseDone(s, event)
  PROVE  Sent(Ended(s, event), t) /\ (~Gated(t) => t.pendingResults = <<>>)
<1> DEFINE ended == Ended(s, event)
           P == {u \in Fields : Sent(ended, u)}
<1>1. ended \in P
  BY DEF Ended, Fields, Sent
<1> HIDE DEF ended
<1>2. ASSUME NEW u \in P, NEW c \in Calls PROVE Listener(u, c) \subseteq P
  <2>1. u \in Fields /\ Sent(ended, u)
    OBVIOUS
  <2>2. ASSUME NEW v \in Listener(u, c) PROVE v \in P
    <3>1. CASE v = u
      BY <3>1
    <3>2. CASE v \in SendFunctionResult(u, c)
      <4>1. Sent(u, v)
        BY <2>1, <3>2, ResultTaken
      <4> QED BY <2>1, <4>1, SentTwice DEF Sent
    <3> QED BY <3>1, <3>2 DEF Listener
  <2> QED BY <2>2
<1> DEFINE calls == event.calls
<1>3. Dispatch(ended, calls) \subseteq P
  <2> HIDE DEF P, calls
  <2>1. calls \in Seq(Calls)
    BY DEF calls
  <2> QED BY <1>1, <1>2, <2>1, DispatchKeeps
<1>4. PICK u \in Dispatch(ended, calls) : t \in FlushResults(u)
  BY DEF ResponseDone, ended
<1>5. u \in Fields /\ Sent(ended, u)
  BY <1>3
<1>6. Sent(u, t) /\ (~Gated(t) => t.pendingResults = <<>>)
  BY <1>4, <1>5, Flushed
<1> QED BY <1>5, <1>6, SentTwice DEF ended
----------------------------------------------------------------------------
(* What is delivered.  `before` is what the model received already.         *)

\* The notes on their way or with the model are the notes counted, and what is
\* pending still fits the budget.
NoteBook(before, s) ==
  LET notes == OfType("note", before \o s.socket)
  IN /\ Len(notes) = s.progressNotesSent /\ s.progressNotesSent <= MaxNotes + 1
     /\ \A i \in DOMAIN notes : notes[i].note = "suppressed" => i = MaxNotes + 1
     /\ s.pendingProgressNote = "note" => s.progressNotesSent < MaxNotes
     /\ s.pendingProgressNote = "suppressed" => s.progressNotesSent = MaxNotes
     /\ s.pendingProgressNote = "suppressed" \/ s.progressNotesSent > MaxNotes =>
          s.progressSuppressed

\* Every result given to an open sideband is with the model, on its way or queued.
ResultBook(before, s) ==
  ~s.closed =>
    /\ Answering(before \o s.socket) \o s.pendingResults = s.submitted
    /\ IsInjective(s.submitted)

Books(before, s) == NoteBook(before, s) /\ ResultBook(before, s)

LEMMA MoreSent ==
  ASSUME NEW before \in Seq(Message), NEW socket \in Seq(Message), NEW out \in Seq(Message)
  PROVE  /\ OfType("note", before \o (socket \o out))
              = OfType("note", before \o socket) \o OfType("note", out)
         /\ Answering(before \o (socket \o out)) = Answering(before \o socket) \o Answering(out)
         /\ OfType("note", before \o socket) \in Seq(Message)
         /\ Answering(before \o socket) \in Seq(Calls)
<1> DEFINE all == before \o socket
<1>1. before \o (socket \o out) = all \o out
  BY MessagesAssociate
<1>2. all \in Seq(Message)
  OBVIOUS
<1> HIDE DEF all
<1>3. /\ OfType("note", all \o out) = OfType("note", all) \o OfType("note", out)
      /\ Answering(all \o out) = Answering(all) \o Answering(out)
  BY <1>2, OfTypeConcat, AnsweringConcat
<1>4. OfType("note", all) \in Seq(Message) /\ Answering(all) \in Seq(Calls)
  BY <1>2, OfTypeIs, AnsweringIs
<1> QED BY <1>1, <1>3, <1>4 DEF all

\* Sending anything but notes leaves the book of notes alone.
LEMMA NotesUntouched ==
  ASSUME NEW before \in Seq(Message), NEW s \in Fields, NEW t, NEW out \in Seq(Message),
         NoteBook(before, s), OfType("note", out) = <<>>, t.socket = s.socket \o out,
         t.progressNotesSent = s.progressNotesSent,
         t.pendingProgressNote = s.pendingProgressNote,
         t.progressSuppressed = s.progressSuppressed
  PROVE  NoteBook(before, t)
<1>1. PICK socket : socket = s.socket
  OBVIOUS
<1>2. socket \in Seq(Message)
  BY <1>1 DEF Fields
<1>3. /\ OfType("note", before \o (socket \o out))
            = OfType("note", before \o socket) \o OfType("note", out)
      /\ OfType("note", before \o socket) \in Seq(Message)
  <2>1. PICK all : all = before \o socket
    OBVIOUS
  <2>2. all \in Seq(Message)
    BY <1>2, <2>1
  <2>3. OfType("note", all \o out) = OfType("note", all) \o OfType("note", out)
    BY <2>2, OfTypeConcat
  <2>4. OfType("note", all) \in Seq(Message)
    BY <2>2, OfTypeIs
  <2>5. before \o (socket \o out) = (before \o socket) \o out
    BY <1>2, MessagesAssociate
  <2> QED BY <2>1, <2>3, <2>4, <2>5
<1>4. OfType("note", before \o socket) \o <<>> = OfType("note", before \o socket)
  BY <1>3, SequenceFacts
<1>5. OfType("note", before \o t.socket) = OfType("note", before \o s.socket)
  BY <1>1, <1>3, <1>4
<1> QED BY <1>5 DEF NoteBook

LEMMA NoteBooked ==
  ASSUME NEW before \in Seq(Message), NEW s \in Fields, Books(before, s),
         NEW t \in FlushProgress(s)
  PROVE  Books(before, t) /\ t.submitted = s.submitted
<1> DEFINE cleared == [s EXCEPT !.pendingProgressNote = "none"]
           note == [type |-> "note", note |-> s.pendingProgressNote]
           sent == [cleared EXCEPT !.progressNotesSent = @ + 1, !.socket = Append(@, note)]
<1>1. t = s \/ t = cleared \/ (t = sent /\ s.pendingProgressNote # "none")
  BY DEF FlushProgress, Failures
<1>2. CASE t = cleared
  <2>1. /\ t.pendingProgressNote = "none" /\ t.socket = s.socket /\ t.submitted = s.submitted
        /\ t.progressNotesSent = s.progressNotesSent /\ t.progressSuppressed = s.progressSuppressed
        /\ t.closed = s.closed /\ t.pendingResults = s.pendingResults
    BY <1>2 DEF Fields
  <2> QED BY <2>1 DEF Books, NoteBook, ResultBook
<1>3. CASE t = sent /\ s.pendingProgressNote # "none"
  <2>1. /\ note \in Message /\ note.type = "note" /\ note.note = s.pendingProgressNote
        /\ <<note>> \in Seq(Message) /\ s.socket \in Seq(Message)
        /\ s.pendingProgressNote \in {"note", "suppressed"} /\ s.progressNotesSent \in Nat
    BY <1>3 DEF Message, Fields, Notes
  <2>2. /\ t.pendingProgressNote = "none" /\ t.socket = Append(s.socket, note)
        /\ t.progressNotesSent = s.progressNotesSent + 1
        /\ t.progressSuppressed = s.progressSuppressed /\ t.submitted = s.submitted
        /\ t.closed = s.closed /\ t.pendingResults = s.pendingResults
    BY <1>3 DEF Fields
  <2> HIDE DEF note, sent
  <2>3. PICK socket, out : socket = s.socket /\ out = <<note>>
    OBVIOUS
  <2>4. socket \in Seq(Message) /\ out \in Seq(Message) /\ t.socket = socket \o out
    BY <2>1, <2>2, <2>3, SequenceFacts
  <2> DEFINE notes == OfType("note", before \o s.socket)
  <2>5. /\ OfType("note", before \o t.socket) = notes \o <<note>> /\ notes \in Seq(Message)
        /\ Answering(before \o t.socket) = Answering(before \o s.socket)
    <3>1. OfType("note", <<note>>) = <<note>> /\ Answering(<<note>>) = <<>>
      BY <2>1, OfTypeOne, AnsweringOther
    <3>2. /\ OfType("note", before \o (socket \o out))
                = OfType("note", before \o socket) \o OfType("note", out)
          /\ Answering(before \o (socket \o out)) = Answering(before \o socket) \o Answering(out)
          /\ OfType("note", before \o socket) \in Seq(Message)
          /\ Answering(before \o socket) \in Seq(Calls)
      BY <2>4, MoreSent
    <3>3. Answering(before \o socket) \o <<>> = Answering(before \o socket)
      BY <3>2, SequenceFacts
    <3> QED BY <2>3, <2>4, <3>1, <3>2, <3>3
  <2>6. ResultBook(before, t)
    BY <2>2, <2>5 DEF Books, ResultBook
  <2>7. /\ Len(notes) = s.progressNotesSent
        /\ \A i \in DOMAIN notes : notes[i].note = "suppressed" => i = MaxNotes + 1
        /\ s.pendingProgressNote = "note" => s.progressNotesSent < MaxNotes
        /\ s.pendingProgressNote = "suppressed" => s.progressNotesSent = MaxNotes
        /\ s.pendingProgressNote = "suppressed" => s.progressSuppressed
    BY DEF Books, NoteBook
  <2> HIDE DEF notes
  <2>8. MaxNotes \in Nat
    BY SidebandConstants DEF SidebandConstants
  <2>9. /\ Len(notes \o <<note>>) = t.progressNotesSent
        /\ t.progressNotesSent <= MaxNotes + 1
        /\ t.progressNotesSent > MaxNotes => t.progressSuppressed
    BY <2>1, <2>2, <2>5, <2>7, <2>8
  <2>10. ASSUME NEW i \in DOMAIN (notes \o <<note>>), (notes \o <<note>>)[i].note = "suppressed"
         PROVE  i = MaxNotes + 1
    <3>1. CASE i \in DOMAIN notes
      <4>1. (notes \o <<note>>)[i] = notes[i]
        BY <2>5, <3>1
      <4> QED BY <2>7, <2>10, <3>1, <4>1
    <3>2. CASE i \notin DOMAIN notes
      <4>1. i = Len(notes) + 1 /\ (notes \o <<note>>)[i] = note
        BY <2>5, <3>2
      <4> QED BY <2>1, <2>7, <2>10, <4>1
    <3> QED BY <3>1, <3>2
  <2>11. NoteBook(before, t)
    BY <2>2, <2>5, <2>9, <2>10 DEF NoteBook
  <2> QED BY <2>2, <2>6, <2>11 DEF Books
<1> QED BY <1>1, <1>2, <1>3

LEMMA ResultsBooked ==
  ASSUME NEW before \in Seq(Message), NEW s \in Fields, Books(before, s), ~s.closed,
         NEW t \in SendResults(s)
  PROVE  Books(before, t) /\ t.submitted = s.submitted
<1> DEFINE out == Outputs(s.pendingResults)
           all == Append(out, Create)
           part(n) == SubSeq(out, 1, n)
           Left(u, v) == /\ v.progressNotesSent = u.progressNotesSent
                         /\ v.pendingProgressNote = u.pendingProgressNote
                         /\ v.progressSuppressed = u.progressSuppressed
                         /\ v.submitted = u.submitted
<1>1. /\ out \in Seq(Message) /\ Create \in Message /\ Create.type = "create"
      /\ s.socket \in Seq(Message) /\ s.pendingResults \in Seq(Calls)
      /\ \A i \in DOMAIN out : out[i].type = "output"
  BY OutputsTyped DEF Fields, Outputs
<1>2. Answering(out) = s.pendingResults /\ OfType("note", out) = <<>>
  BY <1>1, AnsweringOutputs
<1> HIDE DEF out
<1>3. CASE t = [s EXCEPT !.socket = @ \o all, !.pendingResults = <<>>, !.responseInProgress = TRUE]
  <2>1. Left(s, t) /\ t.socket = s.socket \o all /\ t.pendingResults = <<>> /\ t.closed = s.closed
    BY <1>3 DEF Fields
  <2>2. all = out \o <<Create>> /\ <<Create>> \in Seq(Message) /\ all \in Seq(Message)
    BY <1>1
  <2> HIDE DEF all
  <2>3. Answering(<<Create>>) = <<>> /\ OfType("note", <<Create>>) = <<>>
    BY <1>1, AnsweringOther, OfTypeOne
  <2>4. PICK create : create = <<Create>>
    OBVIOUS
  <2>5. Answering(all) = s.pendingResults /\ OfType("note", all) = <<>>
    <3>1. /\ Answering(out \o create) = Answering(out) \o Answering(create)
          /\ OfType("note", out \o create) = OfType("note", out) \o OfType("note", create)
      <4>1. create \in Seq(Message)
        BY <2>2, <2>4
      <4> QED BY <1>1, <4>1, AnsweringConcat, OfTypeConcat
    <3>2. s.pendingResults \o <<>> = s.pendingResults /\ <<>> \o <<>> = <<>>
      BY <1>1, SequenceFacts
    <3> QED BY <1>2, <2>2, <2>3, <2>4, <3>1, <3>2
  <2>6. NoteBook(before, t)
    BY <2>1, <2>2, <2>5, NotesUntouched DEF Books
  <2>7. /\ Answering(before \o t.socket) = Answering(before \o s.socket) \o s.pendingResults
        /\ Answering(before \o s.socket) \in Seq(Calls)
    <3>1. PICK socket, more : socket = s.socket /\ more = all
      OBVIOUS
    <3>2. socket \in Seq(Message) /\ more \in Seq(Message)
      BY <1>1, <2>2, <3>1
    <3>3. /\ Answering(before \o (socket \o more)) = Answering(before \o socket) \o Answering(more)
          /\ Answering(before \o socket) \in Seq(Calls)
      BY <3>2, MoreSent
    <3> QED BY <2>1, <2>5, <3>1, <3>3
  <2>8. Answering(before \o t.socket) \o t.pendingResults
          = Answering(before \o s.socket) \o s.pendingResults
    <3>1. \A x \in Seq(Calls) : x \o <<>> = x
      BY SequenceFacts
    <3>2. Answering(before \o s.socket) \o s.pendingResults \in Seq(Calls)
      BY <1>1, <2>7, SequenceFacts
    <3> QED BY <2>1, <2>7, <3>1, <3>2
  <2>9. ResultBook(before, t)
    BY <2>1, <2>8 DEF Books, ResultBook
  <2> QED BY <2>1, <2>6, <2>9 DEF Books
<1>4. ASSUME NEW some \in Seq(Message), OfType("note", some) = <<>>, NEW pending,
             t = [s EXCEPT !.socket = @ \o some, !.pendingResults = pending, !.closed = TRUE]
      PROVE  Books(before, t) /\ t.submitted = s.submitted
  <2>1. Left(s, t) /\ t.socket = s.socket \o some /\ t.closed
    BY <1>4 DEF Fields
  <2>2. NoteBook(before, t)
    BY <1>4, <2>1, NotesUntouched DEF Books
  <2> QED BY <2>1, <2>2 DEF Books, ResultBook
<1>5. ASSUME NEW n \in 0 .. Len(out) - 1,
             t = [s EXCEPT !.socket = @ \o part(n), !.closed = TRUE]
      PROVE  Books(before, t) /\ t.submitted = s.submitted
  <2>1. part(n) \in Seq(Message) /\ \A i \in DOMAIN part(n) : part(n)[i].type = "output"
    BY <1>1
  <2>2. t = [s EXCEPT !.socket = @ \o part(n), !.pendingResults = s.pendingResults, !.closed = TRUE]
    BY <1>5 DEF Fields
  <2> HIDE DEF part
  <2>3. OfType("note", part(n)) = <<>>
    BY <2>1, OfTypeAll
  <2> QED BY <1>4, <2>1, <2>2, <2>3
<1>6. CASE t = [s EXCEPT !.socket = @ \o out, !.pendingResults = <<>>, !.closed = TRUE]
  BY <1>1, <1>2, <1>4, <1>6
<1>7. \/ t = [s EXCEPT !.socket = @ \o all, !.pendingResults = <<>>, !.responseInProgress = TRUE]
      \/ \E n \in 0 .. Len(out) - 1 : t = [s EXCEPT !.socket = @ \o part(n), !.closed = TRUE]
      \/ t = [s EXCEPT !.socket = @ \o out, !.pendingResults = <<>>, !.closed = TRUE]
  BY DEF SendResults, Failures, out
<1> QED BY <1>3, <1>5, <1>6, <1>7

LEMMA FlushBooked ==
  ASSUME NEW before \in Seq(Message), NEW s \in Fields, Books(before, s),
         NEW t \in FlushResults(s)
  PROVE  Books(before, t) /\ t.submitted = s.submitted
<1>1. CASE Gated(s)
  BY <1>1 DEF FlushResults
<1>2. CASE ~Gated(s)
  <2>1. PICK u \in FlushProgress(s) :
          t \in IF u.pendingResults = <<>> THEN {u} ELSE SendResults(u)
    BY <1>2 DEF FlushResults
  <2>2. /\ u \in Fields /\ ~u.closed /\ Books(before, u) /\ u.submitted = s.submitted
    BY <1>2, NoteFlushed, NoteBooked DEF Sent, Gated
  <2>3. CASE t \in SendResults(u)
    BY <2>2, <2>3, ResultsBooked
  <2> QED BY <2>1, <2>2, <2>3
<1> QED BY <1>1, <1>2

\* A result not given before.
LEMMA ResultBooked ==
  ASSUME NEW before \in Seq(Message), NEW s \in Fields, Books(before, s),
         NEW c \in Calls, ~s.closed => c \notin Range(s.submitted),
         NEW t \in SendFunctionResult(s, c)
  PROVE  /\ Books(before, t)
         /\ ~t.closed => Range(t.submitted) \subseteq Range(s.submitted) \cup {c}
<1>1. CASE s.closed
  BY <1>1 DEF SendFunctionResult
<1>2. CASE ~s.closed
  <2> DEFINE u == [s EXCEPT !.pendingResults = Append(@, c), !.submitted = Append(@, c)]
  <2>1. /\ s.pendingResults \in Seq(Calls) /\ s.submitted \in Seq(Calls)
        /\ Append(s.pendingResults, c) \in Seq(Calls) /\ Append(s.submitted, c) \in Seq(Calls)
        /\ s.socket \in Seq(Message)
    BY DEF Fields
  <2>2. /\ u \in Fields /\ u.pendingResults = Append(s.pendingResults, c)
        /\ u.submitted = Append(s.submitted, c) /\ u.socket = s.socket /\ u.closed = s.closed
        /\ u.progressNotesSent = s.progressNotesSent
        /\ u.pendingProgressNote = s.pendingProgressNote
        /\ u.progressSuppressed = s.progressSuppressed
    BY <2>1 DEF Fields
  <2>3. t \in FlushResults(u)
    BY <1>2 DEF SendFunctionResult
  <2> HIDE DEF u
  <2>4. NoteBook(before, u)
    BY <2>2 DEF Books, NoteBook
  <2>5. Answering(before \o s.socket) \o Append(s.pendingResults, c)
          = Append(Answering(before \o s.socket) \o s.pendingResults, c)
    <3>1. PICK sent, pending : sent = before \o s.socket /\ pending = s.pendingResults
      OBVIOUS
    <3>2. sent \in Seq(Message) /\ pending \in Seq(Calls)
      BY <2>1, <3>1, SequenceFacts
    <3>3. Answering(sent) \in Seq(Calls)
      BY <3>2, AnsweringIs
    <3>4. Append(Answering(sent) \o pending, c) = Answering(sent) \o Append(pending, c)
      <4>1. PICK answers : answers = Answering(sent)
        OBVIOUS
      <4>2. answers \in Seq(Calls)
        BY <3>3, <4>1
      <4>3. Append(answers \o pending, c) = answers \o Append(pending, c)
        BY <3>2, <4>2, AppendCall
      <4> QED BY <4>1, <4>3
    <3> QED BY <3>1, <3>4
  <2>6. IsInjective(Append(s.submitted, c))
    <3>1. PICK given : given = s.submitted
      OBVIOUS
    <3>2. /\ given \in Seq(Calls) /\ \A i \in DOMAIN given : given[i] # c
          /\ \A i, j \in DOMAIN given : given[i] = given[j] => i = j
      BY <1>2, <2>1, <3>1 DEF Books, ResultBook, Range, IsInjective
    <3>3. \A i \in DOMAIN Append(given, c) :
            \/ i \in DOMAIN given /\ Append(given, c)[i] = given[i]
            \/ i = Len(given) + 1 /\ Append(given, c)[i] = c
      BY <3>2
    <3>4. IsInjective(Append(given, c))
      BY <3>2, <3>3 DEF IsInjective
    <3> QED BY <3>1, <3>4
  <2>7. ResultBook(before, u)
    BY <1>2, <2>2, <2>5, <2>6 DEF Books, ResultBook
  <2>8. Books(before, t) /\ t.submitted = Append(s.submitted, c)
    BY <2>2, <2>3, <2>4, <2>7, FlushBooked DEF Books
  <2>9. Range(Append(s.submitted, c)) \subseteq Range(s.submitted) \cup {c}
    BY <2>1 DEF Range
  <2> QED BY <2>8, <2>9
<1> QED BY <1>1, <1>2

LEMMA NoteOffered ==
  ASSUME NEW before \in Seq(Message), NEW s \in Fields, Books(before, s),
         NEW t \in InjectProgressNote(s)
  PROVE  Books(before, t) /\ t.submitted = s.submitted
<1>1. ASSUME NEW suppressed \in BOOLEAN, NEW note \in Notes,
             s.progressSuppressed => suppressed,
             note = "note" => s.progressNotesSent < MaxNotes,
             note = "suppressed" => s.progressNotesSent = MaxNotes /\ suppressed,
             t \in FlushProgress([s EXCEPT !.progressSuppressed = suppressed,
                                           !.pendingProgressNote = note])
      PROVE  Books(before, t) /\ t.submitted = s.submitted
  <2> DEFINE u == [s EXCEPT !.progressSuppressed = suppressed, !.pendingProgressNote = note]
  <2>1. /\ u \in Fields /\ u.socket = s.socket /\ u.closed = s.closed
        /\ u.pendingResults = s.pendingResults /\ u.submitted = s.submitted
        /\ u.progressNotesSent = s.progressNotesSent /\ u.pendingProgressNote = note
        /\ u.progressSuppressed = suppressed
    BY DEF Fields
  <2>2. t \in FlushProgress(u)
    BY <1>1
  <2> HIDE DEF u
  <2>3. Books(before, u)
    BY <1>1, <2>1 DEF Books, NoteBook, ResultBook
  <2> QED BY <2>1, <2>2, <2>3, NoteBooked
<1>2. s.progressNotesSent \in Nat /\ MaxNotes \in Nat /\ s.progressSuppressed \in BOOLEAN
      /\ s.progressNotesSent <= MaxNotes + 1
      /\ (s.progressNotesSent > MaxNotes => s.progressSuppressed)
  BY SidebandConstants DEF SidebandConstants, Fields, Books, NoteBook
<1>3. CASE /\ s.progressNotesSent >= MaxNotes /\ ~s.progressSuppressed
           /\ t \in FlushProgress([s EXCEPT !.progressSuppressed = TRUE,
                                            !.pendingProgressNote = "suppressed"])
  <2>1. s.progressNotesSent = MaxNotes /\ "suppressed" \in Notes /\ TRUE \in BOOLEAN
    BY <1>2, <1>3 DEF Notes
  <2> QED BY <1>1, <1>3, <2>1
<1>4. CASE /\ s.progressNotesSent < MaxNotes
           /\ t \in FlushProgress([s EXCEPT !.pendingProgressNote = "note"])
  <2>1. [s EXCEPT !.pendingProgressNote = "note"]
          = [s EXCEPT !.progressSuppressed = s.progressSuppressed, !.pendingProgressNote = "note"]
    BY DEF Fields
  <2>2. "note" \in Notes
    BY DEF Notes
  <2> QED BY <1>1, <1>2, <1>4, <2>1, <2>2
<1>5. CASE t = s
  BY <1>5
<1> QED BY <1>2, <1>3, <1>4, <1>5 DEF InjectProgressNote

----------------------------------------------------------------------------
(* What is under way to the sideband.  A queue q of events, a sideband s that *)
(* has not handled them, and what the provider has done by then.              *)
IsDone(e, r) == e.type = "done" /\ e.response = r
IsSpeech(e) == e.type \in {"speech_started", "speech_stopped"}

\* x is the latest user item when the events before the k-th are handled.
LatestAt(q, s, k, x) ==
  \/ \E j \in 1..(k - 1) : /\ q[j].type = "item" /\ q[j].item = x
                           /\ \A i \in (j + 1)..(k - 1) : q[i].type # "item"
  \/ s.latestUserItemId = x /\ \A i \in 1..(k - 1) : q[i].type # "item"

\* The item of response r is noted by then, and not yet forgotten.
NotedAt(q, s, r, k, resp) ==
  \/ \E j \in 1..(k - 1) : /\ q[j].type = "created" /\ q[j].response = r
                           /\ \A i \in (j + 1)..(k - 1) : ~IsDone(q[i], r)
  \/ s.responseUserItems[r] = resp[r] /\ \A i \in 1..(k - 1) : ~IsDone(q[i], r)

ItemsKnown(q, s, its) == LatestAt(q, s, Len(q) + 1, its)

\* A response is announced after the item it follows, and ends later.
CreatedKnown(q, s, act, resp) ==
  \A k \in DOMAIN q : q[k].type = "created" =>
    /\ q[k].response \in DOMAIN resp
    /\ LatestAt(q, s, k, resp[q[k].response])
    /\ act = q[k].response \/ \E j \in (k + 1)..Len(q) : IsDone(q[j], q[k].response)

DoneKnown(q, s, resp, iss) ==
  \A k \in DOMAIN q : q[k].type = "done" =>
    /\ q[k].response \in DOMAIN resp
    /\ NotedAt(q, s, q[k].response, k, resp)
    /\ \A i \in DOMAIN q[k].calls :
         q[k].calls[i] \in DOMAIN iss /\ iss[q[k].calls[i]] = q[k].response

ActiveKnown(q, s, act, resp) ==
  act # 0 => act \in DOMAIN resp /\ NotedAt(q, s, act, Len(q) + 1, resp)

\* The last speech event says whether the user speaks.
SpeechKnown(q, s, sp) ==
  /\ (\A i \in DOMAIN q : ~IsSpeech(q[i])) => s.userSpeaking = sp
  /\ \A k \in DOMAIN q : IsSpeech(q[k]) /\ (\A i \in (k + 1)..Len(q) : ~IsSpeech(q[i])) =>
       (q[k].type = "speech_started" <=> sp)

QueueInv(q, s, sp, act, its, resp, iss) ==
  /\ ItemsKnown(q, s, its) /\ CreatedKnown(q, s, act, resp)
  /\ DoneKnown(q, s, resp, iss) /\ ActiveKnown(q, s, act, resp) /\ SpeechKnown(q, s, sp)

\* One more event changes nothing for those before it.
LEMMA PastIsPast ==
  ASSUME NEW q \in Seq(Event), NEW s, NEW e \in Event, NEW k \in 1..(Len(q) + 1)
  PROVE  /\ \A x : LatestAt(q, s, k, x) <=> LatestAt(Append(q, e), s, k, x)
         /\ \A r, resp : NotedAt(q, s, r, k, resp) <=> NotedAt(Append(q, e), s, r, k, resp)
<1>1. \A j \in 1..(k - 1) : Append(q, e)[j] = q[j]
  OBVIOUS
<1>2. ASSUME NEW j \in 1..(k - 1) PROVE \A i \in (j + 1)..(k - 1) : i \in 1..(k - 1)
  OBVIOUS
<1>3. ASSUME NEW x PROVE LatestAt(q, s, k, x) <=> LatestAt(Append(q, e), s, k, x)
  BY <1>1, <1>2 DEF LatestAt
<1>4. ASSUME NEW r, NEW resp
      PROVE  NotedAt(q, s, r, k, resp) <=> NotedAt(Append(q, e), s, r, k, resp)
  BY <1>1, <1>2 DEF NotedAt, IsDone
<1> QED BY <1>3, <1>4

\* An event that is neither an item nor the end of a response moves the view on.
LEMMA ViewMovesOn ==
  ASSUME NEW q \in Seq(Event), NEW s, NEW e \in Event
  PROVE  /\ \A x : e.type # "item" /\ LatestAt(q, s, Len(q) + 1, x) =>
                     LatestAt(Append(q, e), s, Len(q) + 2, x)
         /\ \A r, resp : ~IsDone(e, r) /\ NotedAt(q, s, r, Len(q) + 1, resp) =>
                           NotedAt(Append(q, e), s, r, Len(q) + 2, resp)
<1> DEFINE n == Len(q)
           p == Append(q, e)
<1>1. /\ n \in Nat /\ p[n + 1] = e
      /\ \A j \in 1..n : p[j] = q[j]
  OBVIOUS
<1>2. (n + 1) - 1 = n /\ (n + 2) - 1 = n + 1
  BY <1>1
<1> HIDE DEF n, p
<1>3. ASSUME NEW j \in 1..n
      PROVE  \A i \in (j + 1)..(n + 1) : i = n + 1 \/ (i \in 1..n /\ i \in (j + 1)..n)
  BY <1>1
<1>4. \A i \in 1..(n + 1) : i = n + 1 \/ i \in 1..n
  BY <1>1
<1>5. 1..n \subseteq 1..(n + 1)
  BY <1>1
<1>6. ASSUME NEW x, e.type # "item", LatestAt(q, s, n + 1, x) PROVE LatestAt(p, s, n + 2, x)
  BY <1>1, <1>2, <1>3, <1>4, <1>5, <1>6 DEF LatestAt
<1>7. ASSUME NEW r, NEW resp, ~IsDone(e, r), NotedAt(q, s, r, n + 1, resp)
      PROVE  NotedAt(p, s, r, n + 2, resp)
  BY <1>1, <1>2, <1>3, <1>4, <1>5, <1>7 DEF NotedAt
<1> QED BY <1>6, <1>7 DEF n, p

\* g says of every argument of f what f says.
Extends(f, g) == DOMAIN f \subseteq DOMAIN g /\ \A x \in DOMAIN f : g[x] = f[x]

\* An event that may follow q: a response announced right, or ended right.
RightlyCreated(q, s, e, now, resp) ==
  e.type = "created" =>
    /\ e.response \in DOMAIN resp /\ now = e.response
    /\ LatestAt(q, s, Len(q) + 1, resp[e.response])

RightlyDone(q, s, e, resp, iss) ==
  e.type = "done" =>
    /\ e.response \in DOMAIN resp /\ NotedAt(q, s, e.response, Len(q) + 1, resp)
    /\ \A i \in DOMAIN e.calls : e.calls[i] \in DOMAIN iss /\ iss[e.calls[i]] = e.response

\* The books about the events before stay right when one more is sent.
LEMMA BooksStay ==
  ASSUME NEW q \in Seq(Event), NEW s, NEW e \in Event, NEW act, NEW now, NEW resp, NEW iss,
         NEW more, Extends(resp, more), NEW calls, Extends(iss, calls),
         CreatedKnown(q, s, act, resp), DoneKnown(q, s, resp, iss),
         act # 0 => act = now \/ IsDone(e, act),
         RightlyCreated(q, s, e, now, more), RightlyDone(q, s, e, more, calls)
  PROVE  CreatedKnown(Append(q, e), s, now, more) /\ DoneKnown(Append(q, e), s, more, calls)
<1> DEFINE n == Len(q)
           p == Append(q, e)
<1>1. /\ n \in Nat /\ p[n + 1] = e /\ Len(p) = n + 1
      /\ DOMAIN p = 1..(n + 1) /\ DOMAIN q = 1..n
      /\ \A j \in 1..n : p[j] = q[j]
  OBVIOUS
<1>2. \A k \in 1..(n + 1) : k = n + 1 \/ k \in 1..n
  BY <1>1
<1>3. /\ \A k \in 1..(n + 1) : \A x : LatestAt(q, s, k, x) <=> LatestAt(p, s, k, x)
      /\ \A k \in 1..(n + 1) : \A r, f : NotedAt(q, s, r, k, f) <=> NotedAt(p, s, r, k, f)
  BY PastIsPast
<1>4. \A k \in 1..(n + 1) : \A r \in DOMAIN resp :
        NotedAt(q, s, r, k, resp) => NotedAt(q, s, r, k, more)
  BY DEF NotedAt, Extends
<1>5. 1..n \subseteq 1..(n + 1) /\ n + 1 \in 1..(n + 1)
  BY <1>1
<1> HIDE DEF n, p
<1>6. CreatedKnown(p, s, now, more)
  <2> SUFFICES ASSUME NEW k \in 1..(n + 1), p[k].type = "created"
               PROVE  /\ p[k].response \in DOMAIN more
                      /\ LatestAt(p, s, k, more[p[k].response])
                      /\ now = p[k].response
                           \/ \E j \in (k + 1)..(n + 1) : IsDone(p[j], p[k].response)
    BY <1>1 DEF CreatedKnown
  <2>1. CASE k = n + 1
    BY <1>1, <1>3, <2>1 DEF n, RightlyCreated, RightlyDone
  <2>2. CASE k \in 1..n
    <3> DEFINE r == q[k].response
    <3>1. /\ r \in DOMAIN resp /\ LatestAt(q, s, k, resp[r]) /\ p[k] = q[k]
          /\ act = r \/ \E j \in (k + 1)..n : IsDone(q[j], r)
      BY <1>1, <2>2 DEF CreatedKnown, n
    <3>2. LatestAt(p, s, k, more[r])
      BY <1>3, <1>5, <2>2, <3>1 DEF Extends
    <3>3. r # 0 => now = r \/ \E j \in (k + 1)..(n + 1) : IsDone(p[j], r)
      <4>1. CASE act = r
        <5>1. n + 1 \in (k + 1)..(n + 1)
          BY <1>1, <2>2
        <5> QED BY <1>1, <4>1, <5>1
      <4>2. ASSUME NEW j \in (k + 1)..n, IsDone(q[j], r)
            PROVE  \E i \in (k + 1)..(n + 1) : IsDone(p[i], r)
        <5>1. j \in 1..n /\ j \in (k + 1)..(n + 1)
          BY <1>1, <2>2
        <5> QED BY <1>1, <4>2, <5>1
      <4> QED BY <3>1, <4>1, <4>2
    <3>4. r # 0
      BY <1>1, <2>2, <3>1 DEF Event, Responses, n
    <3> QED BY <3>1, <3>2, <3>3, <3>4 DEF Extends
  <2> QED BY <1>2, <2>1, <2>2
<1>7. DoneKnown(p, s, more, calls)
  <2> SUFFICES ASSUME NEW k \in 1..(n + 1), p[k].type = "done"
               PROVE  /\ p[k].response \in DOMAIN more
                      /\ NotedAt(p, s, p[k].response, k, more)
                      /\ \A i \in DOMAIN p[k].calls :
                           /\ p[k].calls[i] \in DOMAIN calls
                           /\ calls[p[k].calls[i]] = p[k].response
    BY <1>1 DEF DoneKnown
  <2>1. CASE k = n + 1
    BY <1>1, <1>3, <2>1 DEF n, RightlyCreated, RightlyDone
  <2>2. CASE k \in 1..n
    <3> DEFINE r == q[k].response
    <3>1. /\ r \in DOMAIN resp /\ NotedAt(q, s, r, k, resp) /\ p[k] = q[k]
          /\ \A i \in DOMAIN q[k].calls : q[k].calls[i] \in DOMAIN iss /\ iss[q[k].calls[i]] = r
      BY <1>1, <2>2 DEF DoneKnown, n
    <3>2. NotedAt(p, s, r, k, more)
      BY <1>3, <1>4, <1>5, <2>2, <3>1
    <3> QED BY <3>1, <3>2 DEF Extends
  <2> QED BY <1>2, <2>1, <2>2
<1> QED BY <1>6, <1>7 DEF p

\* The same for who speaks: an event that is not about speech changes nothing.
LEMMA SpeechStays ==
  ASSUME NEW q \in Seq(Event), NEW s, NEW e \in Event, NEW sp,
         ~IsSpeech(e), SpeechKnown(q, s, sp)
  PROVE  SpeechKnown(Append(q, e), s, sp)
<1> DEFINE n == Len(q)
           p == Append(q, e)
<1>1. /\ n \in Nat /\ p[n + 1] = e /\ Len(p) = n + 1
      /\ DOMAIN p = 1..(n + 1) /\ DOMAIN q = 1..n
      /\ \A j \in 1..n : p[j] = q[j]
  OBVIOUS
<1>2. /\ \A k \in 1..(n + 1) : k = n + 1 \/ k \in 1..n
      /\ 1..n \subseteq 1..(n + 1)
      /\ \A k \in 1..n : (k + 1)..n \subseteq (k + 1)..(n + 1) /\ (k + 1)..n \subseteq 1..n
  BY <1>1
<1> HIDE DEF n, p
<1>3. ASSUME \A i \in 1..(n + 1) : ~IsSpeech(p[i]) PROVE s.userSpeaking = sp
  BY <1>1, <1>2, <1>3 DEF SpeechKnown, n
<1>4. ASSUME NEW k \in 1..(n + 1), IsSpeech(p[k]), \A i \in (k + 1)..(n + 1) : ~IsSpeech(p[i])
      PROVE  p[k].type = "speech_started" <=> sp
  <2>1. k \in 1..n
    BY <1>1, <1>2, <1>4
  <2>2. IsSpeech(q[k]) /\ \A i \in (k + 1)..n : ~IsSpeech(q[i])
    BY <1>1, <1>2, <1>4, <2>1
  <2> QED BY <1>1, <2>1, <2>2 DEF SpeechKnown, n
<1> QED BY <1>1, <1>3, <1>4 DEF SpeechKnown, p

LEMMA SpeechNoted ==
  ASSUME NEW q \in Seq(Event), NEW s, NEW e \in Event, IsSpeech(e),
         NEW now \in BOOLEAN, now <=> e.type = "speech_started"
  PROVE  SpeechKnown(Append(q, e), s, now)
<1> DEFINE n == Len(q)
           p == Append(q, e)
<1>1. /\ n \in Nat /\ p[n + 1] = e /\ Len(p) = n + 1 /\ DOMAIN p = 1..(n + 1)
      /\ n + 1 \in 1..(n + 1)
  OBVIOUS
<1>2. \A k \in 1..(n + 1) : k = n + 1 \/ n + 1 \in (k + 1)..(n + 1)
  BY <1>1
<1> HIDE DEF n, p
<1>3. ~(\A i \in DOMAIN p : ~IsSpeech(p[i]))
  BY <1>1
<1>4. ASSUME NEW k \in 1..(n + 1), IsSpeech(p[k]), \A i \in (k + 1)..(n + 1) : ~IsSpeech(p[i])
      PROVE  p[k].type = "speech_started" <=> now
  <2>1. k = n + 1
    BY <1>1, <1>2, <1>4
  <2> QED BY <1>1, <2>1
<1> QED BY <1>1, <1>3, <1>4 DEF SpeechKnown, p

----------------------------------------------------------------------------
(* What the provider sends, one event at a time.                           *)
LEMMA SpeechSent ==
  ASSUME NEW q \in Seq(Event), NEW s, NEW e \in Event, IsSpeech(e),
         NEW sp, NEW act, NEW its, NEW resp, NEW iss, QueueInv(q, s, sp, act, its, resp, iss),
         NEW now \in BOOLEAN, now <=> e.type = "speech_started"
  PROVE  QueueInv(Append(q, e), s, now, act, its, resp, iss)
<1>1. e.type \notin {"item", "created", "done"}
  BY DEF IsSpeech
<1>2. Len(Append(q, e)) + 1 = Len(q) + 2
  OBVIOUS
<1> DEFINE p == Append(q, e)
<1> HIDE DEF p
<1>3. ItemsKnown(p, s, its)
  BY <1>1, <1>2, ViewMovesOn DEF QueueInv, ItemsKnown, p
<1>4. ActiveKnown(p, s, act, resp)
  BY <1>1, <1>2, ViewMovesOn DEF QueueInv, ActiveKnown, IsDone, p
<1>5. CreatedKnown(p, s, act, resp) /\ DoneKnown(p, s, resp, iss)
  BY <1>1, BooksStay DEF QueueInv, Extends, RightlyCreated, RightlyDone, p
<1> QED BY <1>3, <1>4, <1>5, SpeechNoted DEF QueueInv, p

LEMMA ItemSent ==
  ASSUME NEW q \in Seq(Event), NEW s, NEW e \in Event, e.type = "item", NEW sp,
         NEW act, NEW its, NEW resp, NEW iss, QueueInv(q, s, sp, act, its, resp, iss)
  PROVE  QueueInv(Append(q, e), s, sp, act, e.item, resp, iss)
<1>1. e.type \notin {"created", "done"} /\ ~IsSpeech(e)
  BY DEF IsSpeech
<1>2. /\ Len(Append(q, e)) + 1 = Len(q) + 2 /\ Append(q, e)[Len(q) + 1] = e
      /\ (Len(q) + 2) - 1 = Len(q) + 1 /\ Len(q) + 1 \in 1..(Len(q) + 1)
      /\ (Len(q) + 1 + 1)..(Len(q) + 1) = {}
  OBVIOUS
<1> DEFINE p == Append(q, e)
<1> HIDE DEF p
<1>3. ItemsKnown(p, s, e.item)
  BY <1>2 DEF ItemsKnown, LatestAt, p
<1>4. ActiveKnown(p, s, act, resp)
  BY <1>1, <1>2, ViewMovesOn DEF QueueInv, ActiveKnown, IsDone, p
<1>5. CreatedKnown(p, s, act, resp) /\ DoneKnown(p, s, resp, iss)
  BY <1>1, BooksStay DEF QueueInv, Extends, RightlyCreated, RightlyDone, p
<1>6. SpeechKnown(p, s, sp)
  BY <1>1, SpeechStays DEF QueueInv, p
<1> QED BY <1>3, <1>4, <1>5, <1>6 DEF QueueInv, p

\* A response is created while none is being generated; it follows the latest item.
LEMMA CreatedSent ==
  ASSUME NEW q \in Seq(Event), NEW s, NEW e \in Event, e.type = "created", NEW sp,
         NEW its, NEW resp, NEW more, NEW iss, QueueInv(q, s, sp, 0, its, resp, iss),
         Extends(resp, more),
         e.response \in DOMAIN more, more[e.response] = its
  PROVE  QueueInv(Append(q, e), s, sp, e.response, its, more, iss)
<1>1. e.type \notin {"item", "done"} /\ ~IsSpeech(e)
  BY DEF IsSpeech
<1>2. /\ Len(Append(q, e)) + 1 = Len(q) + 2 /\ Append(q, e)[Len(q) + 1] = e
      /\ (Len(q) + 2) - 1 = Len(q) + 1 /\ Len(q) + 1 \in 1..(Len(q) + 1)
      /\ (Len(q) + 1 + 1)..(Len(q) + 1) = {}
  OBVIOUS
<1> DEFINE p == Append(q, e)
<1> HIDE DEF p
<1>3. ItemsKnown(p, s, its)
  BY <1>1, <1>2, ViewMovesOn DEF QueueInv, ItemsKnown, p
<1>4. NotedAt(p, s, e.response, Len(q) + 2, more)
  BY <1>2 DEF NotedAt, p
<1>5. CreatedKnown(p, s, e.response, more) /\ DoneKnown(p, s, more, iss)
  <2>1. LatestAt(q, s, Len(q) + 1, more[e.response])
    BY DEF QueueInv, ItemsKnown
  <2> QED BY <1>1, <2>1, BooksStay DEF QueueInv, Extends, RightlyCreated, RightlyDone, p
<1>6. SpeechKnown(p, s, sp)
  BY <1>1, SpeechStays DEF QueueInv, p
<1>7. ActiveKnown(p, s, e.response, more)
  BY <1>2, <1>4 DEF ActiveKnown, p
<1> QED BY <1>3, <1>5, <1>6, <1>7 DEF QueueInv, p

\* The response being generated ends, interrupted or with its tool calls.
LEMMA DoneSent ==
  ASSUME NEW q \in Seq(Event), NEW s, NEW e \in Event, e.type = "done", NEW sp,
         NEW its, NEW resp, NEW iss, NEW calls, e.response # 0,
         QueueInv(q, s, sp, e.response, its, resp, iss),
         Extends(iss, calls),
         \A i \in DOMAIN e.calls :
           e.calls[i] \in DOMAIN calls /\ calls[e.calls[i]] = e.response
  PROVE  QueueInv(Append(q, e), s, sp, 0, its, resp, calls)
<1>1. e.type \notin {"item", "created"} /\ ~IsSpeech(e) /\ IsDone(e, e.response)
  BY DEF IsSpeech, IsDone
<1>2. Len(Append(q, e)) + 1 = Len(q) + 2
  OBVIOUS
<1> DEFINE p == Append(q, e)
<1> HIDE DEF p
<1>3. ItemsKnown(p, s, its)
  BY <1>1, <1>2, ViewMovesOn DEF QueueInv, ItemsKnown, p
<1>4. CreatedKnown(p, s, 0, resp) /\ DoneKnown(p, s, resp, calls)
  <2>1. e.response \in DOMAIN resp /\ NotedAt(q, s, e.response, Len(q) + 1, resp)
    BY DEF QueueInv, ActiveKnown
  <2>2. CreatedKnown(q, s, e.response, resp) /\ DoneKnown(q, s, resp, iss)
    BY DEF QueueInv
  <2>3. /\ RightlyCreated(q, s, e, 0, resp) /\ RightlyDone(q, s, e, resp, calls)
        /\ Extends(resp, resp)
    BY <1>1, <2>1 DEF RightlyCreated, RightlyDone, Extends
  <2> QED BY <1>1, <2>2, <2>3, BooksStay DEF p
<1>5. SpeechKnown(p, s, sp)
  BY <1>1, SpeechStays DEF QueueInv, p
<1>6. ActiveKnown(p, s, 0, resp)
  BY DEF ActiveKnown
<1> QED BY <1>3, <1>4, <1>5, <1>6 DEF QueueInv, p

----------------------------------------------------------------------------
(* What the sideband handles.                                              *)

\* t is the view s with event e handled.
Viewed(s, e, t) ==
  /\ t.latestUserItemId = IF e.type = "item" THEN e.item ELSE s.latestUserItemId
  /\ t.userSpeaking = IF IsSpeech(e) THEN e.type = "speech_started" ELSE s.userSpeaking
  /\ t.responseUserItems =
       CASE e.type = "created" -> [s.responseUserItems EXCEPT ![e.response] = s.latestUserItemId]
         [] e.type = "done"    -> [s.responseUserItems EXCEPT ![e.response] = 0]
         [] OTHER              -> s.responseUserItems

LEMMA TailTyped ==
  ASSUME NEW q \in Seq(Event), q # <<>>
  PROVE  /\ Head(q) = q[1] /\ 1 \in DOMAIN q /\ q[1] \in Event /\ Len(q) \in Nat \ {0}
         /\ Tail(q) \in Seq(Event) /\ Len(Tail(q)) = Len(q) - 1
         /\ DOMAIN q = 1..Len(q) /\ DOMAIN Tail(q) = 1..(Len(q) - 1)
         /\ \A j \in 1..(Len(q) - 1) : Tail(q)[j] = q[j + 1]
  OBVIOUS

LEMMA LatestShifts ==
  ASSUME NEW q \in Seq(Event), q # <<>>, NEW s, NEW t, Viewed(s, q[1], t),
         NEW x, NEW k \in 2..(Len(q) + 1), LatestAt(q, s, k, x)
  PROVE  LatestAt(Tail(q), t, k - 1, x)
<1> DEFINE p == Tail(q)
           n == Len(q)
<1>1. /\ n \in Nat /\ \A j \in 1..(n - 1) : p[j] = q[j + 1]
      /\ k \in 2..(n + 1)
  BY TailTyped
<1> HIDE DEF p, n
<1>2. /\ \A i \in 1..((k - 1) - 1) : i + 1 \in 1..(k - 1) /\ i \in 1..(n - 1)
      /\ 1 \in 1..(k - 1)
  BY <1>1
<1>3. CASE /\ s.latestUserItemId = x
           /\ \A i \in 1..(k - 1) : q[i].type # "item"
  <2>1. t.latestUserItemId = x
    BY <1>2, <1>3 DEF Viewed
  <2> QED BY <1>1, <1>2, <1>3, <2>1 DEF LatestAt, p
<1>4. ASSUME NEW j \in 1..(k - 1), q[j].type = "item", q[j].item = x,
             \A i \in (j + 1)..(k - 1) : q[i].type # "item"
      PROVE  LatestAt(p, t, k - 1, x)
  <2>1. CASE j = 1
    <3>1. t.latestUserItemId = x
      BY <1>4, <2>1 DEF Viewed
    <3>2. \A i \in 1..((k - 1) - 1) : i + 1 \in (j + 1)..(k - 1)
      BY <1>1, <2>1
    <3> QED BY <1>1, <1>2, <1>4, <3>1, <3>2 DEF LatestAt
  <2>2. CASE j # 1
    <3>1. /\ j - 1 \in 1..((k - 1) - 1) /\ j - 1 \in 1..(n - 1) /\ (j - 1) + 1 = j
          /\ \A i \in ((j - 1) + 1)..((k - 1) - 1) :
               i + 1 \in (j + 1)..(k - 1) /\ i \in 1..(n - 1)
      BY <1>1, <2>2
    <3>2. p[j - 1] = q[j]
      BY <1>1, <3>1
    <3>3. \A i \in ((j - 1) + 1)..((k - 1) - 1) : p[i].type # "item"
      BY <1>1, <1>4, <3>1
    <3> QED BY <1>4, <3>1, <3>2, <3>3 DEF LatestAt
  <2> QED BY <2>1, <2>2
<1> QED BY <1>3, <1>4 DEF LatestAt, p

LEMMA NotedShifts ==
  ASSUME NEW q \in Seq(Event), q # <<>>, NEW s \in Fields, NEW t, Viewed(s, q[1], t),
         NEW r \in Responses, NEW resp, NEW k \in 2..(Len(q) + 1), NotedAt(q, s, r, k, resp),
         q[1].type = "created" /\ q[1].response = r => s.latestUserItemId = resp[r]
  PROVE  NotedAt(Tail(q), t, r, k - 1, resp)
<1> DEFINE p == Tail(q)
           n == Len(q)
<1>1. /\ n \in Nat /\ \A j \in 1..(n - 1) : p[j] = q[j + 1]
      /\ k \in 2..(n + 1)
  BY TailTyped
<1> HIDE DEF p, n
<1>2. /\ \A i \in 1..((k - 1) - 1) : i + 1 \in 1..(k - 1) /\ i \in 1..(n - 1)
      /\ 1 \in 1..(k - 1)
  BY <1>1
<1>0. r \in DOMAIN s.responseUserItems
  BY DEF Fields
<1>3. CASE /\ s.responseUserItems[r] = resp[r]
           /\ \A i \in 1..(k - 1) : ~IsDone(q[i], r)
  <2>1. t.responseUserItems[r] = resp[r]
    BY <1>0, <1>2, <1>3 DEF Viewed, IsDone
  <2>2. \A i \in 1..((k - 1) - 1) : ~IsDone(p[i], r)
    BY <1>1, <1>2, <1>3
  <2> QED BY <2>1, <2>2 DEF NotedAt, p
<1>4. ASSUME NEW j \in 1..(k - 1), q[j].type = "created", q[j].response = r,
             \A i \in (j + 1)..(k - 1) : ~IsDone(q[i], r)
      PROVE  NotedAt(p, t, r, k - 1, resp)
  <2>1. CASE j = 1
    <3>1. t.responseUserItems[r] = resp[r]
      BY <1>0, <1>4, <2>1 DEF Viewed
    <3>2. \A i \in 1..((k - 1) - 1) : i + 1 \in (j + 1)..(k - 1)
      BY <1>1, <2>1
    <3>3. \A i \in 1..((k - 1) - 1) : ~IsDone(p[i], r)
      BY <1>1, <1>2, <1>4, <3>2
    <3> QED BY <3>1, <3>3 DEF NotedAt
  <2>2. CASE j # 1
    <3>1. /\ j - 1 \in 1..((k - 1) - 1) /\ j - 1 \in 1..(n - 1) /\ (j - 1) + 1 = j
          /\ \A i \in ((j - 1) + 1)..((k - 1) - 1) :
               i + 1 \in (j + 1)..(k - 1) /\ i \in 1..(n - 1)
      BY <1>1, <2>2
    <3>2. p[j - 1] = q[j]
      BY <1>1, <3>1
    <3>3. \A i \in ((j - 1) + 1)..((k - 1) - 1) : ~IsDone(p[i], r)
      BY <1>1, <1>4, <3>1
    <3> QED BY <1>4, <3>1, <3>2, <3>3 DEF NotedAt
  <2> QED BY <2>1, <2>2
<1> QED BY <1>3, <1>4 DEF NotedAt, p

\* The books stay right when the sideband handles the first event under way.
LEMMA HeadHandled ==
  ASSUME NEW q \in Seq(Event), q # <<>>, NEW s \in Fields, NEW t, Viewed(s, q[1], t),
         NEW sp, NEW act, NEW its, NEW resp, NEW iss, DOMAIN resp \subseteq Responses,
         QueueInv(q, s, sp, act, its, resp, iss)
  PROVE  QueueInv(Tail(q), t, sp, act, its, resp, iss)
<1> DEFINE p == Tail(q)
           n == Len(q)
<1>1. /\ n \in Nat \ {0} /\ \A j \in 1..(n - 1) : p[j] = q[j + 1]
      /\ DOMAIN q = 1..n /\ DOMAIN p = 1..(n - 1) /\ Len(p) = n - 1 /\ q[1] \in Event
  BY TailTyped
<1>2. /\ \A x, k : k \in 2..(n + 1) /\ LatestAt(q, s, k, x) => LatestAt(p, t, k - 1, x)
  BY LatestShifts
<1>3. ASSUME q[1].type = "created" PROVE s.latestUserItemId = resp[q[1].response]
  <2>1. LatestAt(q, s, 1, resp[q[1].response])
    BY <1>1, <1>3 DEF QueueInv, CreatedKnown
  <2> QED BY <2>1 DEF LatestAt
<1>4. ASSUME NEW r \in DOMAIN resp, NEW k \in 2..(n + 1), NotedAt(q, s, r, k, resp)
      PROVE  NotedAt(p, t, r, k - 1, resp)
  <2>1. r \in Responses
    OBVIOUS
  <2> QED BY <1>3, <1>4, <2>1, NotedShifts
<1>5. /\ n + 1 \in 2..(n + 1) /\ (n + 1) - 1 = (n - 1) + 1
      /\ \A k \in 1..(n - 1) : k + 1 \in 1..n /\ k + 1 \in 2..(n + 1) /\ (k + 1) - 1 = k
  BY <1>1
<1> HIDE DEF p, n
<1>6. ItemsKnown(p, t, its)
  <2>1. LatestAt(q, s, n + 1, its)
    BY DEF QueueInv, ItemsKnown, n
  <2> QED BY <1>1, <1>2, <1>5, <2>1 DEF ItemsKnown
<1>7. CreatedKnown(p, t, act, resp)
  <2> SUFFICES ASSUME NEW k \in 1..(n - 1), p[k].type = "created"
               PROVE  /\ p[k].response \in DOMAIN resp
                      /\ LatestAt(p, t, k, resp[p[k].response])
                      /\ act = p[k].response
                           \/ \E j \in (k + 1)..(n - 1) : IsDone(p[j], p[k].response)
    BY <1>1 DEF CreatedKnown
  <2>1. p[k] = q[k + 1] /\ k + 1 \in 1..n
    BY <1>1, <1>5
  <2> DEFINE r == q[k + 1].response
  <2>2. /\ r \in DOMAIN resp /\ LatestAt(q, s, k + 1, resp[r])
        /\ act = r \/ \E j \in ((k + 1) + 1)..n : IsDone(q[j], r)
    BY <1>1, <2>1 DEF QueueInv, CreatedKnown, n
  <2>3. LatestAt(p, t, k, resp[r])
    BY <1>2, <1>5, <2>2
  <2>4. ASSUME NEW j \in ((k + 1) + 1)..n, IsDone(q[j], r)
        PROVE  \E i \in (k + 1)..(n - 1) : IsDone(p[i], r)
    <3>1. j - 1 \in (k + 1)..(n - 1) /\ j - 1 \in 1..(n - 1) /\ (j - 1) + 1 = j
      BY <1>1
    <3> QED BY <1>1, <2>4, <3>1
  <2> QED BY <2>1, <2>2, <2>3, <2>4
<1>8. DoneKnown(p, t, resp, iss)
  <2> SUFFICES ASSUME NEW k \in 1..(n - 1), p[k].type = "done"
               PROVE  /\ p[k].response \in DOMAIN resp
                      /\ NotedAt(p, t, p[k].response, k, resp)
                      /\ \A i \in DOMAIN p[k].calls :
                           /\ p[k].calls[i] \in DOMAIN iss
                           /\ iss[p[k].calls[i]] = p[k].response
    BY <1>1 DEF DoneKnown
  <2>1. p[k] = q[k + 1] /\ k + 1 \in 1..n
    BY <1>1, <1>5
  <2> DEFINE r == q[k + 1].response
  <2>2. /\ r \in DOMAIN resp /\ NotedAt(q, s, r, k + 1, resp)
        /\ \A i \in DOMAIN q[k + 1].calls :
             q[k + 1].calls[i] \in DOMAIN iss /\ iss[q[k + 1].calls[i]] = r
    BY <1>1, <2>1 DEF QueueInv, DoneKnown, n
  <2>3. NotedAt(p, t, r, k, resp)
    BY <1>4, <1>5, <2>2
  <2> QED BY <2>1, <2>2, <2>3
<1>9. ActiveKnown(p, t, act, resp)
  <2> SUFFICES ASSUME act # 0 PROVE act \in DOMAIN resp /\ NotedAt(p, t, act, (n - 1) + 1, resp)
    BY <1>1 DEF ActiveKnown
  <2>1. act \in DOMAIN resp /\ NotedAt(q, s, act, n + 1, resp)
    BY DEF QueueInv, ActiveKnown, n
  <2> QED BY <1>4, <1>5, <2>1
<1>10. SpeechKnown(p, t, sp)
  <2>1. ASSUME \A i \in 1..(n - 1) : ~IsSpeech(p[i]) PROVE t.userSpeaking = sp
    <3>1. \A i \in 2..n : i - 1 \in 1..(n - 1) /\ (i - 1) + 1 = i
      BY <1>1
    <3>2. \A i \in 2..n : ~IsSpeech(q[i])
      BY <1>1, <2>1, <3>1
    <3>3. CASE IsSpeech(q[1])
      <4>1. q[1].type = "speech_started" <=> sp
        <5>1. 1 \in 1..n /\ (1 + 1)..n = 2..n
          BY <1>1
        <5> QED BY <1>1, <3>2, <3>3, <5>1 DEF QueueInv, SpeechKnown, n
      <4>2. t.userSpeaking = (q[1].type = "speech_started")
        BY <3>3 DEF Viewed
      <4> QED BY <4>1, <4>2
    <3>4. CASE ~IsSpeech(q[1])
      <4>1. \A i \in 1..n : i = 1 \/ i \in 2..n
        BY <1>1
      <4>2. s.userSpeaking = sp
        BY <1>1, <3>2, <3>4, <4>1 DEF QueueInv, SpeechKnown
      <4> QED BY <3>4, <4>2 DEF Viewed
    <3> QED BY <3>3, <3>4
  <2>2. ASSUME NEW k \in 1..(n - 1), IsSpeech(p[k]), \A i \in (k + 1)..(n - 1) : ~IsSpeech(p[i])
        PROVE  p[k].type = "speech_started" <=> sp
    <3>1. /\ k + 1 \in 1..n
          /\ \A i \in ((k + 1) + 1)..n :
               i - 1 \in (k + 1)..(n - 1) /\ i - 1 \in 1..(n - 1) /\ (i - 1) + 1 = i
      BY <1>1
    <3>2. IsSpeech(q[k + 1]) /\ \A i \in ((k + 1) + 1)..n : ~IsSpeech(q[i])
      BY <1>1, <2>2, <3>1
    <3> QED BY <1>1, <2>2, <3>1, <3>2 DEF QueueInv, SpeechKnown, n
  <2> QED BY <1>1, <2>1, <2>2 DEF SpeechKnown
<1> QED BY <1>6, <1>7, <1>8, <1>9, <1>10 DEF QueueInv, p

\* Only the view matters to the books.
LEMMA SameView ==
  ASSUME NEW q, NEW s, NEW t, t.latestUserItemId = s.latestUserItemId,
         t.userSpeaking = s.userSpeaking, t.responseUserItems = s.responseUserItems,
         NEW sp, NEW act, NEW its, NEW resp, NEW iss, QueueInv(q, s, sp, act, its, resp, iss)
  PROVE  QueueInv(q, t, sp, act, its, resp, iss)
<1>1. /\ \A k, x : LatestAt(q, s, k, x) => LatestAt(q, t, k, x)
      /\ \A r, k, f : NotedAt(q, s, r, k, f) => NotedAt(q, t, r, k, f)
  BY DEF LatestAt, NotedAt
<1>2. ItemsKnown(q, t, its)
  BY <1>1 DEF QueueInv, ItemsKnown
<1>3. CreatedKnown(q, t, act, resp)
  BY <1>1 DEF QueueInv, CreatedKnown
<1>4. DoneKnown(q, t, resp, iss)
  BY <1>1 DEF QueueInv, DoneKnown
<1>5. ActiveKnown(q, t, act, resp)
  BY <1>1 DEF QueueInv, ActiveKnown
<1>6. SpeechKnown(q, t, sp)
  BY DEF QueueInv, SpeechKnown
<1> QED BY <1>2, <1>3, <1>4, <1>5, <1>6 DEF QueueInv

----------------------------------------------------------------------------
(* The inductive invariant.                                                *)

\* A sideband that believes a response is in progress is right, or will be told
\* of its end, or has asked for one; behind an open gate no result waits.
GateInv ==
  /\ ~sideband.closed /\ sideband.responseInProgress =>
       \/ active # 0 \/ HasCreate(sideband.socket)
       \/ \E k \in DOMAIN fromProvider : fromProvider[k].type = "done"
  /\ ~Gated(sideband) => sideband.pendingResults = <<>>

\* The provider's own books, and the calls handed over so far.
BookInv ==
  /\ speaking => items < MaxTurns
  /\ Len(responses) <= MaxResponses
  /\ \A c \in DOMAIN issued : issued[c] \in DOMAIN responses
  /\ \A i \in DOMAIN handed :
       /\ handed[i].call \in DOMAIN issued
       /\ handed[i].item = responses[issued[handed[i].call]]

QueueBooks == QueueInv(fromProvider, sideband, speaking, active, items, responses, issued)

SidebandInv == TypeOK /\ GateInv /\ BookInv /\ QueueBooks

LEMMA BoundsTyped ==
  /\ {MaxNotes, MaxCalls, MaxTurns, MaxResponses, MaxInjections} \subseteq Nat
  /\ MaxTurns \in Nat /\ MaxResponses \in Nat /\ MaxCalls \in Nat
  BY SidebandConstants DEF SidebandConstants

LEMMA InitHolds == Init => SidebandInv
<1> SUFFICES ASSUME Init PROVE SidebandInv
  OBVIOUS
<1> USE BoundsTyped
<1>1. <<>> \in Seq(Calls) /\ <<>> \in Seq(Message) /\ <<>> \in Seq(Event)
      /\ <<>> \in Seq(Items \cup {0}) /\ <<>> \in Seq(Responses)
      /\ <<>> \in Seq([call : Calls, item : Items \cup {0}])
  OBVIOUS
<1>2. sideband \in Fields
  <2>1. [r \in Responses |-> 0] \in [Responses -> Items \cup {0}]
    OBVIOUS
  <2> QED BY <1>1, <2>1 DEF Init, Fields, Notes
<1>3. TypeOK
  BY <1>1, <1>2 DEF Init, TypeOK
<1>4. GateInv /\ BookInv
  BY DEF Init, GateInv, BookInv
<1>5. QueueBooks
  <2> DEFINE q == fromProvider
  <2>1. /\ DOMAIN q = {} /\ Len(q) = 0 /\ 1..((0 + 1) - 1) = {} /\ active = 0
        /\ items = 0 /\ speaking = FALSE
    BY DEF Init
  <2>2. sideband.latestUserItemId = 0 /\ sideband.userSpeaking = FALSE
    BY DEF Init
  <2> HIDE DEF q
  <2>3. ItemsKnown(q, sideband, items)
    BY <2>1, <2>2 DEF ItemsKnown, LatestAt
  <2>4. CreatedKnown(q, sideband, active, responses) /\ DoneKnown(q, sideband, responses, issued)
    BY <2>1 DEF CreatedKnown, DoneKnown
  <2>5. ActiveKnown(q, sideband, active, responses) /\ SpeechKnown(q, sideband, speaking)
    BY <2>1, <2>2 DEF ActiveKnown, SpeechKnown
  <2> QED BY <2>3, <2>4, <2>5 DEF QueueBooks, QueueInv, q
<1> QED BY <1>3, <1>4, <1>5 DEF SidebandInv

\* The parts the sideband keeps when it only sends: one field of the gate apart.
LEMMA SendKeeps ==
  ASSUME SidebandInv, sideband' \in Fields, Sent(sideband, sideband'),
         ~Gated(sideband') => sideband'.pendingResults = <<>>,
         UNCHANGED <<handed, fromProvider, provider>>, injected' \in Nat
  PROVE  SidebandInv'
<1> USE DEF SidebandInv
<1>1. TypeOK'
  BY DEF TypeOK, provider
<1>2. GateInv'
  <2>1. /\ active' = active /\ fromProvider' = fromProvider
        /\ HasCreate(sideband.socket) => HasCreate(sideband'.socket)
        /\ sideband'.responseInProgress =>
             sideband.responseInProgress \/ HasCreate(sideband'.socket)
    BY DEF Sent, provider
  <2>2. sideband.closed => sideband'.closed
    BY DEF Sent
  <2> QED BY <2>1, <2>2 DEF GateInv
<1>3. BookInv'
  BY DEF BookInv, provider
<1>4. QueueBooks'
  <2>1. QueueInv(fromProvider, sideband', speaking, active, items, responses, issued)
    BY SameView DEF QueueBooks, Sent
  <2> QED BY <2>1 DEF QueueBooks, provider
<1> QED BY <1>1, <1>2, <1>3, <1>4

LEMMA EventTyped ==
  ASSUME NEW e \in Event
  PROVE  /\ e.type \in {"speech_started", "speech_stopped", "item", "created", "done"}
         /\ e.type = "item" => e.item \in Items
         /\ e.type = "created" => e.response \in Responses
         /\ e.type = "done" => e.response \in Responses /\ e.calls \in Seq(Calls)
  BY DEF Event

\* What handling one event does to the gate and to the view.
LEMMA EventHandled ==
  ASSUME NEW s \in Fields, NEW e \in Event, NEW t \in Handle(s, e),
         ~Gated(s) => s.pendingResults = <<>>
  PROVE  /\ t \in Fields /\ Viewed(s, e, t) /\ (s.closed => t.closed)
         /\ HasCreate(s.socket) => HasCreate(t.socket)
         /\ t.responseInProgress =>
              \/ HasCreate(t.socket) \/ e.type = "created"
              \/ s.responseInProgress /\ e.type # "done"
         /\ ~Gated(t) => t.pendingResults = <<>>
<1>1. CASE e.type = "speech_started"
  <2>1. t = [s EXCEPT !.userSpeaking = TRUE]
    BY <1>1 DEF Handle
  <2>2. t \in Fields
    BY <2>1 DEF Fields
  <2>3. /\ t.userSpeaking = TRUE /\ t.socket = s.socket /\ t.closed = s.closed
        /\ t.latestUserItemId = s.latestUserItemId /\ t.responseUserItems = s.responseUserItems
        /\ t.responseInProgress = s.responseInProgress
    BY <2>1 DEF Fields
  <2> QED BY <1>1, <2>2, <2>3 DEF Viewed, Gated, IsSpeech
<1>2. CASE e.type = "speech_stopped"
  <2> DEFINE u == [s EXCEPT !.userSpeaking = FALSE]
  <2>1. t \in FlushResults(u)
    BY <1>2 DEF Handle
  <2>2. /\ u \in Fields /\ u.userSpeaking = FALSE /\ u.socket = s.socket /\ u.closed = s.closed
        /\ u.latestUserItemId = s.latestUserItemId /\ u.responseUserItems = s.responseUserItems
        /\ u.responseInProgress = s.responseInProgress
    BY DEF Fields
  <2> HIDE DEF u
  <2>3. Sent(u, t) /\ (~Gated(t) => t.pendingResults = <<>>)
    BY <2>1, <2>2, Flushed
  <2> QED BY <1>2, <2>2, <2>3 DEF Viewed, Sent, IsSpeech
<1>3. CASE e.type = "item"
  <2>1. t = [s EXCEPT !.latestUserItemId = e.item]
    BY <1>3 DEF Handle
  <2>2. t \in Fields
    BY <1>3, <2>1, EventTyped DEF Fields
  <2>3. /\ t.userSpeaking = s.userSpeaking /\ t.socket = s.socket /\ t.closed = s.closed
        /\ t.latestUserItemId = e.item /\ t.responseUserItems = s.responseUserItems
        /\ t.responseInProgress = s.responseInProgress /\ t.pendingResults = s.pendingResults
    BY <2>1 DEF Fields
  <2> QED BY <1>3, <2>2, <2>3 DEF Viewed, Gated, IsSpeech
<1>4. CASE e.type = "created"
  <2> DEFINE noted == [s.responseUserItems EXCEPT ![e.response] = s.latestUserItemId]
  <2>1. t = [s EXCEPT !.responseInProgress = TRUE, !.responseUserItems = noted]
    BY <1>4 DEF Handle
  <2>2. noted \in [Responses -> Items \cup {0}]
    BY <1>4, EventTyped DEF Fields
  <2>3. Viewed(s, e, [s EXCEPT !.responseInProgress = TRUE, !.responseUserItems = noted])
    BY <1>4 DEF Viewed, IsSpeech, Fields
  <2> HIDE DEF noted
  <2>4. t \in Fields
    BY <2>1, <2>2 DEF Fields
  <2>5. t.socket = s.socket /\ t.closed = s.closed /\ t.responseInProgress = TRUE
    BY <2>1 DEF Fields
  <2> QED BY <1>4, <2>1, <2>3, <2>4, <2>5 DEF Gated
<1>5. CASE e.type = "done"
  <2>1. t \in ResponseDone(s, e)
    BY <1>5 DEF Handle
  <2>2. e.response \in Responses /\ e.calls \in Seq(Calls)
    BY <1>5, EventTyped
  <2> DEFINE u == Ended(s, e)
  <2>3. Sent(u, t) /\ (~Gated(t) => t.pendingResults = <<>>)
    BY <2>1, <2>2, ResponseHandled
  <2>4. /\ u.userSpeaking = s.userSpeaking /\ u.socket = s.socket /\ u.closed = s.closed
        /\ u.latestUserItemId = s.latestUserItemId /\ u.responseInProgress = FALSE
        /\ u.responseUserItems = [s.responseUserItems EXCEPT ![e.response] = 0]
    BY DEF Ended, Fields
  <2> HIDE DEF u
  <2> QED BY <1>5, <2>3, <2>4 DEF Viewed, Sent, IsSpeech
<1> QED BY <1>1, <1>2, <1>3, <1>4, <1>5, EventTyped

LEMMA HandleMessageKeeps == SidebandInv /\ HandleMessage => SidebandInv'
<1> SUFFICES ASSUME SidebandInv, HandleMessage PROVE SidebandInv'
  OBVIOUS
<1> DEFINE s == sideband
           t == sideband'
           q == fromProvider
           e == Head(fromProvider)
<1>1. /\ s \in Fields /\ q \in Seq(Event) /\ q # <<>> /\ ~s.closed
      /\ t \in Handle(s, e) /\ fromProvider' = Tail(q)
      /\ handed' = IF e.type # "done" THEN handed
                   ELSE handed \o [i \in DOMAIN e.calls |->
                                     [call |-> e.calls[i], item |-> UserItemOf(s, e)]]
      /\ UNCHANGED <<injected, provider>>
  BY DEF SidebandInv, TypeOK, HandleMessage
<1>2. e = q[1] /\ e \in Event /\ Tail(q) \in Seq(Event) /\ 1 \in DOMAIN q
      /\ Len(q) \in Nat \ {0}
  BY <1>1, TailTyped
<1>3. ~Gated(s) => s.pendingResults = <<>>
  BY DEF SidebandInv, GateInv
<1>4. speaking \in BOOLEAN /\ DOMAIN responses \subseteq Responses
      /\ DOMAIN issued \subseteq Nat /\ active \in Nat
  BY BoundsTyped DEF SidebandInv, TypeOK, BookInv, Responses
<1>5. QueueInv(q, s, speaking, active, items, responses, issued)
  BY DEF SidebandInv, QueueBooks
<1> HIDE DEF s, t, q, e
<1>6. /\ t \in Fields /\ Viewed(s, e, t) /\ (~Gated(t) => t.pendingResults = <<>>)
      /\ HasCreate(s.socket) => HasCreate(t.socket)
      /\ t.responseInProgress =>
           \/ HasCreate(t.socket) \/ e.type = "created"
           \/ s.responseInProgress /\ e.type # "done"
  BY <1>1, <1>2, <1>3, EventHandled
<1>7. QueueBooks'
  <2>1. QueueInv(Tail(q), t, speaking, active, items, responses, issued)
    BY <1>1, <1>2, <1>4, <1>5, <1>6, HeadHandled
  <2> QED BY <1>1, <2>1 DEF QueueBooks, provider, t
\* A call handed over now is the response's, and the response's item is still noted.
<1>8. ASSUME e.type = "done"
      PROVE  /\ e.response \in Responses /\ e.calls \in Seq(Calls)
             /\ UserItemOf(s, e) = responses[e.response]
             /\ UserItemOf(s, e) \in Items \cup {0}
             /\ \A i \in DOMAIN e.calls :
                  e.calls[i] \in DOMAIN issued /\ issued[e.calls[i]] = e.response
  <2>1. e.response \in Responses /\ e.calls \in Seq(Calls)
    BY <1>2, <1>8, EventTyped
  <2>2. /\ NotedAt(q, s, e.response, 1, responses)
        /\ \A i \in DOMAIN e.calls :
             e.calls[i] \in DOMAIN issued /\ issued[e.calls[i]] = e.response
    BY <1>2, <1>5, <1>8 DEF QueueInv, DoneKnown
  <2>3. UserItemOf(s, e) = responses[e.response]
    BY <2>2 DEF NotedAt, UserItemOf
  <2>4. UserItemOf(s, e) \in Items \cup {0}
    BY <1>1, <2>1 DEF UserItemOf, Fields
  <2> QED BY <2>1, <2>2, <2>3, <2>4
<1> DEFINE Handed == [call : Calls, item : Items \cup {0}]
           more == [i \in DOMAIN e.calls |-> [call |-> e.calls[i], item |-> UserItemOf(s, e)]]
<1>9. handed \in Seq(Handed)
  BY DEF SidebandInv, TypeOK
<1>10. e.type = "done" => more \in Seq(Handed) /\ DOMAIN more = DOMAIN e.calls
  <2> SUFFICES ASSUME e.type = "done" PROVE more \in Seq(Handed) /\ DOMAIN more = DOMAIN e.calls
    OBVIOUS
  <2>1. Len(e.calls) \in Nat /\ DOMAIN e.calls = 1..Len(e.calls)
    BY <1>8
  <2>2. \A i \in DOMAIN e.calls : [call |-> e.calls[i], item |-> UserItemOf(s, e)] \in Handed
    BY <1>8, <2>1
  <2>3. more \in [1..Len(e.calls) -> Handed]
    BY <2>1, <2>2
  <2> QED BY <2>1, <2>3
<1>11. handed' = handed \/ (e.type = "done" /\ handed' = handed \o more)
  BY <1>1
<1>12. handed' \in Seq(Handed)
  <2> HIDE DEF more, Handed
  <2>1. CASE handed' = handed
    BY <1>9, <2>1
  <2>2. CASE e.type = "done" /\ handed' = handed \o more
    <3>1. more \in Seq(Handed)
      BY <1>10, <2>2
    <3>2. handed \o more \in Seq(Handed)
      BY <1>9, <3>1
    <3> QED BY <2>2, <3>2
  <2> QED BY <1>11, <2>1, <2>2
<1>13. TypeOK'
  BY <1>1, <1>2, <1>6, <1>12 DEF SidebandInv, TypeOK, provider, t
<1>14. BookInv'
  <2>1. /\ \A i \in DOMAIN handed :
             handed[i].call \in DOMAIN issued /\ handed[i].item = responses[issued[handed[i].call]]
        /\ (speaking => items < MaxTurns) /\ Len(responses) <= MaxResponses
        /\ \A c \in DOMAIN issued : issued[c] \in DOMAIN responses
    BY DEF SidebandInv, BookInv
  <2>2. ASSUME NEW i \in DOMAIN handed'
        PROVE  /\ handed'[i].call \in DOMAIN issued
               /\ handed'[i].item = responses[issued[handed'[i].call]]
    <3>1. CASE handed' = handed
      BY <2>1, <3>1
    <3>2. CASE e.type = "done" /\ handed' = handed \o more
      <4>1. \A j \in DOMAIN more : /\ more[j].call = e.calls[j]
                                   /\ more[j].item = UserItemOf(s, e)
        OBVIOUS
      <4> HIDE DEF more
      <4>2. more \in Seq(Handed) /\ DOMAIN more = DOMAIN e.calls
        BY <1>10, <3>2
      <4>3. CASE i \in DOMAIN handed
        BY <1>9, <2>1, <3>2, <4>2, <4>3
      <4>4. CASE i \notin DOMAIN handed
        <5>1. i - Len(handed) \in DOMAIN more /\ handed'[i] = more[i - Len(handed)]
          BY <1>9, <3>2, <4>2, <4>4
        <5> QED BY <1>8, <3>2, <4>1, <4>2, <5>1
      <4> QED BY <4>3, <4>4
    <3> QED BY <1>11, <3>1, <3>2
  <2> QED BY <1>1, <2>1, <2>2 DEF BookInv, provider
<1>15. GateInv'
  <2>1. \A k \in DOMAIN q : k # 1 => k - 1 \in DOMAIN Tail(q) /\ Tail(q)[k - 1] = q[k]
    BY <1>1, TailTyped
  <2>2. ASSUME t.responseInProgress
        PROVE  \/ active # 0 \/ HasCreate(t.socket)
               \/ \E k \in DOMAIN Tail(q) : Tail(q)[k].type = "done"
    <3>1. CASE e.type = "created"
      <4>1. PICK r : r = e.response /\ r \in DOMAIN responses
              /\ (active = r \/ \E j \in 2..Len(q) : IsDone(q[j], r))
        <5>1. 1 + 1 = 2
          OBVIOUS
        <5> QED BY <1>2, <1>5, <3>1, <5>1 DEF QueueInv, CreatedKnown
      <4>2. CASE active = r
        BY <1>4, <4>1, <4>2, BoundsTyped DEF Responses
      <4>3. ASSUME NEW j \in 2..Len(q), IsDone(q[j], r)
            PROVE  \E k \in DOMAIN Tail(q) : Tail(q)[k].type = "done"
        <5>1. j \in DOMAIN q /\ j # 1
          BY <1>1, <1>2
        <5> QED BY <2>1, <4>3, <5>1 DEF IsDone
      <4> QED BY <4>1, <4>2, <4>3
    <3>2. CASE s.responseInProgress /\ e.type # "done"
      <4>1. \/ active # 0 \/ HasCreate(s.socket)
            \/ \E k \in DOMAIN q : q[k].type = "done"
        BY <1>1, <3>2 DEF SidebandInv, GateInv, s, q
      <4> QED BY <1>2, <1>6, <2>1, <3>2, <4>1
    <3> QED BY <1>6, <2>2, <3>1, <3>2
  <2> QED BY <1>1, <1>6, <2>2 DEF GateInv, provider, t
<1> QED BY <1>7, <1>13, <1>14, <1>15 DEF SidebandInv

LEMMA AnswerKeeps == SidebandInv /\ Answer => SidebandInv'
<1> SUFFICES ASSUME SidebandInv, Answer PROVE SidebandInv'
  OBVIOUS
<1>1. sideband \in Fields /\ ~sideband.closed /\ handed \in Seq([call : Calls, item : Items \cup {0}])
      /\ injected \in Nat
  BY DEF SidebandInv, TypeOK, Answer
<1>2. PICK c \in Awaited : sideband' \in SendFunctionResult(sideband, c)
  BY DEF Answer
<1>3. c \in Calls
  <2>1. PICK i \in DOMAIN handed : c = handed[i].call
    BY <1>2 DEF Awaited
  <2> DEFINE Handed == [call : Calls, item : Items \cup {0}]
  <2>2. handed[i] \in Handed
    <3> HIDE DEF Handed
    <3>1. handed \in Seq(Handed)
      BY <1>1 DEF Handed
    <3> QED BY <3>1
  <2> QED BY <2>1, <2>2
<1>4. Sent(sideband, sideband') /\ (~Gated(sideband') => sideband'.pendingResults = <<>>)
  BY <1>1, <1>2, <1>3, ResultTaken
<1>5. sideband' \in Fields /\ UNCHANGED <<handed, fromProvider, provider>> /\ injected' \in Nat
  BY <1>1, <1>4 DEF Answer, Sent
<1> QED BY <1>4, <1>5, SendKeeps

LEMMA InjectKeeps == SidebandInv /\ Inject => SidebandInv'
<1> SUFFICES ASSUME SidebandInv, Inject PROVE SidebandInv'
  OBVIOUS
<1>1. sideband \in Fields /\ injected \in Nat /\ (~Gated(sideband) => sideband.pendingResults = <<>>)
  BY DEF SidebandInv, TypeOK, GateInv
<1>2. /\ Sent(sideband, sideband') /\ sideband'.closed = sideband.closed
      /\ sideband'.pendingResults = sideband.pendingResults
      /\ sideband'.responseInProgress = sideband.responseInProgress
  BY <1>1, NoteTaken DEF Inject
<1>3. ~Gated(sideband') => sideband'.pendingResults = <<>>
  BY <1>1, <1>2 DEF Gated, Sent
<1>4. sideband' \in Fields /\ UNCHANGED <<handed, fromProvider, provider>> /\ injected' \in Nat
  BY <1>1, <1>2 DEF Inject, Sent
<1> QED BY <1>2, <1>3, <1>4, SendKeeps

LEMMA CloseKeeps == SidebandInv /\ Close => SidebandInv'
<1> SUFFICES ASSUME SidebandInv, Close PROVE SidebandInv'
  OBVIOUS
<1>1. sideband \in Fields /\ injected \in Nat
  BY DEF SidebandInv, TypeOK
<1>2. sideband' = [sideband EXCEPT !.closed = TRUE]
  BY DEF Close
<1>3. sideband' \in Fields /\ Sent(sideband, sideband') /\ sideband'.closed
  BY <1>1, <1>2 DEF Fields, Sent
<1>4. UNCHANGED <<handed, fromProvider, provider>> /\ injected' \in Nat
  BY <1>1 DEF Close
<1> QED BY <1>3, <1>4, SendKeeps DEF Gated

LEMMA UserStartsKeeps == SidebandInv /\ UserStarts => SidebandInv'
<1> SUFFICES ASSUME SidebandInv, UserStarts PROVE SidebandInv'
  OBVIOUS
<1> DEFINE q == fromProvider
           e == [type |-> "speech_started"]
           d == [type |-> "done", response |-> active, calls |-> <<>>]
<1>1. /\ q \in Seq(Event) /\ active \in Responses \cup {0} /\ speaking \in BOOLEAN
      /\ QueueInv(q, sideband, speaking, active, items, responses, issued)
  BY DEF SidebandInv, TypeOK, QueueBooks
<1>2. e \in Event /\ IsSpeech(e) /\ e.type = "speech_started"
  BY DEF Event, IsSpeech
<1>3. QueueInv(Append(q, e), sideband, TRUE, active, items, responses, issued)
  BY <1>1, <1>2, SpeechSent
<1>4. Append(q, e) \in Seq(Event)
  BY <1>1, <1>2
<1>5. /\ fromProvider' \in Seq(Event)
      /\ QueueInv(fromProvider', sideband, TRUE, 0, items, responses, issued)
      /\ \A k \in DOMAIN q : k \in DOMAIN fromProvider' /\ fromProvider'[k] = q[k]
      /\ active # 0 => \E k \in DOMAIN fromProvider' : fromProvider'[k].type = "done"
  <2>1. CASE active = 0
    <3>1. fromProvider' = Append(q, e)
      BY <1>1, <1>2, <2>1 DEF UserStarts, Emit
    <3> HIDE DEF e
    <3>2. \A k \in DOMAIN q : k \in DOMAIN Append(q, e) /\ Append(q, e)[k] = q[k]
      BY <1>1, <1>2
    <3>3. QueueInv(Append(q, e), sideband, TRUE, 0, items, responses, issued)
      BY <1>3, <2>1
    <3> QED BY <1>4, <2>1, <3>1, <3>2, <3>3
  <2>2. CASE active # 0
    <3>1. d \in Event /\ d.type = "done" /\ d.response = active /\ d.calls = <<>>
      <4>1. <<>> \in Seq(Calls)
        OBVIOUS
      <4> QED BY <1>1, <2>2, <4>1 DEF Event
    <3>2. fromProvider' = q \o (<<e>> \o <<d>>)
      BY <2>2 DEF UserStarts, Emit
    <3> HIDE DEF e, d
    <3>3. fromProvider' = Append(Append(q, e), d)
      BY <1>1, <1>2, <3>1, <3>2
    <3>4. Extends(issued, issued)
      BY DEF Extends
    <3>5. QueueInv(Append(Append(q, e), d), sideband, TRUE, 0, items, responses, issued)
      <4> DEFINE p == Append(q, e)
      <4>1. p \in Seq(Event) /\ QueueInv(p, sideband, TRUE, d.response, items, responses, issued)
        BY <1>3, <1>4, <3>1
      <4>2. \A i \in DOMAIN d.calls : d.calls[i] \in DOMAIN issued /\ issued[d.calls[i]] = d.response
        BY <3>1
      <4> HIDE DEF p
      <4>3. QueueInv(Append(p, d), sideband, TRUE, 0, items, responses, issued)
        BY <2>2, <3>1, <3>4, <4>1, <4>2, DoneSent
      <4> QED BY <4>3 DEF p
    <3>6. /\ Append(Append(q, e), d) \in Seq(Event)
          /\ \A k \in DOMAIN q : /\ k \in DOMAIN Append(Append(q, e), d)
                                 /\ Append(Append(q, e), d)[k] = q[k]
          /\ Len(q) + 2 \in DOMAIN Append(Append(q, e), d)
          /\ Append(Append(q, e), d)[Len(q) + 2] = d
      BY <1>1, <1>2, <1>4, <3>1
    <3> QED BY <3>1, <3>3, <3>5, <3>6
  <2> QED BY <2>1, <2>2
<1>6. /\ speaking' = TRUE /\ active' = 0 /\ items < MaxTurns
      /\ UNCHANGED <<sideband, handed, injected, items, responses, issued, conversation>>
  BY DEF UserStarts
<1>7. TypeOK'
  BY <1>5, <1>6 DEF SidebandInv, TypeOK
<1>8. GateInv'
  BY <1>5, <1>6 DEF SidebandInv, GateInv
<1>9. BookInv'
  BY <1>6 DEF SidebandInv, BookInv
<1>10. QueueBooks'
  BY <1>5, <1>6 DEF QueueBooks
<1> QED BY <1>7, <1>8, <1>9, <1>10 DEF SidebandInv

\* A response created now: it follows the latest item, and the books grow by it.
Announced(resp, its, r, more, e) ==
  /\ Len(resp) < MaxResponses /\ r = Len(resp) + 1 /\ more = Append(resp, its)
  /\ e = [type |-> "created", response |-> r]

LEMMA ResponseAnnounced ==
  ASSUME NEW q \in Seq(Event), NEW s, NEW sp, NEW its \in Items \cup {0},
         NEW resp \in Seq(Items \cup {0}), NEW iss, NEW r, NEW more, NEW e,
         Announced(resp, its, r, more, e), QueueInv(q, s, sp, 0, its, resp, iss)
  PROVE  /\ e \in Event /\ Append(q, e) \in Seq(Event) /\ r \in Responses
         /\ Extends(resp, more) /\ more \in Seq(Items \cup {0}) /\ Len(more) <= MaxResponses
         /\ QueueInv(Append(q, e), s, sp, r, its, more, iss)
<1>1. r \in Responses
  BY BoundsTyped DEF Responses, Announced
<1>2. e \in Event /\ e.type = "created" /\ e.response = r
  BY <1>1 DEF Event, Announced
<1>3. /\ more \in Seq(Items \cup {0}) /\ Extends(resp, more) /\ Len(more) <= MaxResponses
      /\ r \in DOMAIN more /\ more[r] = its
  BY BoundsTyped DEF Extends, Announced
<1>4. Append(q, e) \in Seq(Event)
  BY <1>2
<1>5. QueueInv(Append(q, e), s, sp, e.response, its, more, iss)
  BY <1>2, <1>3, CreatedSent
<1> QED BY <1>1, <1>2, <1>3, <1>4, <1>5

LEMMA UserStopsKeeps == SidebandInv /\ UserStops => SidebandInv'
<1> SUFFICES ASSUME SidebandInv, UserStops PROVE SidebandInv'
  OBVIOUS
<1> DEFINE q == fromProvider
           e == [type |-> "speech_stopped"]
           i == [type |-> "item", item |-> items + 1]
           c == [type |-> "created", response |-> Len(responses) + 1]
           p == Append(Append(q, e), i)
<1>1. /\ q \in Seq(Event) /\ active \in Responses \cup {0} /\ items \in Items \cup {0}
      /\ responses \in Seq(Items \cup {0}) /\ speaking /\ items < MaxTurns
      /\ QueueInv(q, sideband, speaking, active, items, responses, issued)
  BY DEF SidebandInv, TypeOK, BookInv, QueueBooks, UserStops
<1>2. items + 1 \in Items /\ items + 1 \in Items \cup {0}
  BY <1>1, BoundsTyped DEF Items
<1>3. /\ e \in Event /\ IsSpeech(e) /\ ~(e.type = "speech_started")
      /\ i \in Event /\ i.type = "item" /\ i.item = items + 1
  BY <1>2 DEF Event, IsSpeech
<1>4. /\ Append(q, e) \in Seq(Event)
      /\ QueueInv(Append(q, e), sideband, FALSE, active, items, responses, issued)
  <2> HIDE DEF e
  <2>1. QueueInv(Append(q, e), sideband, FALSE, active, items, responses, issued)
    BY <1>1, <1>3, SpeechSent
  <2>2. Append(q, e) \in Seq(Event)
    <3>1. q \in Seq(Event) /\ e \in Event
      BY <1>1, <1>3
    <3> HIDE DEF q
    <3> QED BY <3>1
  <2> QED BY <2>1, <2>2
<1>5. p \in Seq(Event) /\ QueueInv(p, sideband, FALSE, active, items + 1, responses, issued)
  <2> DEFINE o == Append(q, e)
  <2>1. o \in Seq(Event) /\ QueueInv(o, sideband, FALSE, active, items, responses, issued)
    BY <1>4
  <2> HIDE DEF o, i
  <2>2. QueueInv(Append(o, i), sideband, FALSE, active, i.item, responses, issued)
    BY <1>3, <2>1, ItemSent
  <2>3. Append(o, i) \in Seq(Event)
    BY <1>3, <2>1
  <2> QED BY <1>3, <2>2, <2>3 DEF o
<1>6. q \o <<e, i>> = p /\ Append(q \o <<e, i>>, c) = Append(p, c)
      /\ q \o Append(<<e, i>>, c) = Append(p, c)
  <2> HIDE DEF e, i, c
  <2> QED BY <1>1
<1>7. \A k \in DOMAIN q : k \in DOMAIN p /\ p[k] = q[k]
  <2> HIDE DEF e, i
  <2> QED BY <1>1, <1>3
<1>8. /\ speaking' = FALSE /\ items' = items + 1
      /\ UNCHANGED <<sideband, handed, injected, issued, conversation>>
  BY DEF UserStops
<1>9. CASE /\ active = 0 /\ Created(items + 1)
           /\ Emit(Append(<<e, i>>, c))
  <2>1. /\ fromProvider' = Append(p, c) /\ Len(responses) < MaxResponses
        /\ responses' = Append(responses, items + 1) /\ active' = Len(responses) + 1
    BY <1>6, <1>9 DEF Created, Emit
  <2>2. QueueInv(p, sideband, FALSE, 0, items + 1, responses, issued)
    BY <1>5, <1>9
  <2>3. c = [type |-> "created", response |-> active']
    BY <2>1
  <2> HIDE DEF p, c
  <2>4. /\ Append(p, c) \in Seq(Event) /\ Extends(responses, responses')
        /\ responses' \in Seq(Items \cup {0}) /\ active' \in Responses /\ Len(responses') <= MaxResponses
        /\ QueueInv(Append(p, c), sideband, FALSE, active', items + 1, responses', issued)
    <3>1. Announced(responses, items + 1, active', responses', c)
      BY <2>1, <2>3 DEF Announced
    <3>2. items + 1 \in Items \cup {0} /\ responses \in Seq(Items \cup {0}) /\ p \in Seq(Event)
      BY <1>1, <1>2, <1>5
    <3> QED BY <2>2, <3>1, <3>2, ResponseAnnounced
  <2>5. TypeOK'
    BY <1>2, <1>8, <2>1, <2>4 DEF SidebandInv, TypeOK
  <2>6. GateInv'
    <3>1. active' # 0
      BY <2>4, BoundsTyped DEF Responses
    <3> QED BY <1>8, <3>1 DEF SidebandInv, GateInv
  <2>7. BookInv'
    BY <1>8, <2>4 DEF SidebandInv, BookInv, Extends
  <2>8. QueueBooks'
    BY <1>8, <2>1, <2>4 DEF QueueBooks
  <2> QED BY <2>5, <2>6, <2>7, <2>8 DEF SidebandInv
<1>10. CASE Emit(<<e, i>>) /\ UNCHANGED <<active, responses>>
  <2>1. fromProvider' = p /\ active' = active /\ responses' = responses
    BY <1>6, <1>10 DEF Emit
  <2> HIDE DEF p
  <2>2. TypeOK'
    BY <1>2, <1>5, <1>8, <2>1 DEF SidebandInv, TypeOK
  <2>3. GateInv'
    BY <1>7, <1>8, <2>1 DEF SidebandInv, GateInv
  <2>4. BookInv'
    BY <1>8, <2>1 DEF SidebandInv, BookInv
  <2>5. QueueBooks'
    BY <1>5, <1>8, <2>1 DEF QueueBooks
  <2> QED BY <2>2, <2>3, <2>4, <2>5 DEF SidebandInv
<1> QED BY <1>9, <1>10 DEF UserStops

LEMMA ResponseEndsKeeps == SidebandInv /\ ResponseEnds => SidebandInv'
<1> SUFFICES ASSUME SidebandInv, ResponseEnds PROVE SidebandInv'
  OBVIOUS
<1>1. PICK n \in 0..2 :
        /\ Len(issued) + n <= MaxCalls
        /\ issued' = issued \o [i \in 1..n |-> active]
        /\ Emit(<<[type |-> "done", response |-> active,
                   calls |-> [i \in 1..n |-> Len(issued) + i]]>>)
  BY DEF ResponseEnds
<1> DEFINE q == fromProvider
           calls == [i \in 1..n |-> Len(issued) + i]
           more == [i \in 1..n |-> active]
           d == [type |-> "done", response |-> active, calls |-> calls]
<1>2. /\ q \in Seq(Event) /\ active \in Responses /\ active # 0 /\ speaking \in BOOLEAN
      /\ issued \in Seq(Responses) /\ Len(issued) \in Nat
      /\ QueueInv(q, sideband, speaking, active, items, responses, issued)
      /\ active' = 0
      /\ UNCHANGED <<sideband, handed, injected, speaking, items, responses, conversation>>
  BY BoundsTyped DEF SidebandInv, TypeOK, QueueBooks, ResponseEnds, Responses
<1>3. calls \in Seq(Calls) /\ DOMAIN calls = 1..n /\ \A i \in 1..n : calls[i] = Len(issued) + i
  <2>1. \A i \in 1..n : Len(issued) + i \in Calls
    BY <1>1, <1>2, BoundsTyped DEF Calls
  <2>2. calls \in [1..n -> Calls] /\ n \in Nat
    BY <2>1
  <2> QED BY <2>2
<1>4. more \in Seq(Responses) /\ DOMAIN more = 1..n /\ Len(more) = n /\ \A i \in 1..n : more[i] = active
  <2>1. more \in [1..n -> Responses] /\ n \in Nat
    BY <1>2
  <2> QED BY <2>1
<1>5. d.type = "done" /\ d.response = active /\ d.calls = calls
  OBVIOUS
<1> HIDE DEF calls
<1>6. d \in Event
  BY <1>2, <1>3 DEF Event
<1>7. issued' = issued \o more /\ fromProvider' = q \o <<d>>
  BY <1>1 DEF Emit, calls
<1> HIDE DEF more, d
<1>8. fromProvider' = Append(q, d) /\ Append(q, d) \in Seq(Event)
      /\ d = Append(q, d)[Len(q) + 1] /\ Len(q) + 1 \in DOMAIN Append(q, d)
  BY <1>2, <1>6, <1>7
<1>9. /\ issued' \in Seq(Responses) /\ Extends(issued, issued')
      /\ \A i \in 1..n : Len(issued) + i \in DOMAIN issued' /\ issued'[Len(issued) + i] = active
      /\ \A c \in DOMAIN issued' : c \in DOMAIN issued \/ issued'[c] = active
  <2>1. issued' \in Seq(Responses) /\ Len(issued') = Len(issued) + n
    BY <1>2, <1>4, <1>7
  <2>2. \A c \in DOMAIN issued : c \in DOMAIN issued' /\ issued'[c] = issued[c]
    BY <1>2, <1>4, <1>7
  <2>3. \A i \in 1..n : Len(issued) + i \in DOMAIN issued' /\ issued'[Len(issued) + i] = active
    BY <1>2, <1>4, <1>7
  <2>4. ASSUME NEW c \in DOMAIN issued', c \notin DOMAIN issued PROVE issued'[c] = active
    <3>1. c - Len(issued) \in 1..n /\ Len(issued) + (c - Len(issued)) = c
      BY <1>2, <1>4, <2>1, <2>4
    <3> QED BY <2>3, <3>1
  <2> QED BY <2>1, <2>2, <2>3, <2>4 DEF Extends
<1>10. QueueInv(Append(q, d), sideband, speaking, 0, items, responses, issued')
  <2>1. \A i \in DOMAIN d.calls : d.calls[i] \in DOMAIN issued' /\ issued'[d.calls[i]] = d.response
    BY <1>3, <1>5, <1>9
  <2>2. QueueInv(q, sideband, speaking, d.response, items, responses, issued)
    BY <1>2, <1>5
  <2> QED BY <1>2, <1>5, <1>6, <1>9, <2>1, <2>2, DoneSent
<1>11. active \in DOMAIN responses
  BY <1>2 DEF QueueInv, ActiveKnown
<1>12. TypeOK'
  BY <1>2, <1>8, <1>9 DEF SidebandInv, TypeOK
<1>13. GateInv'
  <2>1. \E k \in DOMAIN fromProvider' : fromProvider'[k].type = "done"
    BY <1>5, <1>8
  <2> QED BY <1>2, <2>1 DEF SidebandInv, GateInv
<1>14. BookInv'
  <2>1. \A c \in DOMAIN issued' : issued'[c] \in DOMAIN responses
    BY <1>9, <1>11 DEF SidebandInv, BookInv, Extends
  <2> QED BY <1>2, <1>9, <2>1 DEF SidebandInv, BookInv, Extends
<1>15. QueueBooks'
  BY <1>2, <1>8, <1>10 DEF QueueBooks
<1> QED BY <1>12, <1>13, <1>14, <1>15 DEF SidebandInv

LEMMA ProviderReadsKeeps == SidebandInv /\ ProviderReads => SidebandInv'
<1> SUFFICES ASSUME SidebandInv, ProviderReads PROVE SidebandInv'
  OBVIOUS
<1> DEFINE q == fromProvider
           m == Head(sideband.socket)
           c == [type |-> "created", response |-> Len(responses) + 1]
<1>1. /\ q \in Seq(Event) /\ items \in Items \cup {0} /\ sideband \in Fields
      /\ responses \in Seq(Items \cup {0}) /\ speaking \in BOOLEAN
      /\ sideband.socket \in Seq(Message) /\ sideband.socket # <<>> /\ conversation \in Seq(Message)
      /\ QueueInv(q, sideband, speaking, active, items, responses, issued)
  BY DEF SidebandInv, TypeOK, QueueBooks, ProviderReads, Fields
<1> DEFINE rest == Tail(sideband.socket)
<1>2. /\ rest \in Seq(Message) /\ m \in Message
      /\ HasCreate(sideband.socket) => m.type = "create" \/ HasCreate(rest)
  <2> DEFINE socket == sideband.socket
  <2>1. socket \in Seq(Message) /\ socket # <<>>
    BY <1>1
  <2> HIDE DEF socket
  <2>2. /\ Tail(socket) \in Seq(Message) /\ Head(socket) \in Message /\ Head(socket) = socket[1]
        /\ \A k \in DOMAIN socket : k # 1 =>
             k - 1 \in DOMAIN Tail(socket) /\ Tail(socket)[k - 1] = socket[k]
    BY <2>1
  <2>3. HasCreate(socket) => Head(socket).type = "create" \/ HasCreate(Tail(socket))
    BY <2>2 DEF HasCreate
  <2> QED BY <2>2, <2>3 DEF socket
<1>3. sideband' = [sideband EXCEPT !.socket = rest]
      /\ UNCHANGED <<handed, injected, speaking, items, issued>>
  BY DEF ProviderReads
<1> HIDE DEF rest, m
<1>4. sideband' \in Fields
  BY <1>1, <1>2, <1>3 DEF Fields
<1>5. /\ sideband'.latestUserItemId = sideband.latestUserItemId
      /\ sideband'.userSpeaking = sideband.userSpeaking
      /\ sideband'.responseUserItems = sideband.responseUserItems
      /\ sideband'.responseInProgress = sideband.responseInProgress
      /\ sideband'.pendingResults = sideband.pendingResults
      /\ sideband'.closed = sideband.closed /\ sideband'.socket = rest
  BY <1>1, <1>3 DEF Fields
<1>6. QueueInv(q, sideband', speaking, active, items, responses, issued)
  BY <1>1, <1>5, SameView
<1>7. ~Gated(sideband') => sideband'.pendingResults = <<>>
  BY <1>5 DEF SidebandInv, GateInv, Gated
<1>8. CASE /\ m.type # "create" /\ conversation' = Append(conversation, m)
           /\ UNCHANGED <<fromProvider, active, responses>>
  <2>1. conversation' \in Seq(Message)
    BY <1>1, <1>2, <1>8
  <2>2. TypeOK'
    BY <1>3, <1>4, <1>8, <2>1 DEF SidebandInv, TypeOK
  <2>3. GateInv'
    <3>1. HasCreate(sideband.socket) => HasCreate(sideband'.socket)
      BY <1>2, <1>5, <1>8
    <3> QED BY <1>5, <1>7, <1>8, <3>1 DEF SidebandInv, GateInv
  <2>4. BookInv'
    BY <1>3, <1>8 DEF SidebandInv, BookInv
  <2>5. QueueBooks'
    BY <1>3, <1>6, <1>8 DEF QueueBooks
  <2> QED BY <2>2, <2>3, <2>4, <2>5 DEF SidebandInv
<1>9. CASE /\ m.type = "create" /\ active = 0 /\ Created(items) /\ Emit(<<c>>)
           /\ UNCHANGED conversation
  <2>1. /\ fromProvider' = q \o <<c>> /\ Len(responses) < MaxResponses
        /\ responses' = Append(responses, items) /\ active' = Len(responses) + 1
    BY <1>9 DEF Created, Emit
  <2>2. QueueInv(q, sideband', speaking, 0, items, responses, issued)
    BY <1>6, <1>9
  <2>3. c = [type |-> "created", response |-> Len(responses) + 1]
    OBVIOUS
  <2> HIDE DEF c
  <2>4. /\ c \in Event /\ Append(q, c) \in Seq(Event) /\ Extends(responses, responses')
        /\ responses' \in Seq(Items \cup {0}) /\ active' \in Responses /\ Len(responses') <= MaxResponses
        /\ QueueInv(Append(q, c), sideband', speaking, active', items, responses', issued)
    <3>1. /\ q \in Seq(Event) /\ items \in Items \cup {0} /\ speaking \in BOOLEAN
          /\ responses \in Seq(Items \cup {0})
      BY <1>1
    <3>2. Announced(responses, items, active', responses', c)
      BY <2>1, <2>3 DEF Announced
    <3> HIDE DEF q
    <3> QED BY <2>2, <3>1, <3>2, ResponseAnnounced
  <2>5. fromProvider' = Append(q, c)
    BY <1>1, <2>1, <2>4
  <2>6. TypeOK'
    BY <1>3, <1>4, <1>9, <2>4, <2>5 DEF SidebandInv, TypeOK
  <2>7. GateInv'
    <3>1. active' # 0
      BY <2>4, BoundsTyped DEF Responses
    <3> QED BY <1>7, <3>1 DEF GateInv
  <2>8. BookInv'
    BY <1>3, <2>4 DEF SidebandInv, BookInv, Extends
  <2>9. QueueBooks'
    BY <1>3, <2>4, <2>5 DEF QueueBooks
  <2> QED BY <2>6, <2>7, <2>8, <2>9 DEF SidebandInv
<1>10. CASE /\ m.type = "create" /\ active # 0
            /\ UNCHANGED <<fromProvider, active, responses, conversation>>
  <2>1. TypeOK'
    BY <1>3, <1>4, <1>10 DEF SidebandInv, TypeOK
  <2>2. GateInv'
    BY <1>7, <1>10 DEF GateInv
  <2>3. BookInv'
    BY <1>3, <1>10 DEF SidebandInv, BookInv
  <2>4. QueueBooks'
    BY <1>3, <1>6, <1>10 DEF QueueBooks
  <2> QED BY <2>1, <2>2, <2>3, <2>4 DEF SidebandInv
<1> QED BY <1>8, <1>9, <1>10 DEF ProviderReads, m

----------------------------------------------------------------------------
LEMMA StepHolds == SidebandInv /\ [Next]_vars => SidebandInv'
<1> SUFFICES ASSUME SidebandInv, [Next]_vars PROVE SidebandInv'
  OBVIOUS
<1>1. CASE UNCHANGED vars
  BY <1>1 DEF vars, provider, SidebandInv, TypeOK, GateInv, BookInv, QueueBooks
<1> QED BY <1>1, HandleMessageKeeps, AnswerKeeps, InjectKeeps, CloseKeeps, UserStartsKeeps,
           UserStopsKeeps, ResponseEndsKeeps, ProviderReadsKeeps DEF Next

----------------------------------------------------------------------------
(* Results and notes are delivered once, in order and within the budget.    *)

\* The tool calls an event hands over, and those handed over so far.
CallsOf(e) == IF e.type = "done" THEN Range(e.calls) ELSE {}
HandedCalls == {handed[i].call : i \in DOMAIN handed}

\* No tool call is handed over twice: not by two events, nor twice by one.
CallsOnce(q, taken) ==
  /\ \A k \in DOMAIN q : /\ CallsOf(q[k]) \cap taken = {}
                         /\ q[k].type = "done" => IsInjective(q[k].calls)
  /\ \A j, k \in DOMAIN q : j < k => CallsOf(q[j]) \cap CallsOf(q[k]) = {}

\* What makes it inductive: only calls handed over are answered, and those still
\* under way were not handed over yet.
DeliveryInv ==
  /\ Books(conversation, sideband)
  /\ ~sideband.closed => Range(sideband.submitted) \subseteq HandedCalls
  /\ CallsOnce(fromProvider, HandedCalls)

LEMMA ResponseBooked ==
  ASSUME NEW before \in Seq(Message), NEW s \in Fields, Books(before, s), NEW event,
         event.response \in Responses, event.calls \in Seq(Calls), IsInjective(event.calls),
         Range(event.calls) \cap Range(s.submitted) = {}, NEW t \in ResponseDone(s, event)
  PROVE  /\ Books(before, t)
         /\ ~t.closed => Range(t.submitted) \subseteq Range(s.submitted) \cup Range(event.calls)
<1> DEFINE ended == Ended(s, event)
           calls == event.calls
           n == Len(calls)
           given(m) == Range(s.submitted) \cup {calls[i] : i \in 1..m}
           P == [m \in 0..n |-> {u \in Fields : Books(before, u)
                                   /\ (~u.closed => Range(u.submitted) \subseteq given(m))}]
<1>1. /\ calls \in Seq(Calls) /\ n \in Nat /\ DOMAIN calls = 1..n
      /\ \A i, j \in 1..n : calls[i] = calls[j] => i = j
      /\ \A i \in 1..n : calls[i] \notin Range(s.submitted)
  <2>1. PICK given0 : given0 = event.calls
    OBVIOUS
  <2>2. /\ given0 \in Seq(Calls) /\ IsInjective(given0)
        /\ Range(given0) \cap Range(s.submitted) = {}
    BY <2>1
  <2>3. Len(given0) \in Nat /\ DOMAIN given0 = 1..Len(given0)
    BY <2>2
  <2>4. \A i, j \in DOMAIN given0 : given0[i] = given0[j] => i = j
    BY <2>2 DEF IsInjective
  <2>5. \A i \in DOMAIN given0 : given0[i] \in Range(given0)
    BY DEF Range
  <2> QED BY <2>1, <2>2, <2>3, <2>4, <2>5
<1>2. ended \in Fields /\ Books(before, ended) /\ ended.submitted = s.submitted
  <2>1. /\ ended \in Fields /\ ended.socket = s.socket /\ ended.closed = s.closed
        /\ ended.pendingResults = s.pendingResults /\ ended.submitted = s.submitted
        /\ ended.progressNotesSent = s.progressNotesSent
        /\ ended.pendingProgressNote = s.pendingProgressNote
        /\ ended.progressSuppressed = s.progressSuppressed
    BY DEF Ended, Fields
  <2> HIDE DEF ended
  <2> QED BY <2>1 DEF Books, NoteBook, ResultBook
<1> HIDE DEF ended
<1>3. ended \in P[0]
  <2>1. 0 \in 0..n /\ Range(s.submitted) \subseteq given(0)
    BY <1>1
  <2> HIDE DEF given
  <2> QED BY <1>2, <2>1
<1>4. ASSUME NEW m \in 1..n, NEW u \in P[m - 1], NEW v \in Listener(u, calls[m])
      PROVE  v \in P[m]
  <2>1. m - 1 \in 0..n /\ m \in 0..n /\ calls[m] \in Calls
    BY <1>1
  <2>2. /\ u \in Fields /\ Books(before, u)
        /\ ~u.closed => Range(u.submitted) \subseteq given(m - 1)
    BY <1>4, <2>1
  <2>3. /\ given(m - 1) \subseteq given(m) /\ given(m - 1) \cup {calls[m]} \subseteq given(m)
        /\ calls[m] \notin given(m - 1)
    BY <1>1
  <2> HIDE DEF given
  <2>4. CASE v = u
    BY <2>1, <2>2, <2>3, <2>4
  <2>5. CASE v \in SendFunctionResult(u, calls[m])
    <3>1. v \in Fields
      BY <2>1, <2>2, <2>5, ResultTaken DEF Sent
    <3>2. /\ Books(before, v)
          /\ ~v.closed => Range(v.submitted) \subseteq Range(u.submitted) \cup {calls[m]}
      <4>1. ~u.closed => calls[m] \notin Range(u.submitted)
        BY <2>2, <2>3
      <4>2. PICK c : c = calls[m]
        OBVIOUS
      <4>3. /\ before \in Seq(Message) /\ u \in Fields /\ Books(before, u) /\ c \in Calls
            /\ ~u.closed => c \notin Range(u.submitted)
            /\ v \in SendFunctionResult(u, c)
        BY <2>1, <2>2, <2>5, <4>1, <4>2
      <4>4. /\ Books(before, v)
            /\ ~v.closed => Range(v.submitted) \subseteq Range(u.submitted) \cup {c}
        BY ONLY <4>3, ResultBooked
      <4> QED BY <4>2, <4>4
    <3>3. ~v.closed => ~u.closed
      BY <2>1, <2>2, <2>5, ResultTaken DEF Sent
    <3> QED BY <2>1, <2>2, <2>3, <3>1, <3>2, <3>3
  <2> QED BY <2>4, <2>5 DEF Listener
<1>5. Dispatch(ended, calls) \subseteq P[n]
  <2> HIDE DEF P, calls, n
  <2>1. \A m \in 1..Len(calls) : \A u \in P[m - 1] : Listener(u, calls[m]) \subseteq P[m]
    BY <1>4 DEF n
  <2> QED BY <1>1, <1>3, <2>1, DispatchReaches DEF n
<1>6. PICK u \in Dispatch(ended, calls) : t \in FlushResults(u)
  BY DEF ResponseDone, ended
<1>7. /\ u \in Fields /\ Books(before, u)
      /\ ~u.closed => Range(u.submitted) \subseteq Range(s.submitted) \cup Range(calls)
  <2>1. n \in 0..n /\ given(n) \subseteq Range(s.submitted) \cup Range(calls)
    BY <1>1 DEF Range
  <2>2. u \in P[n]
    BY <1>5, <1>6
  <2> HIDE DEF given
  <2> QED BY <2>1, <2>2
<1>8. Books(before, t) /\ t.submitted = u.submitted /\ (~t.closed => ~u.closed)
  BY <1>6, <1>7, FlushBooked, Flushed DEF Sent
<1> QED BY <1>7, <1>8

LEMMA EventBooked ==
  ASSUME NEW before \in Seq(Message), NEW s \in Fields, Books(before, s), NEW e \in Event,
         e.type = "done" => IsInjective(e.calls), CallsOf(e) \cap Range(s.submitted) = {},
         NEW t \in Handle(s, e)
  PROVE  /\ Books(before, t)
         /\ ~t.closed => Range(t.submitted) \subseteq Range(s.submitted) \cup CallsOf(e)
<1> DEFINE Alike(u) ==
             /\ u.socket = s.socket /\ u.closed = s.closed
             /\ u.pendingResults = s.pendingResults /\ u.submitted = s.submitted
             /\ u.progressNotesSent = s.progressNotesSent
             /\ u.pendingProgressNote = s.pendingProgressNote
             /\ u.progressSuppressed = s.progressSuppressed
<1>1. ASSUME NEW u, Alike(u) PROVE Books(before, u) /\ u.submitted = s.submitted
  BY <1>1 DEF Books, NoteBook, ResultBook
<1>2. CASE e.type = "speech_started"
  <2>1. t = [s EXCEPT !.userSpeaking = TRUE]
    BY <1>2 DEF Handle
  <2>2. Alike(t)
    BY <2>1 DEF Fields
  <2> HIDE DEF Alike
  <2> QED BY <1>1, <2>2
<1>3. CASE e.type = "speech_stopped"
  <2> DEFINE u == [s EXCEPT !.userSpeaking = FALSE]
  <2>1. t \in FlushResults(u)
    BY <1>3 DEF Handle
  <2>2. u \in Fields /\ Alike(u)
    BY DEF Fields
  <2> HIDE DEF u, Alike
  <2>3. Books(before, u) /\ u.submitted = s.submitted
    BY <1>1, <2>2
  <2>4. Books(before, t) /\ t.submitted = u.submitted
    BY <2>1, <2>2, <2>3, FlushBooked
  <2> QED BY <2>3, <2>4
<1>4. CASE e.type = "item"
  <2>1. t = [s EXCEPT !.latestUserItemId = e.item]
    BY <1>4 DEF Handle
  <2>2. Alike(t)
    BY <2>1 DEF Fields
  <2> HIDE DEF Alike
  <2> QED BY <1>1, <2>2
<1>5. CASE e.type = "created"
  <2> DEFINE noted == [s.responseUserItems EXCEPT ![e.response] = s.latestUserItemId]
  <2>1. t = [s EXCEPT !.responseInProgress = TRUE, !.responseUserItems = noted]
    BY <1>5 DEF Handle
  <2> HIDE DEF noted
  <2>2. Alike(t)
    BY <2>1 DEF Fields
  <2> HIDE DEF Alike
  <2> QED BY <1>1, <2>2
<1>6. CASE e.type = "done"
  <2>1. t \in ResponseDone(s, e) /\ e.response \in Responses /\ e.calls \in Seq(Calls)
    BY <1>6, EventTyped DEF Handle
  <2> QED BY <1>6, <2>1, ResponseBooked DEF CallsOf
<1> QED BY <1>2, <1>3, <1>4, <1>5, <1>6, EventTyped

\* One event more, with calls nobody has seen, or several without calls.
LEMMA CallsGrow ==
  ASSUME NEW q \in Seq(Event), NEW taken, CallsOnce(q, taken), NEW e \in Event,
         CallsOf(e) \cap taken = {}, \A k \in DOMAIN q : CallsOf(q[k]) \cap CallsOf(e) = {},
         e.type = "done" => IsInjective(e.calls)
  PROVE  CallsOnce(Append(q, e), taken)
<1> DEFINE p == Append(q, e)
<1>1. \A k \in DOMAIN p : \/ k \in DOMAIN q /\ p[k] = q[k]
                          \/ k = Len(q) + 1 /\ p[k] = e
  OBVIOUS
<1>2. \A k \in DOMAIN q : k < Len(q) + 1 /\ k \in Nat
  OBVIOUS
<1> HIDE DEF p
<1> QED BY <1>1, <1>2 DEF CallsOnce, p

LEMMA CallsStay ==
  ASSUME NEW q \in Seq(Event), NEW taken, CallsOnce(q, taken), NEW more \in Seq(Event),
         \A k \in DOMAIN more : more[k].type = "done" => more[k].calls = <<>>
  PROVE  CallsOnce(q \o more, taken)
<1> DEFINE p == q \o more
<1>1. \A k \in DOMAIN p : \/ k \in DOMAIN q /\ p[k] = q[k]
                          \/ k \notin DOMAIN q /\ \E i \in DOMAIN more : p[k] = more[i]
  <2> SUFFICES ASSUME NEW k \in DOMAIN p, k \notin DOMAIN q
               PROVE  \E i \in DOMAIN more : p[k] = more[i]
    OBVIOUS
  <2>1. k - Len(q) \in DOMAIN more /\ p[k] = more[k - Len(q)]
    OBVIOUS
  <2> QED BY <2>1
<1>2. \A i \in DOMAIN more : CallsOf(more[i]) = {}
                             /\ (more[i].type = "done" => IsInjective(more[i].calls))
  BY DEF CallsOf, Range, IsInjective
<1> HIDE DEF p
<1>3. \A k \in DOMAIN p : \/ k \in DOMAIN q /\ p[k] = q[k]
                          \/ /\ CallsOf(p[k]) = {}
                             /\ p[k].type = "done" => IsInjective(p[k].calls)
  BY <1>1, <1>2
<1> QED BY <1>3 DEF CallsOnce, p

LEMMA DeliveryStarts == Init => DeliveryInv
<1> SUFFICES ASSUME Init PROVE DeliveryInv
  OBVIOUS
<1>1. <<>> \in Seq(Message) /\ <<>> \o <<>> = <<>> /\ MaxNotes \in Nat
  BY SidebandConstants DEF SidebandConstants
<1>2. ASSUME NEW kind PROVE OfType(kind, <<>>) = <<>>
  <2>1. PICK none : none = <<>>
    OBVIOUS
  <2>2. none \in Seq(Message) /\ \A i \in DOMAIN none : none[i].type = "none"
    BY <1>1, <2>1
  <2>3. OfType(kind, none) = IF kind = "none" THEN none ELSE <<>>
    BY <2>2, OfTypeAll
  <2> QED BY <2>1, <2>3
<1>3. Answering(<<>>) = <<>>
  BY <1>2 DEF Answering
<1>4. Books(conversation, sideband)
  BY <1>1, <1>2, <1>3 DEF Init, Books, NoteBook, ResultBook, IsInjective
<1> QED BY <1>4 DEF Init, DeliveryInv, CallsOnce, Range

\* A step of the sideband alone, with results that were asked for.
LEMMA SideStep ==
  ASSUME DeliveryInv, UNCHANGED <<handed, fromProvider, conversation>>,
         Books(conversation, sideband'),
         ~sideband'.closed => Range(sideband'.submitted) \subseteq HandedCalls
  PROVE  DeliveryInv'
  BY DEF DeliveryInv, HandedCalls

LEMMA HandleMessageDelivers == SidebandInv /\ DeliveryInv /\ HandleMessage => DeliveryInv'
<1> SUFFICES ASSUME SidebandInv, DeliveryInv, HandleMessage PROVE DeliveryInv'
  OBVIOUS
<1> DEFINE s == sideband
           t == sideband'
           q == fromProvider
           e == Head(fromProvider)
           more == [i \in DOMAIN e.calls |-> [call |-> e.calls[i], item |-> UserItemOf(s, e)]]
<1>1. /\ s \in Fields /\ q \in Seq(Event) /\ q # <<>> /\ ~s.closed /\ t \in Handle(s, e)
      /\ conversation \in Seq(Message) /\ fromProvider' = Tail(q)
      /\ handed' = (IF e.type # "done" THEN handed ELSE handed \o more)
      /\ conversation' = conversation
      /\ handed \in Seq([call : Calls, item : Items \cup {0}])
  BY DEF SidebandInv, TypeOK, HandleMessage, provider
<1>2. /\ e = q[1] /\ e \in Event /\ Tail(q) \in Seq(Event) /\ 1 \in DOMAIN q /\ Len(q) \in Nat \ {0}
      /\ Len(Tail(q)) = Len(q) - 1
      /\ \A k \in DOMAIN Tail(q) : k + 1 \in DOMAIN q /\ 1 < k + 1 /\ Tail(q)[k] = q[k + 1]
  BY <1>1
<1>3. HandedCalls' = HandedCalls \cup CallsOf(e)
  <2>1. CASE e.type # "done"
    BY <1>1, <2>1 DEF HandedCalls, CallsOf
  <2>2. CASE e.type = "done"
    <3> DEFINE Handed == [call : Calls, item : Items \cup {0}]
    <3>1. e.calls \in Seq(Calls) /\ e.response \in Responses /\ handed' = handed \o more
      BY <1>1, <1>2, <2>2, EventTyped
    <3>2. /\ more \in Seq(Handed) /\ DOMAIN more = DOMAIN e.calls
          /\ \A i \in DOMAIN e.calls : more[i].call = e.calls[i]
      <4>1. UserItemOf(s, e) \in Items \cup {0}
        BY <1>1, <3>1 DEF UserItemOf, Fields
      <4>2. \A i \in DOMAIN e.calls : [call |-> e.calls[i], item |-> UserItemOf(s, e)] \in Handed
        BY <3>1, <4>1
      <4>3. DOMAIN e.calls = 1..Len(e.calls) /\ Len(e.calls) \in Nat
        BY <3>1
      <4>4. PICK n : n = Len(e.calls)
        OBVIOUS
      <4>5. more \in [1..n -> Handed] /\ n \in Nat /\ DOMAIN e.calls = 1..n
        BY <4>2, <4>3, <4>4
      <4>6. DOMAIN more = 1..n /\ \A i \in 1..n : more[i].call = e.calls[i]
        BY <4>5
      <4> HIDE DEF more, Handed
      <4>7. more \in Seq(Handed)
        BY <4>5
      <4> QED BY <4>5, <4>6, <4>7
    <3> HIDE DEF more, Handed
    <3>3. handed \in Seq(Handed)
      BY <1>1 DEF Handed
    <3>4. /\ \A i \in DOMAIN handed : i \in DOMAIN handed' /\ handed'[i] = handed[i]
          /\ \A i \in DOMAIN more :
               Len(handed) + i \in DOMAIN handed' /\ handed'[Len(handed) + i] = more[i]
          /\ \A i \in DOMAIN handed' :
               \/ i \in DOMAIN handed /\ handed'[i] = handed[i]
               \/ i - Len(handed) \in DOMAIN more /\ handed'[i] = more[i - Len(handed)]
      BY <3>1, <3>2, <3>3
    <3>5. CallsOf(e) = {more[i].call : i \in DOMAIN more}
      BY <2>2, <3>2 DEF CallsOf, Range
    <3>6. HandedCalls \subseteq HandedCalls' /\ CallsOf(e) \subseteq HandedCalls'
      BY <3>4, <3>5 DEF HandedCalls
    <3>7. HandedCalls' \subseteq HandedCalls \cup CallsOf(e)
      BY <3>4, <3>5 DEF HandedCalls
    <3> QED BY <3>6, <3>7
  <2> QED BY <2>1, <2>2
<1> HIDE DEF s, t, q, e, more
<1>4. /\ Books(conversation, s) /\ Range(s.submitted) \subseteq HandedCalls
      /\ CallsOnce(q, HandedCalls)
  BY <1>1 DEF DeliveryInv, s, q
<1>5. CallsOf(e) \cap HandedCalls = {} /\ (e.type = "done" => IsInjective(e.calls))
  BY <1>2, <1>4 DEF CallsOnce
<1>6. /\ Books(conversation, t)
      /\ ~t.closed => Range(t.submitted) \subseteq Range(s.submitted) \cup CallsOf(e)
  <2>1. CallsOf(e) \cap Range(s.submitted) = {}
    BY <1>4, <1>5
  <2> QED BY <1>1, <1>2, <1>4, <1>5, <2>1, EventBooked
<1>7. CallsOnce(Tail(q), HandedCalls \cup CallsOf(e))
  <2>1. \A k \in DOMAIN q : 1 < k => CallsOf(e) \cap CallsOf(q[k]) = {}
    BY <1>2, <1>4 DEF CallsOnce
  <2>2. ASSUME NEW k \in DOMAIN Tail(q)
        PROVE  /\ CallsOf(Tail(q)[k]) \cap (HandedCalls \cup CallsOf(e)) = {}
               /\ Tail(q)[k].type = "done" => IsInjective(Tail(q)[k].calls)
    BY <1>2, <1>4, <2>1 DEF CallsOnce
  <2>3. ASSUME NEW j \in DOMAIN Tail(q), NEW k \in DOMAIN Tail(q), j < k
        PROVE  CallsOf(Tail(q)[j]) \cap CallsOf(Tail(q)[k]) = {}
    <3>1. j + 1 \in DOMAIN q /\ k + 1 \in DOMAIN q /\ j + 1 < k + 1
      BY <1>2, <2>3
    <3> QED BY <1>2, <1>4, <3>1 DEF CallsOnce
  <2> QED BY <2>2, <2>3 DEF CallsOnce
<1> QED BY <1>1, <1>3, <1>4, <1>6, <1>7 DEF DeliveryInv, t

LEMMA AnswerDelivers == SidebandInv /\ DeliveryInv /\ Answer => DeliveryInv'
<1> SUFFICES ASSUME SidebandInv, DeliveryInv, Answer PROVE DeliveryInv'
  OBVIOUS
<1>1. /\ sideband \in Fields /\ conversation \in Seq(Message) /\ ~sideband.closed
      /\ UNCHANGED <<handed, fromProvider, conversation>>
      /\ Books(conversation, sideband) /\ Range(sideband.submitted) \subseteq HandedCalls
  BY DEF SidebandInv, TypeOK, Answer, provider, DeliveryInv
<1>2. PICK c \in Awaited : sideband' \in SendFunctionResult(sideband, c)
  BY DEF Answer
<1>3. c \in HandedCalls /\ c \notin Range(sideband.submitted)
  BY <1>2 DEF Awaited, HandedCalls
<1>4. c \in Calls
  <2>1. PICK i \in DOMAIN handed : c = handed[i].call
    BY <1>3 DEF HandedCalls
  <2> DEFINE Handed == [call : Calls, item : Items \cup {0}]
  <2>2. handed \in Seq(Handed)
    BY DEF SidebandInv, TypeOK
  <2>3. \A x \in Handed : x.call \in Calls
    OBVIOUS
  <2> HIDE DEF Handed
  <2> QED BY <2>1, <2>2, <2>3
<1>5. /\ Books(conversation, sideband')
      /\ ~sideband'.closed =>
           Range(sideband'.submitted) \subseteq Range(sideband.submitted) \cup {c}
  BY <1>1, <1>2, <1>3, <1>4, ResultBooked
<1> QED BY <1>1, <1>3, <1>5, SideStep

LEMMA InjectDelivers == SidebandInv /\ DeliveryInv /\ Inject => DeliveryInv'
<1> SUFFICES ASSUME SidebandInv, DeliveryInv, Inject PROVE DeliveryInv'
  OBVIOUS
<1>1. /\ sideband \in Fields /\ conversation \in Seq(Message) /\ ~sideband.closed
      /\ UNCHANGED <<handed, fromProvider, conversation>>
      /\ Books(conversation, sideband) /\ Range(sideband.submitted) \subseteq HandedCalls
      /\ sideband' \in InjectProgressNote(sideband)
  BY DEF SidebandInv, TypeOK, Inject, provider, DeliveryInv
<1>2. Books(conversation, sideband') /\ sideband'.submitted = sideband.submitted
  BY <1>1, NoteOffered
<1> QED BY <1>1, <1>2, SideStep

LEMMA CloseDelivers == SidebandInv /\ DeliveryInv /\ Close => DeliveryInv'
<1> SUFFICES ASSUME SidebandInv, DeliveryInv, Close PROVE DeliveryInv'
  OBVIOUS
<1>1. /\ sideband' = [sideband EXCEPT !.closed = TRUE] /\ sideband \in Fields
      /\ UNCHANGED <<handed, fromProvider, conversation>> /\ Books(conversation, sideband)
  BY DEF SidebandInv, TypeOK, Close, provider, DeliveryInv
<1>2. /\ sideband'.closed /\ sideband'.socket = sideband.socket
      /\ sideband'.progressNotesSent = sideband.progressNotesSent
      /\ sideband'.pendingProgressNote = sideband.pendingProgressNote
      /\ sideband'.progressSuppressed = sideband.progressSuppressed
  BY <1>1 DEF Fields
<1>3. Books(conversation, sideband')
  BY <1>1, <1>2 DEF Books, NoteBook, ResultBook
<1> QED BY <1>1, <1>2, <1>3, SideStep

\* Events without calls, whatever they are.
LEMMA QuietDelivers ==
  ASSUME SidebandInv, DeliveryInv, UNCHANGED <<sideband, handed, conversation>>,
         NEW more \in Seq(Event), fromProvider' = fromProvider \o more,
         \A k \in DOMAIN more : more[k].type = "done" => more[k].calls = <<>>
  PROVE  DeliveryInv'
<1>1. fromProvider \in Seq(Event) /\ CallsOnce(fromProvider, HandedCalls)
  BY DEF SidebandInv, TypeOK, DeliveryInv
<1>2. CallsOnce(fromProvider', HandedCalls)
  BY <1>1, CallsStay
<1> QED BY <1>2 DEF DeliveryInv, HandedCalls

LEMMA UserDelivers == SidebandInv /\ DeliveryInv /\ (UserStarts \/ UserStops) => DeliveryInv'
<1> SUFFICES ASSUME SidebandInv, DeliveryInv, UserStarts \/ UserStops PROVE DeliveryInv'
  OBVIOUS
<1>1. CASE UserStarts
  <2> DEFINE more == <<[type |-> "speech_started"]>>
                \o (IF active = 0 THEN <<>>
                    ELSE <<[type |-> "done", response |-> active, calls |-> <<>>]>>)
  <2>1. fromProvider' = fromProvider \o more /\ UNCHANGED <<sideband, handed, conversation>>
        /\ active \in Responses \cup {0}
    BY <1>1 DEF UserStarts, Emit, SidebandInv, TypeOK
  <2>2. <<>> \in Seq(Calls)
    OBVIOUS
  <2>3. more \in Seq(Event)
        /\ \A k \in DOMAIN more : more[k].type = "done" => more[k].calls = <<>>
    <3> DEFINE a == [type |-> "speech_started"]
               d == [type |-> "done", response |-> active, calls |-> <<>>]
    <3>1. a \in Event /\ a.type # "done" /\ d.calls = <<>>
      BY DEF Event
    <3>2. active # 0 => d \in Event
      BY <2>1, <2>2 DEF Event
    <3>3. more = <<a>> \o (IF active = 0 THEN <<>> ELSE <<d>>)
      OBVIOUS
    <3> HIDE DEF a, d, more
    <3>4. CASE active = 0
      <4>1. more = <<a>>
        BY <3>1, <3>3, <3>4
      <4> QED BY <3>1, <4>1
    <3>5. CASE active # 0
      <4>1. more = <<a>> \o <<d>>
        BY <3>3, <3>5
      <4>2. more \in Seq(Event) /\ DOMAIN more = 1..2 /\ more[1] = a /\ more[2] = d
        BY <3>1, <3>2, <3>5, <4>1
      <4> QED BY <3>1, <4>2
    <3> QED BY <3>4, <3>5
  <2> HIDE DEF more
  <2> QED BY <2>1, <2>3, QuietDelivers
<1>2. CASE UserStops
  <2> DEFINE a == [type |-> "speech_stopped"]
             b == [type |-> "item", item |-> items + 1]
             c == [type |-> "created", response |-> Len(responses) + 1]
             turn == <<a, b>>
  <2>1. /\ items + 1 \in Items /\ UNCHANGED <<sideband, handed, conversation>>
        /\ \/ fromProvider' = fromProvider \o Append(turn, c) /\ Len(responses) + 1 \in Responses
           \/ fromProvider' = fromProvider \o turn
    <3>1. /\ items \in Items \cup {0} /\ responses \in Seq(Items \cup {0}) /\ items < MaxTurns
      BY <1>2 DEF SidebandInv, TypeOK, BookInv, UserStops
    <3>2. items + 1 \in Items /\ Len(responses) \in Nat
      BY <3>1, BoundsTyped DEF Items
    <3>3. Len(responses) < MaxResponses => Len(responses) + 1 \in Responses
      BY <3>2, BoundsTyped DEF Responses
    <3>4. UNCHANGED <<sideband, handed, conversation>>
      BY <1>2 DEF UserStops
    <3>5. \/ /\ fromProvider' = fromProvider \o Append(turn, c)
             /\ Len(responses) < MaxResponses
          \/ fromProvider' = fromProvider \o turn
      BY <1>2 DEF UserStops, Emit, Created
    <3> HIDE DEF turn, c
    <3> QED BY <3>2, <3>3, <3>4, <3>5
  <2>2. a \in Event /\ b \in Event /\ a.type # "done" /\ b.type # "done" /\ c.type # "done"
        /\ (Len(responses) + 1 \in Responses => c \in Event)
    BY <2>1 DEF Event
  <2> HIDE DEF a, b, c
  <2>3. CASE fromProvider' = fromProvider \o turn
    <3>1. turn \in Seq(Event) /\ \A k \in DOMAIN turn : turn[k].type # "done"
      BY <2>2
    <3> QED BY <2>1, <2>3, <3>1, QuietDelivers
  <2>4. CASE /\ fromProvider' = fromProvider \o Append(turn, c)
             /\ Len(responses) + 1 \in Responses
    <3>1. Append(turn, c) \in Seq(Event)
          /\ \A k \in DOMAIN Append(turn, c) : Append(turn, c)[k].type # "done"
      BY <2>2, <2>4
    <3> QED BY <2>1, <2>4, <3>1, QuietDelivers
  <2> QED BY <2>1, <2>3, <2>4
<1> QED BY <1>1, <1>2

\* The calls of a response that ends are new: no queued event, and nothing handed
\* over, is beyond the calls issued.
LEMMA ResponseEndsDelivers == SidebandInv /\ DeliveryInv /\ ResponseEnds => DeliveryInv'
<1> SUFFICES ASSUME SidebandInv, DeliveryInv, ResponseEnds PROVE DeliveryInv'
  OBVIOUS
<1>1. PICK n \in 0..2 :
        /\ Len(issued) + n <= MaxCalls
        /\ Emit(<<[type |-> "done", response |-> active,
                   calls |-> [i \in 1..n |-> Len(issued) + i]]>>)
  BY DEF ResponseEnds
<1> DEFINE q == fromProvider
           calls == [i \in 1..n |-> Len(issued) + i]
           d == [type |-> "done", response |-> active, calls |-> calls]
<1>2. /\ q \in Seq(Event) /\ active \in Responses /\ issued \in Seq(Responses)
      /\ Len(issued) \in Nat /\ UNCHANGED <<sideband, handed, conversation>>
      /\ fromProvider' = q \o <<d>> /\ CallsOnce(q, HandedCalls)
  <2>1. /\ q \in Seq(Event) /\ active \in Responses /\ issued \in Seq(Responses)
        /\ UNCHANGED <<sideband, handed, conversation>> /\ CallsOnce(q, HandedCalls)
    BY BoundsTyped DEF SidebandInv, TypeOK, ResponseEnds, DeliveryInv, Responses
  <2>2. fromProvider' = q \o <<d>>
    BY <1>1 DEF Emit
  <2> QED BY <2>1, <2>2
<1>3. calls \in Seq(Calls) /\ DOMAIN calls = 1..n /\ \A i \in 1..n : calls[i] = Len(issued) + i
  <2>1. \A i \in 1..n : Len(issued) + i \in Calls
    BY <1>1, <1>2, BoundsTyped DEF Calls
  <2>2. calls \in [1..n -> Calls] /\ n \in Nat
    BY <2>1
  <2> QED BY <2>2
<1>4. d.type = "done" /\ d.calls = calls
  OBVIOUS
<1> HIDE DEF calls
<1>5. d \in Event
  BY <1>2, <1>3 DEF Event
<1> HIDE DEF d
<1>6. IsInjective(d.calls) /\ \A c \in CallsOf(d) : c > Len(issued)
  <2>1. PICK l : l = Len(issued)
    OBVIOUS
  <2>2. DOMAIN calls = 1..n /\ l \in Nat /\ n \in Nat /\ \A i \in 1..n : calls[i] = l + i
    BY <1>1, <1>2, <1>3, <2>1
  <2>3. IsInjective(calls)
    BY <2>2 DEF IsInjective
  <2>4. \A c \in Range(calls) : c > l
    BY <2>2 DEF Range
  <2> QED BY <1>4, <2>1, <2>3, <2>4 DEF CallsOf
<1>7. \A c \in HandedCalls : c \in 1..Len(issued)
  BY <1>2 DEF SidebandInv, BookInv, HandedCalls
<1>8. ASSUME NEW k \in DOMAIN q, NEW c \in CallsOf(q[k]) PROVE c \in 1..Len(issued)
  BY <1>2, <1>8 DEF SidebandInv, QueueBooks, QueueInv, DoneKnown, CallsOf, Range
<1>9. CallsOf(d) \cap HandedCalls = {} /\ \A k \in DOMAIN q : CallsOf(q[k]) \cap CallsOf(d) = {}
  BY <1>2, <1>6, <1>7, <1>8
<1>10. CallsOnce(Append(q, d), HandedCalls) /\ fromProvider' = Append(q, d)
  <2>1. q \o <<d>> = Append(q, d)
    BY <1>2, <1>5
  <2> QED BY <1>2, <1>5, <1>6, <1>9, <2>1, CallsGrow
<1> QED BY <1>2, <1>10 DEF DeliveryInv, HandedCalls

\* What the provider reads moves from the socket to the conversation; a
\* response.create counts for neither book.
LEMMA ProviderReadsDelivers == SidebandInv /\ DeliveryInv /\ ProviderReads => DeliveryInv'
<1> SUFFICES ASSUME SidebandInv, DeliveryInv, ProviderReads PROVE DeliveryInv'
  OBVIOUS
<1> DEFINE socket == sideband.socket
           rest == Tail(sideband.socket)
           m == Head(sideband.socket)
<1>1. /\ sideband \in Fields /\ socket \in Seq(Message) /\ socket # <<>>
      /\ conversation \in Seq(Message) /\ sideband' = [sideband EXCEPT !.socket = rest]
      /\ handed' = handed /\ fromProvider \in Seq(Event)
  BY DEF SidebandInv, TypeOK, ProviderReads, Fields
<1>2. m \in Message /\ rest \in Seq(Message) /\ socket = <<m>> \o rest
  BY <1>1
<1>3. /\ sideband'.socket = rest /\ sideband'.closed = sideband.closed
      /\ sideband'.pendingResults = sideband.pendingResults
      /\ sideband'.submitted = sideband.submitted
      /\ sideband'.progressNotesSent = sideband.progressNotesSent
      /\ sideband'.pendingProgressNote = sideband.pendingProgressNote
      /\ sideband'.progressSuppressed = sideband.progressSuppressed
  BY <1>1 DEF Fields
<1>4. CallsOnce(fromProvider', HandedCalls)
  <2>1. CASE fromProvider' = fromProvider
    BY <2>1 DEF DeliveryInv
  <2>2. CASE Created(items) /\ Emit(<<[type |-> "created", response |-> Len(responses) + 1]>>)
    <3> DEFINE more == <<[type |-> "created", response |-> Len(responses) + 1]>>
    <3>1. fromProvider' = fromProvider \o more /\ Len(responses) + 1 \in Responses
      BY <2>2, BoundsTyped DEF Emit, Created, Responses, SidebandInv, TypeOK
    <3>2. more \in Seq(Event) /\ \A k \in DOMAIN more : more[k].type # "done"
      BY <3>1 DEF Event
    <3> HIDE DEF more
    <3> QED BY <1>1, <3>1, <3>2, CallsStay DEF DeliveryInv
  <2> QED BY <2>1, <2>2 DEF ProviderReads
<1>5. \/ m.type # "create" /\ conversation' = Append(conversation, m)
      \/ m.type = "create" /\ conversation' = conversation
  BY DEF ProviderReads
<1> HIDE DEF m, rest
<1>6. /\ OfType("note", conversation' \o rest) = OfType("note", conversation \o socket)
      /\ Answering(conversation' \o rest) = Answering(conversation \o socket)
  <2>1. CASE m.type # "create" /\ conversation' = Append(conversation, m)
    <3>1. conversation' \o rest = conversation \o socket
      BY <1>1, <1>2, <2>1
    <3> QED BY <3>1
  <2>2. CASE m.type = "create" /\ conversation' = conversation
    <3>1. OfType("note", <<m>>) = <<>> /\ Answering(<<m>>) = <<>>
      BY <1>2, <2>2, OfTypeOne, AnsweringOther
    <3>2. <<m>> \in Seq(Message) /\ <<>> \o OfType("note", rest) = OfType("note", rest)
          /\ <<>> \o Answering(rest) = Answering(rest)
      BY <1>2, OfTypeIs, AnsweringIs
    <3>3. OfType("note", socket) = OfType("note", rest) /\ Answering(socket) = Answering(rest)
      BY <1>2, <3>1, <3>2, OfTypeConcat, AnsweringConcat
    <3>4. PICK before, left, sent : before = conversation /\ left = rest /\ sent = socket
      OBVIOUS
    <3>5. before \in Seq(Message) /\ left \in Seq(Message) /\ sent \in Seq(Message)
      BY <1>1, <1>2, <3>4
    <3>6. /\ OfType("note", before \o left) = OfType("note", before) \o OfType("note", left)
          /\ OfType("note", before \o sent) = OfType("note", before) \o OfType("note", sent)
          /\ Answering(before \o left) = Answering(before) \o Answering(left)
          /\ Answering(before \o sent) = Answering(before) \o Answering(sent)
      BY <3>5, OfTypeConcat, AnsweringConcat
    <3>7. OfType("note", sent) = OfType("note", left) /\ Answering(sent) = Answering(left)
      BY <3>3, <3>4
    <3>8. conversation' \o rest = before \o left /\ conversation \o socket = before \o sent
      BY <2>2, <3>4
    <3> QED BY <3>6, <3>7, <3>8
  <2> QED BY <1>5, <2>1, <2>2
<1>7. Books(conversation', sideband')
  BY <1>3, <1>6 DEF DeliveryInv, Books, NoteBook, ResultBook
<1> QED BY <1>1, <1>3, <1>4, <1>7 DEF DeliveryInv, HandedCalls

LEMMA DeliverySteps == SidebandInv /\ DeliveryInv /\ [Next]_vars => DeliveryInv'
<1> SUFFICES ASSUME SidebandInv, DeliveryInv, [Next]_vars PROVE DeliveryInv'
  OBVIOUS
<1>1. CASE UNCHANGED vars
  BY <1>1 DEF vars, provider, DeliveryInv, HandedCalls
<1> QED BY <1>1, HandleMessageDelivers, AnswerDelivers, InjectDelivers, CloseDelivers,
           UserDelivers, ResponseEndsDelivers, ProviderReadsDelivers DEF Next

LEMMA AlwaysHolds == Spec => []SidebandInv
  BY InitHolds, StepHolds, PTL DEF Spec

LEMMA AlwaysDelivers == Spec => []DeliveryInv
  BY AlwaysHolds, DeliveryStarts, DeliverySteps, PTL DEF Spec

\* Every variable keeps its type: the queues hold well-formed events and messages
\* whatever the socket refuses and however the provider's events interleave.
THEOREM TypeCorrect == Spec => []TypeOK
<1>1. SidebandInv => TypeOK
  BY DEF SidebandInv
<1> QED BY <1>1, AlwaysHolds, PTL

\* Once the sideband has caught up with an idle provider it believes it is idle and
\* no result waits: no refused response.create, interrupted response or order of
\* events leaves the gate shut.
THEOREM GateNeverStuck == Spec => []GateReopens
<1>1. SidebandInv => GateReopens
  <2> SUFFICES ASSUME SidebandInv, ~sideband.closed, fromProvider = <<>>,
                      sideband.socket = <<>>, active = 0, ~speaking
               PROVE  ~Gated(sideband) /\ sideband.pendingResults = <<>>
    BY DEF GateReopens
  <2>1. DOMAIN fromProvider = {} /\ DOMAIN sideband.socket = {}
    OBVIOUS
  <2>2. ~sideband.responseInProgress
    BY <2>1 DEF SidebandInv, GateInv, HasCreate
  <2>3. sideband.userSpeaking = speaking
    BY <2>1 DEF SidebandInv, QueueBooks, QueueInv, SpeechKnown
  <2>4. ~Gated(sideband)
    BY <2>2, <2>3 DEF Gated
  <2> QED BY <2>4 DEF SidebandInv, GateInv
<1> QED BY <1>1, AlwaysHolds, PTL

\* A tool call is attributed to the user item its response followed at the provider,
\* however many turns begin and end before the response does.
THEOREM CallsKeepTheirItem == Spec => []CallsBoundToTheirItem
<1>1. SidebandInv => CallsBoundToTheirItem
  BY DEF SidebandInv, BookInv, CallsBoundToTheirItem
<1> QED BY <1>1, AlwaysHolds, PTL

\* No result is lost, doubled or reordered between the dispatcher and the model,
\* though the gate shuts, the socket throws between two of them and a listener
\* answers from inside response.done; and no call has more progress notes than
\* its budget and the one marker that ends them.
THEOREM ResultsAndNotesKept == Spec => []DeliveriesKept
<1>1. SidebandInv /\ DeliveryInv => DeliveriesKept
  <2> SUFFICES ASSUME SidebandInv, DeliveryInv PROVE DeliveriesKept
    OBVIOUS
  <2>1. TypeOK /\ ResultsConserved
    BY DEF SidebandInv, DeliveryInv, Books, ResultBook, ResultsConserved
  <2>2. NotesWithinBudget
    BY DEF DeliveryInv, Books, NoteBook, NotesWithinBudget
  <2> QED BY <2>1, <2>2 DEF DeliveriesKept
<1> QED BY <1>1, AlwaysHolds, AlwaysDelivers, PTL
=============================================================================
