------------------------- MODULE MessageRelayProofs -------------------------
(***************************************************************************)
(* What Kept, the operator all queues of the relay and of the runner are   *)
(* filtered with, does to a queue of any length.  Induction over its       *)
(* positions is by the least one at which a fact fails.                    *)
(***************************************************************************)
EXTENDS MessageRelay, Functions, WellFoundedInduction, TLAPS

\* A non-empty set of natural numbers has a least element.
LEMMA Least ==
    ASSUME NEW T, T \subseteq Nat, T # {}
    PROVE  \E x \in T : \A y \in T : x <= y
  <1> DEFINE R == {ss \in Nat \X Nat : ss[1] < ss[2]}
  <1>1. OpToRel(<, Nat) = R
    BY Zenon DEF OpToRel
  <1>2. PICK x \in T : \A y \in T : <<y, x>> \notin R
    BY ZenonT(30), <1>1, NatLessThanWellFounded, WFMin
  <1>3. \A y \in Nat : y < x => <<y, x>> \in R
    OBVIOUS
  <1>4. \A y \in T : ~(y < x)
    BY Zenon, <1>2, <1>3
  <1> QED
    BY <1>4

\* The equations of the recursion in Kept, up to position m.
KeepsUpTo(f, queue, I, m) ==
    f = [n \in 0..m |-> IF n = 0 THEN <<>>
                        ELSE IF n \in I THEN Append(f[n - 1], queue[n]) ELSE f[n - 1]]

\* They have a solution.
LEMMA KeptExists ==
    ASSUME NEW S, NEW queue \in Seq(S), NEW I
    PROVE  \E f : KeepsUpTo(f, queue, I, Len(queue))
  <1> DEFINE P(m) == \E f : KeepsUpTo(f, queue, I, m)
             T == {m \in Nat : ~P(m)}
  <1>1. P(0)
    <2> DEFINE f == [n \in 0..0 |-> <<>>]
    <2>1. KeepsUpTo(f, queue, I, 0)
      BY DEF KeepsUpTo
    <2> QED
      BY Zenon, <2>1
  <1>2. ASSUME NEW m \in Nat, P(m) PROVE P(m + 1)
    <2>1. PICK f : KeepsUpTo(f, queue, I, m)
      BY Zenon, <1>2
    <2> DEFINE g == [n \in 0..(m + 1) |->
                       IF n \in 0..m THEN f[n]
                       ELSE IF n \in I THEN Append(f[m], queue[n]) ELSE f[m]]
    <2>2. \A n \in 0..m : f[n] = IF n = 0 THEN <<>>
                        ELSE IF n \in I THEN Append(f[n - 1], queue[n]) ELSE f[n - 1]
      BY Zenon, <2>1 DEF KeepsUpTo
    <2>3. \A n \in 0..(m + 1) : g[n] = IF n = 0 THEN <<>>
                        ELSE IF n \in I THEN Append(g[n - 1], queue[n]) ELSE g[n - 1]
      BY <2>2
    <2>4. g = [n \in 0..(m + 1) |-> IF n = 0 THEN <<>>
                        ELSE IF n \in I THEN Append(g[n - 1], queue[n]) ELSE g[n - 1]]
      BY Zenon, <2>3
    <2> QED
      BY Zenon, <2>4 DEF KeepsUpTo
  <1> HIDE DEF P
  <1>3. ASSUME T # {} PROVE FALSE
    <2>1. PICK m \in T : \A y \in T : m <= y
      BY Zenon, <1>3, Least
    <2>2. m # 0
      BY Zenon, <1>1, <2>1
    <2>3. m - 1 \in Nat /\ m - 1 \notin T
      BY <2>1, <2>2
    <2>4. P(m - 1)
      BY Zenon, <2>3
    <2>5. P((m - 1) + 1)
      BY Zenon, <1>2, <2>3, <2>4
    <2> QED
      BY <2>1, <2>5
  <1>4. P(Len(queue))
    BY <1>3
  <1> QED
    BY Zenon, <1>4 DEF P

\* Kept is the last value of a solution.
LEMMA KeptSolves ==
    ASSUME NEW S, NEW queue \in Seq(S), NEW I
    PROVE  \E f : Kept(queue, I) = f[Len(queue)] /\ KeepsUpTo(f, queue, I, Len(queue))
  <1> DEFINE F == CHOOSE f : KeepsUpTo(f, queue, I, Len(queue))
  <1>1. KeepsUpTo(F, queue, I, Len(queue))
    BY Zenon, KeptExists
  <1>2. Kept(queue, I) = F[Len(queue)]
    BY Zenon DEF Kept, KeepsUpTo
  <1> QED
    BY Zenon, <1>1, <1>2

\* A sequence over S has the elements of the queue at the positions in I, and no
\* others.
Selects(kept, queue, I, S) ==
    /\ kept \in Seq(S)
    /\ \A k \in 1..Len(kept) : \E i \in 1..Len(queue) : i \in I /\ kept[k] = queue[i]
    /\ \A i \in 1..Len(queue) : i \in I => \E k \in 1..Len(kept) : kept[k] = queue[i]

\* Kept yields such a sequence.
LEMMA KeptElements ==
    ASSUME NEW S, NEW queue \in Seq(S), NEW I
    PROVE  Selects(Kept(queue, I), queue, I, S)
  <1>1. PICK f : Kept(queue, I) = f[Len(queue)] /\ KeepsUpTo(f, queue, I, Len(queue))
    BY Zenon, KeptSolves
  <1> DEFINE P(m) == /\ f[m] \in Seq(S)
                     /\ \A k \in 1..Len(f[m]) : \E i \in 1..m : i \in I /\ f[m][k] = queue[i]
                     /\ \A i \in 1..m : i \in I => \E k \in 1..Len(f[m]) : f[m][k] = queue[i]
             T == {m \in Nat : m <= Len(queue) /\ ~P(m)}
  <1>2. P(0)
    BY <1>1 DEF KeepsUpTo
  <1>3. ASSUME NEW m \in Nat, m < Len(queue), P(m) PROVE P(m + 1)
    <2>0. \A n \in 0..Len(queue) : f[n] = IF n = 0 THEN <<>>
                        ELSE IF n \in I THEN Append(f[n - 1], queue[n]) ELSE f[n - 1]
      BY Zenon, <1>1 DEF KeepsUpTo
    <2>1. f[m + 1] = IF m + 1 \in I THEN Append(f[m], queue[m + 1]) ELSE f[m]
      BY <1>3, <2>0
    <2>2. CASE m + 1 \in I
      <3>1. /\ f[m + 1] = Append(f[m], queue[m + 1]) /\ queue[m + 1] \in S
            /\ f[m] \in Seq(S) /\ Len(f[m + 1]) = Len(f[m]) + 1 /\ f[m + 1] \in Seq(S)
        BY <1>3, <2>1, <2>2
      <3>2. /\ \A k \in 1..Len(f[m]) : f[m + 1][k] = f[m][k]
            /\ f[m + 1][Len(f[m]) + 1] = queue[m + 1]
        BY <3>1
      <3>3. \A k \in 1..Len(f[m + 1]) : \E i \in 1..(m + 1) : i \in I /\ f[m + 1][k] = queue[i]
        <4> SUFFICES ASSUME NEW k \in 1..Len(f[m + 1])
                     PROVE  \E i \in 1..(m + 1) : i \in I /\ f[m + 1][k] = queue[i]
          OBVIOUS
        <4>1. CASE k \in 1..Len(f[m])
          BY <1>3, <3>2, <4>1
        <4>2. CASE k = Len(f[m]) + 1
          BY <2>2, <3>2, <4>2
        <4> QED
          BY <3>1, <4>1, <4>2
      <3>4. \A i \in 1..(m + 1) : i \in I => \E k \in 1..Len(f[m + 1]) : f[m + 1][k] = queue[i]
        <4> SUFFICES ASSUME NEW i \in 1..(m + 1), i \in I
                     PROVE  \E k \in 1..Len(f[m + 1]) : f[m + 1][k] = queue[i]
          OBVIOUS
        <4>1. CASE i \in 1..m
          BY <1>3, <3>1, <3>2, <4>1
        <4>2. CASE i = m + 1
          BY <3>1, <3>2, <4>2
        <4> QED
          BY <4>1, <4>2
      <3> QED
        BY Zenon, <3>1, <3>3, <3>4
    <2>3. CASE m + 1 \notin I
      <3>1. f[m + 1] = f[m]
        BY Zenon, <2>1, <2>3
      <3>2. \A i \in 1..(m + 1) : i \in I => i \in 1..m
        BY <1>3, <2>3
      <3>3. 1..m \subseteq 1..(m + 1)
        BY <1>3
      <3> QED
        BY Zenon, <1>3, <3>1, <3>2, <3>3
    <2> QED
      BY Zenon, <2>2, <2>3
  <1> HIDE DEF P
  <1>4. ASSUME T # {} PROVE FALSE
    <2>1. PICK m \in T : \A y \in T : m <= y
      BY Zenon, <1>4, Least
    <2>2. m # 0
      BY Zenon, <1>2, <2>1
    <2>3. m - 1 \in Nat /\ m - 1 < Len(queue) /\ m - 1 \notin T
      BY <2>1, <2>2
    <2>4. P(m - 1)
      BY <2>1, <2>3
    <2>5. P((m - 1) + 1)
      BY Zenon, <1>3, <2>3, <2>4
    <2> QED
      BY <2>1, <2>5
  <1>5. P(Len(queue))
    BY <1>4
  <1> QED
    BY Zenon, <1>1, <1>5 DEF P, Selects

\* No element is at two of the positions in I.
DistinctAt(queue, I) ==
    \A i, j \in 1..Len(queue) : i \in I /\ j \in I /\ queue[i] = queue[j] => i = j

\* A queue without repetitions among what is kept is filtered to one without any.
LEMMA KeptOnce ==
    ASSUME NEW S, NEW queue \in Seq(S), NEW I, DistinctAt(queue, I)
    PROVE  IsInjective(Kept(queue, I))
  <1>1. PICK f : Kept(queue, I) = f[Len(queue)] /\ KeepsUpTo(f, queue, I, Len(queue))
    BY Zenon, KeptSolves
  <1> DEFINE P(m) == /\ f[m] \in Seq(S)
                     /\ \A k \in 1..Len(f[m]) : \E i \in 1..m : i \in I /\ f[m][k] = queue[i]
                     /\ \A k, l \in 1..Len(f[m]) : f[m][k] = f[m][l] => k = l
             T == {m \in Nat : m <= Len(queue) /\ ~P(m)}
  <1>2. P(0)
    BY <1>1 DEF KeepsUpTo
  <1>3. ASSUME NEW m \in Nat, m < Len(queue), P(m) PROVE P(m + 1)
    <2>0. \A n \in 0..Len(queue) : f[n] = IF n = 0 THEN <<>>
                        ELSE IF n \in I THEN Append(f[n - 1], queue[n]) ELSE f[n - 1]
      BY Zenon, <1>1 DEF KeepsUpTo
    <2>1. f[m + 1] = IF m + 1 \in I THEN Append(f[m], queue[m + 1]) ELSE f[m]
      <3> HIDE DEF P
      <3>1. m + 1 \in 0..Len(queue) /\ m + 1 # 0 /\ (m + 1) - 1 = m
        BY <1>3
      <3> QED
        BY Zenon, <2>0, <3>1
    <2>2. CASE m + 1 \in I
      <3>1. /\ f[m + 1] = Append(f[m], queue[m + 1]) /\ queue[m + 1] \in S
            /\ f[m] \in Seq(S) /\ Len(f[m + 1]) = Len(f[m]) + 1 /\ f[m + 1] \in Seq(S)
        BY <1>3, <2>1, <2>2
      <3>2. /\ \A k \in 1..Len(f[m]) : f[m + 1][k] = f[m][k]
            /\ f[m + 1][Len(f[m]) + 1] = queue[m + 1]
        BY <3>1
      <3>3. \A k \in 1..Len(f[m]) : f[m][k] # queue[m + 1]
        <4> SUFFICES ASSUME NEW k \in 1..Len(f[m]), f[m][k] = queue[m + 1]
                     PROVE  FALSE
          OBVIOUS
        <4>1. PICK i \in 1..m : i \in I /\ queue[i] = queue[m + 1]
          BY Zenon, <1>3
        <4>2. i \in 1..Len(queue) /\ m + 1 \in 1..Len(queue) /\ i # m + 1
          BY <1>3
        <4> QED
          BY Zenon, <2>2, <4>1, <4>2 DEF DistinctAt
      <3>4. \A k \in 1..Len(f[m + 1]) : \E i \in 1..(m + 1) : i \in I /\ f[m + 1][k] = queue[i]
        <4> SUFFICES ASSUME NEW k \in 1..Len(f[m + 1])
                     PROVE  \E i \in 1..(m + 1) : i \in I /\ f[m + 1][k] = queue[i]
          OBVIOUS
        <4>1. CASE k \in 1..Len(f[m])
          BY <1>3, <3>2, <4>1
        <4>2. CASE k = Len(f[m]) + 1
          BY <2>2, <3>2, <4>2
        <4> QED
          BY <3>1, <4>1, <4>2
      <3>5. \A k, l \in 1..Len(f[m + 1]) : f[m + 1][k] = f[m + 1][l] => k = l
        <4> SUFFICES ASSUME NEW k \in 1..Len(f[m + 1]), NEW l \in 1..Len(f[m + 1]),
                            f[m + 1][k] = f[m + 1][l]
                     PROVE  k = l
          OBVIOUS
        <4>1. /\ k \in 1..Len(f[m]) \/ k = Len(f[m]) + 1
              /\ l \in 1..Len(f[m]) \/ l = Len(f[m]) + 1
          BY <3>1
        <4>2. CASE k \in 1..Len(f[m]) /\ l \in 1..Len(f[m])
          BY Zenon, <1>3, <3>2, <4>2
        <4> QED
          BY Zenon, <3>2, <3>3, <4>1, <4>2
      <3> QED
        BY Zenon, <3>1, <3>4, <3>5
    <2>3. CASE m + 1 \notin I
      <3>1. f[m + 1] = f[m]
        BY Zenon, <2>1, <2>3
      <3>2. 1..m \subseteq 1..(m + 1)
        BY <1>3
      <3> QED
        BY Zenon, <1>3, <3>1, <3>2
    <2> QED
      BY Zenon, <2>2, <2>3
  <1> HIDE DEF P
  <1>4. ASSUME T # {} PROVE FALSE
    <2>1. PICK m \in T : \A y \in T : m <= y
      BY Zenon, <1>4, Least
    <2>2. m # 0
      BY Zenon, <1>2, <2>1
    <2>3. m - 1 \in Nat /\ m - 1 < Len(queue) /\ m - 1 \notin T
      BY <2>1, <2>2
    <2>4. P(m - 1)
      BY <2>1, <2>3
    <2>5. P((m - 1) + 1)
      BY Zenon, <1>3, <2>3, <2>4
    <2> QED
      BY <2>1, <2>5
  <1>5. P(Len(queue))
    BY <1>4
  <1>6. f[Len(queue)] \in Seq(S) /\ DOMAIN f[Len(queue)] = 1..Len(f[Len(queue)])
    BY <1>5 DEF P
  <1> QED
    BY Zenon, <1>1, <1>5, <1>6 DEF P, IsInjective

\* A queue without repetitions is filtered to one without repetitions.
LEMMA KeptInjective ==
    ASSUME NEW S, NEW queue \in Seq(S), NEW I, IsInjective(queue)
    PROVE  IsInjective(Kept(queue, I))
  <1>1. DOMAIN queue = 1..Len(queue)
    OBVIOUS
  <1>2. DistinctAt(queue, I)
    BY Zenon, <1>1 DEF DistinctAt, IsInjective
  <1> QED
    BY Zenon, <1>2, KeptOnce
=============================================================================
