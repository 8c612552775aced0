-------------------------- MODULE SenderKeysProofs --------------------------
(***************************************************************************)
(* Nobody but the recipients of a message can open it, for any number of   *)
(* workers, broadcasts, failures and lost answers.                         *)
(*                                                                         *)
(* Who holds a sender key is decided by the runner's script.  So the first *)
(* part is about the scripts: whatever an enrolment or a refresh is put    *)
(* together of, only members of the group take its steps and are handed    *)
(* keys, and whoever empties its store begins a new generation before it   *)
(* hands its chain out again.  The invariant then says that the current    *)
(* generation of a member is given to members only, unless the member is   *)
(* about to begin a new one; a key counts as given from the moment its     *)
(* distribution is posted, also if the post is repeated or late.           *)
(***************************************************************************)
EXTENDS SenderKeys, MessageRelayProofs, FiniteSetTheorems

\* A step that begins a new generation of the chain of s.
Renewal(st, s) == st.op = "create" /\ st.who = s /\ st.gen # 0

\* A step that goes on with the chain s has, or hands it out.
Uses(st, s) == st.who = s /\ (st.op = "post" \/ (st.op = "create" /\ st.gen = 0))

\* After position i of a script, s begins a new generation before it uses the
\* old one.
RenewsAfter(sc, i, s) ==
    \E j \in 1..Len(sc) :
        j > i /\ Renewal(sc[j], s) /\ \A k \in (i + 1)..(j - 1) : ~Uses(sc[k], s)
Renews(sc, s) == RenewsAfter(sc, 0, s)

\* Every step that empties a store is followed by a renewal.
Resets(sc) ==
    \A i \in 1..Len(sc) : sc[i].op = "reset" => RenewsAfter(sc, i, sc[i].who)

\* The steps of the commands of enrolments and refreshes: W take them, P are
\* their peers, generations are drawn up to g.
Steps(W, P, g) ==
    {st \in [op : {"establish", "reset", "create", "post", "receive", "return"},
             who : W, peer : P, gen : 0..g] : st.op = "post" => st.peer # st.who}

Good(sc, S) == sc \in Seq(S) /\ Resets(sc)
-----------------------------------------------------------------------------
(* Joined.                                                                 *)

\* The equations of its recursion, up to part m.
JoinsUpTo(f, parts, m) ==
    f = [n \in 0..m |-> IF n = 0 THEN <<>> ELSE f[n - 1] \o parts[n]]

-----------------------------------------------------------------------------
(* The runner's lists, and its scripts.                                    *)

\* Without takes members from a list, and keeps it free of repetitions.
LEMMA WithoutList ==
    ASSUME NEW S, NEW list \in Seq(S), NEW X
    PROVE  /\ Without(list, X) \in Seq(S \ X)
           /\ Range(Without(list, X)) = Range(list) \ X
           /\ IsInjective(list) => IsInjective(Without(list, X))
  <1> DEFINE I == {i \in DOMAIN list : list[i] \notin X}
             K == Kept(list, I)
  <1>1. Selects(K, list, I, S)
    BY Zenon, KeptElements
  <1>2. IsInjective(list) => IsInjective(K)
    BY Zenon, KeptInjective
  <1>3. DOMAIN list = 1..Len(list) /\ \A i \in 1..Len(list) : list[i] \in S
    OBVIOUS
  <1>4. Without(list, X) = K
    BY Zenon DEF Without
  <1> HIDE DEF K
  <1>5. K \in Seq(S)
    BY Zenon, <1>1 DEF Selects
  <1>6. DOMAIN K = 1..Len(K)
    BY <1>5
  <1>7. \A k \in 1..Len(K) : \E i \in 1..Len(list) : list[i] \notin X /\ K[k] = list[i]
    BY Zenon, <1>1 DEF Selects
  <1>8. \A i \in 1..Len(list) : list[i] \notin X => \E k \in 1..Len(K) : K[k] = list[i]
    BY Zenon, <1>1, <1>3 DEF Selects
  <1>9. \A k \in 1..Len(K) : K[k] \in S \ X
    BY Zenon, <1>3, <1>7
  <1>10. K \in Seq(S \ X)
    BY <1>5, <1>9
  <1>11. Range(K) = Range(list) \ X
    BY Zenon, <1>3, <1>6, <1>7, <1>8 DEF Range
  <1> QED
    BY Zenon, <1>2, <1>4, <1>10, <1>11

\* What the two scripts of the runner renew. A refresh (an empty one is no steps)
\* renews every member's key and an enrolment the joiner's, before the worker's
\* next use of it, and after every step that empties the worker's store.
LEMMA ScriptsGood ==
    /\ \A Q : \A members \in Seq(Q) : \A first \in Nat :
         IsInjective(members) =>
           LET P == Range(members)
               sc == RefreshScript(members, first)
           IN  /\ Good(sc, Steps(P, P, first + Len(members)))
               /\ \A s \in P : Renews(sc, s)
    /\ \A first \in Nat : RefreshScript(<<>>, first) = <<>>
    /\ \A Q : \A members \in Seq(Q) : \A joiner : \A gen \in Nat \ {0} :
         joiner \notin Range(members) =>
           LET P == Range(members) \cup {joiner}
               sc == EnrollScript(joiner, members, gen)
           IN  Good(sc, Steps(P, P, gen)) /\ Renews(sc, joiner)
  (* Scripts that are put together.                                          *)
  \* The first steps keep what they renew.
  <1>ConcatFirst.
      ASSUME NEW S, NEW a \in Seq(S), NEW b \in Seq(S), NEW i \in 0..Len(a), NEW s,
             RenewsAfter(a, i, s)
      PROVE  RenewsAfter(a \o b, i, s)
    <2> USE <1>ConcatFirst
    <2>1. PICK j \in 1..Len(a) :
              j > i /\ Renewal(a[j], s) /\ \A k \in (i + 1)..(j - 1) : ~Uses(a[k], s)
      BY Zenon DEF RenewsAfter
    <2>2. /\ \A k \in 1..Len(a) : (a \o b)[k] = a[k]
          /\ j \in 1..Len(a \o b)
          /\ \A k \in (i + 1)..(j - 1) : k \in 1..Len(a)
      OBVIOUS
    <2> QED
      BY Zenon, <2>1, <2>2 DEF RenewsAfter

  \* So do the last ones.
  <1>ConcatLast.
      ASSUME NEW S, NEW a \in Seq(S), NEW b \in Seq(S), NEW i \in 0..Len(b), NEW s,
             RenewsAfter(b, i, s)
      PROVE  RenewsAfter(a \o b, Len(a) + i, s)
    <2> USE <1>ConcatLast
    <2>1. PICK j \in 1..Len(b) :
              j > i /\ Renewal(b[j], s) /\ \A k \in (i + 1)..(j - 1) : ~Uses(b[k], s)
      BY Zenon DEF RenewsAfter
    <2>2. /\ Len(a) + j \in 1..Len(a \o b) /\ Len(a) + j > Len(a) + i
          /\ (a \o b)[Len(a) + j] = b[j]
      BY <2>1
    <2>3. ASSUME NEW k \in (Len(a) + i + 1)..((Len(a) + j) - 1)
          PROVE  ~Uses((a \o b)[k], s)
      <3>1. k - Len(a) \in (i + 1)..(j - 1) /\ (a \o b)[k] = b[k - Len(a)]
        OBVIOUS
      <3> QED
        BY Zenon, <2>1, <3>1
    <2> DEFINE n == Len(a) + j
    <2>4. n \in 1..Len(a \o b) /\ n > Len(a) + i /\ Renewal((a \o b)[n], s)
      BY Zenon, <2>1, <2>2
    <2>5. \A k \in (Len(a) + i + 1)..(n - 1) : ~Uses((a \o b)[k], s)
      BY Zenon, <2>3
    <2> HIDE DEF n
    <2> QED
      BY Zenon, <2>4, <2>5 DEF RenewsAfter

  \* The last steps renew what the first ones do not use.
  <1>ConcatUnused.
      ASSUME NEW S, NEW a \in Seq(S), NEW b \in Seq(S), NEW i \in 0..Len(a), NEW s,
             \A k \in 1..Len(a) : ~Uses(a[k], s), Renews(b, s)
      PROVE  RenewsAfter(a \o b, i, s)
    <2> USE <1>ConcatUnused
    <2>0. 0 \in 0..Len(b)
      OBVIOUS
    <2>1. RenewsAfter(a \o b, Len(a) + 0, s)
      BY Zenon, <2>0, <1>ConcatLast DEF Renews
    <2>2. PICK j \in 1..Len(a \o b) :
              /\ j > Len(a) + 0 /\ Renewal((a \o b)[j], s)
              /\ \A k \in (Len(a) + 0 + 1)..(j - 1) : ~Uses((a \o b)[k], s)
      BY Zenon, <2>1 DEF RenewsAfter
    <2>3. \A k \in 1..Len(a) : (a \o b)[k] = a[k]
      OBVIOUS
    <2>4. j > i
      BY <2>2
    <2>5. ASSUME NEW k \in (i + 1)..(j - 1) PROVE ~Uses((a \o b)[k], s)
      <3>1. k \in 1..Len(a) \/ k \in (Len(a) + 0 + 1)..(j - 1)
        BY <2>2
      <3> QED
        BY Zenon, <2>2, <2>3, <3>1
    <2> QED
      BY Zenon, <2>2, <2>4, <2>5 DEF RenewsAfter

  \* Both keep that resets are followed by renewals.
  <1>ConcatGood.
      ASSUME NEW S, NEW a, NEW b, Good(a, S), Good(b, S)
      PROVE  Good(a \o b, S)
    <2> USE <1>ConcatGood
    <2> USE DEF Good
    <2>1. a \o b \in Seq(S)
      OBVIOUS
    <2>2. ASSUME NEW i \in 1..Len(a \o b), (a \o b)[i].op = "reset"
          PROVE  RenewsAfter(a \o b, i, (a \o b)[i].who)
      <3>1. CASE i \in 1..Len(a)
        <4>1. (a \o b)[i] = a[i] /\ i \in 0..Len(a)
          BY <3>1
        <4>2. RenewsAfter(a, i, a[i].who)
          BY Zenon, <2>2, <3>1, <4>1 DEF Resets
        <4> QED
          BY Zenon, <4>1, <4>2, <1>ConcatFirst
      <3>2. CASE i \notin 1..Len(a)
        <4>1. /\ i - Len(a) \in 1..Len(b) /\ i - Len(a) \in 0..Len(b)
              /\ (a \o b)[i] = b[i - Len(a)] /\ Len(a) + (i - Len(a)) = i
          BY <3>2
        <4>2. RenewsAfter(b, i - Len(a), b[i - Len(a)].who)
          BY Zenon, <2>2, <4>1 DEF Resets
        <4> QED
          BY Zenon, <4>1, <4>2, <1>ConcatLast
      <3> QED
        BY Zenon, <3>1, <3>2
    <2> QED
      BY Zenon, <2>1, <2>2 DEF Resets

  \* First steps that only reset s, before its renewal.
  <1>ConcatRenewal.
      ASSUME NEW S, NEW a, a \in Seq(S), NEW b, Good(b, S), NEW s, Renews(b, s),
             \A k \in 1..Len(a) : ~Uses(a[k], s) /\ (a[k].op = "reset" => a[k].who = s)
      PROVE  Good(a \o b, S) /\ Renews(a \o b, s)
    <2> USE <1>ConcatRenewal
    <2> USE DEF Good
    <2>1. a \o b \in Seq(S) /\ 0 \in 0..Len(a)
      OBVIOUS
    <2>2. Renews(a \o b, s)
      BY Zenon, <2>1, <1>ConcatUnused DEF Renews
    <2>3. ASSUME NEW i \in 1..Len(a \o b), (a \o b)[i].op = "reset"
          PROVE  RenewsAfter(a \o b, i, (a \o b)[i].who)
      <3>1. CASE i \in 1..Len(a)
        <4>1. (a \o b)[i] = a[i] /\ i \in 0..Len(a)
          BY <3>1
        <4>2. a[i].who = s
          BY Zenon, <2>3, <3>1, <4>1
        <4> QED
          BY Zenon, <4>1, <4>2, <1>ConcatUnused
      <3>2. CASE i \notin 1..Len(a)
        <4>1. /\ i - Len(a) \in 1..Len(b) /\ i - Len(a) \in 0..Len(b)
              /\ (a \o b)[i] = b[i - Len(a)] /\ Len(a) + (i - Len(a)) = i
          BY <3>2
        <4>2. RenewsAfter(b, i - Len(a), b[i - Len(a)].who)
          BY Zenon, <2>3, <4>1 DEF Resets
        <4> QED
          BY Zenon, <4>1, <4>2, <1>ConcatLast
      <3> QED
        BY Zenon, <3>1, <3>2
    <2> QED
      BY Zenon, <2>1, <2>2, <2>3 DEF Resets

  \* They have a solution.
  <1>JoinedExists.
      ASSUME NEW parts, NEW m \in Nat
      PROVE  \E f : JoinsUpTo(f, parts, m)
    <2> USE <1>JoinedExists
    <2> DEFINE P(n) == \E f : JoinsUpTo(f, parts, n)
               T == {n \in Nat : ~P(n)}
    <2>1. P(0)
      <3> DEFINE f == [n \in 0..0 |-> <<>>]
      <3>1. JoinsUpTo(f, parts, 0)
        BY DEF JoinsUpTo
      <3> QED
        BY Zenon, <3>1
    <2>2. ASSUME NEW n \in Nat, P(n) PROVE P(n + 1)
      <3>1. PICK f : JoinsUpTo(f, parts, n)
        BY Zenon, <2>2
      <3> DEFINE g == [l \in 0..(n + 1) |-> IF l \in 0..n THEN f[l] ELSE f[n] \o parts[l]]
      <3>2. \A l \in 0..n : f[l] = IF l = 0 THEN <<>> ELSE f[l - 1] \o parts[l]
        BY Zenon, <3>1 DEF JoinsUpTo
      <3>3. \A l \in 0..(n + 1) : g[l] = IF l = 0 THEN <<>> ELSE g[l - 1] \o parts[l]
        BY <3>2
      <3>4. g = [l \in 0..(n + 1) |-> IF l = 0 THEN <<>> ELSE g[l - 1] \o parts[l]]
        BY Zenon, <3>3
      <3> QED
        BY Zenon, <3>4 DEF JoinsUpTo
    <2> HIDE DEF P
    <2>3. ASSUME T # {} PROVE FALSE
      <3>1. PICK n \in T : \A y \in T : n <= y
        BY Zenon, <2>3, Least
      <3>2. n # 0
        BY Zenon, <2>1, <3>1
      <3>3. n - 1 \in Nat /\ n - 1 \notin T
        BY <3>1, <3>2
      <3>4. P(n - 1)
        BY Zenon, <3>3
      <3>5. P((n - 1) + 1)
        BY Zenon, <2>2, <3>3, <3>4
      <3> QED
        BY <3>1, <3>5
    <2>4. P(m)
      BY Zenon, <2>3
    <2> QED
      BY Zenon, <2>4 DEF P

  \* Joined is the last value of a solution.
  <1>JoinedSolves.
      ASSUME NEW parts, NEW m \in Nat, m = Len(parts)
      PROVE  \E f : /\ Joined(parts) = f[m] /\ f[0] = <<>>
                    /\ \A n \in 1..m : f[n] = f[n - 1] \o parts[n]
    <2> USE <1>JoinedSolves
    <2> DEFINE F == CHOOSE f : JoinsUpTo(f, parts, m)
    <2>1. JoinsUpTo(F, parts, m)
      BY Zenon, <1>JoinedExists
    <2>2. Joined(parts) = F[m]
      BY Zenon DEF Joined, JoinsUpTo
    <2> HIDE DEF F
    <2>3. \A n \in 0..m : F[n] = IF n = 0 THEN <<>> ELSE F[n - 1] \o parts[n]
      BY Zenon, <2>1 DEF JoinsUpTo
    <2>4. 0 \in 0..m /\ \A n \in 1..m : n \in 0..m /\ n # 0
      OBVIOUS
    <2>5. F[0] = <<>> /\ \A n \in 1..m : F[n] = F[n - 1] \o parts[n]
      BY Zenon, <2>3, <2>4
    <2> QED
      BY Zenon, <2>2, <2>5

  \* Good parts make a good script.
  <1>JoinedGood.
      ASSUME NEW S, NEW m \in Nat, NEW parts, parts \in [1..m -> Seq(S)],
             \A n \in 1..m : Resets(parts[n])
      PROVE  Good(Joined(parts), S)
    <2> USE <1>JoinedGood
    <2>0. m = Len(parts)
      OBVIOUS
    <2>1. PICK f : /\ Joined(parts) = f[m] /\ f[0] = <<>>
                   /\ \A n \in 1..m : f[n] = f[n - 1] \o parts[n]
      BY Zenon, <2>0, <1>JoinedSolves
    <2> DEFINE P(n) == Good(f[n], S)
               T == {n \in Nat : n <= m /\ ~P(n)}
    <2>2. P(0)
      BY <2>1 DEF Good, Resets
    <2>3. ASSUME NEW n \in 1..m, P(n - 1) PROVE P(n)
      <3>1. Good(parts[n], S)
        BY Zenon DEF Good
      <3> QED
        BY Zenon, <2>1, <2>3, <3>1, <1>ConcatGood
    <2> HIDE DEF P
    <2>4. ASSUME T # {} PROVE FALSE
      <3>1. PICK n \in T : \A y \in T : n <= y
        BY Zenon, <2>4, Least
      <3>2. n # 0
        BY Zenon, <2>2, <3>1
      <3>3. n - 1 \in Nat /\ n - 1 <= m /\ n - 1 \notin T /\ n \in 1..m
        BY <3>1, <3>2
      <3>4. P(n - 1)
        BY Zenon, <3>3
      <3> QED
        BY Zenon, <2>3, <3>1, <3>3, <3>4
    <2>5. P(m)
      BY <2>4
    <2> QED
      BY Zenon, <2>1, <2>5 DEF P

  \* The first part that has to do with s renews its chain.
  <1>JoinedRenews.
      ASSUME NEW S, NEW m \in Nat, NEW parts, parts \in [1..m -> Seq(S)],
             NEW s, NEW n \in 1..m, Renews(parts[n], s),
             \A l \in 1..(n - 1) : \A i \in 1..Len(parts[l]) : ~Uses(parts[l][i], s)
      PROVE  Renews(Joined(parts), s)
    <2> USE <1>JoinedRenews
    <2>0. m = Len(parts)
      OBVIOUS
    <2>1. PICK f : /\ Joined(parts) = f[m] /\ f[0] = <<>>
                   /\ \A l \in 1..m : f[l] = f[l - 1] \o parts[l]
      BY Zenon, <2>0, <1>JoinedSolves
    <2> DEFINE P(l) == /\ f[l] \in Seq(S)
                       /\ l < n => \A i \in 1..Len(f[l]) : ~Uses(f[l][i], s)
                       /\ l >= n => Renews(f[l], s)
               T == {l \in Nat : l <= m /\ ~P(l)}
    <2>2. P(0)
      BY <2>1
    <2>3. ASSUME NEW l \in 1..m, P(l - 1) PROVE P(l)
      <3>1. f[l - 1] \in Seq(S) /\ parts[l] \in Seq(S) /\ f[l] = f[l - 1] \o parts[l]
        BY Zenon, <2>1, <2>3
      <3>2. f[l] \in Seq(S) /\ 0 \in 0..Len(f[l - 1])
        BY <3>1
      <3>3. CASE l < n
        <4>1. /\ \A i \in 1..Len(f[l - 1]) : ~Uses(f[l - 1][i], s)
              /\ \A i \in 1..Len(parts[l]) : ~Uses(parts[l][i], s)
          <5>1. l - 1 < n /\ l \in 1..(n - 1)
            BY <3>3
          <5> QED
            BY Zenon, <2>3, <5>1
        <4>2. ASSUME NEW i \in 1..Len(f[l]) PROVE ~Uses(f[l][i], s)
          <5>1. \/ i \in 1..Len(f[l - 1]) /\ f[l][i] = f[l - 1][i]
                \/ /\ i - Len(f[l - 1]) \in 1..Len(parts[l])
                   /\ f[l][i] = parts[l][i - Len(f[l - 1])]
            BY <3>1
          <5> QED
            BY Zenon, <4>1, <5>1
        <4>3. ~(l >= n)
          BY <3>3
        <4> QED
          BY Zenon, <3>2, <4>2, <4>3
      <3>4. CASE l = n
        <4>1. \A i \in 1..Len(f[l - 1]) : ~Uses(f[l - 1][i], s)
          <5>1. l - 1 < n
            BY <3>4
          <5> QED
            BY Zenon, <2>3, <5>1
        <4>2. Renews(f[l], s)
          BY Zenon, <3>1, <3>2, <3>4, <4>1, <1>ConcatUnused DEF Renews
        <4>3. ~(l < n)
          BY <3>4
        <4> QED
          BY Zenon, <3>2, <4>2, <4>3
      <3>5. CASE l > n
        <4>1. Renews(f[l - 1], s)
          <5>1. l - 1 >= n
            BY <3>5
          <5> QED
            BY Zenon, <2>3, <5>1
        <4>2. Renews(f[l], s)
          BY Zenon, <3>1, <3>2, <4>1, <1>ConcatFirst DEF Renews
        <4>3. ~(l < n)
          BY <3>5
        <4> QED
          BY Zenon, <3>2, <4>2, <4>3
      <3>6. l < n \/ l = n \/ l > n
        OBVIOUS
      <3> QED
        BY Zenon, <3>3, <3>4, <3>5, <3>6
    <2> HIDE DEF P
    <2>4. ASSUME T # {} PROVE FALSE
      <3>1. PICK l \in T : \A y \in T : l <= y
        BY Zenon, <2>4, Least
      <3>2. l # 0
        BY Zenon, <2>2, <3>1
      <3>3. l - 1 \in Nat /\ l - 1 <= m /\ l - 1 \notin T /\ l \in 1..m
        BY <3>1, <3>2
      <3>4. P(l - 1)
        BY Zenon, <3>3
      <3> QED
        BY Zenon, <2>3, <3>1, <3>3, <3>4
    <2>5. m <= m /\ m >= n
      OBVIOUS
    <2>6. P(m)
      BY Zenon, <2>4, <2>5
    <2> QED
      BY Zenon, <2>1, <2>5, <2>6 DEF P

  (* The commands.                                                           *)
  \* A step of a command.
  <1>StepOK.
      ASSUME NEW W, NEW P, NEW g \in Nat, NEW w \in W, NEW p \in P, NEW n \in 0..g,
             NEW op \in {"establish", "reset", "create", "post", "receive", "return"},
             op = "post" => p # w
      PROVE  Step(op, w, p, n) \in Steps(W, P, g)
    BY Zenon, <1>StepOK DEF Step, Steps

  \* A script of one step.
  <1>SingleGood.
      ASSUME NEW S, NEW st \in S, st.op # "reset"
      PROVE  Good(<<st>>, S)
    BY <1>SingleGood DEF Good, Resets

  \* The empty script.
  <1>EmptyGood.
      ASSUME NEW S
      PROVE  Good(<<>>, S)
    BY <1>EmptyGood DEF Good, Resets

  \* The answer at the end of a command changes nothing.
  <1>AnsweredGood.
      ASSUME NEW W, NEW P, NEW g \in Nat, NEW w \in W, w \in P,
             NEW steps, Good(steps, Steps(W, P, g))
      PROVE  /\ Good(Answered(w, steps), Steps(W, P, g))
             /\ \A s : Renews(steps, s) => Renews(Answered(w, steps), s)
    <2> USE <1>AnsweredGood
    <2> DEFINE S == Steps(W, P, g)
               last == Step("return", w, w, 0)
    <2>1. last \in S /\ last.op # "reset"
      <3>1. 0 \in 0..g
        OBVIOUS
      <3> QED
        BY Zenon, <3>1 DEF Step, Steps
    <2> HIDE DEF S, last
    <2>2. steps \in Seq(S)
      BY Zenon DEF Good, S
    <2>3. <<last>> \in Seq(S) /\ Append(steps, last) = steps \o <<last>> /\ 0 \in 0..Len(steps)
      BY <2>1, <2>2
    <2>4. Good(steps \o <<last>>, S)
      BY Zenon, <2>1, <1>SingleGood, <1>ConcatGood DEF S
    <2>5. \A s : Renews(steps, s) => Renews(steps \o <<last>>, s)
      BY Zenon, <2>2, <2>3, <1>ConcatFirst DEF Renews
    <2> QED
      BY Zenon, <2>3, <2>4, <2>5 DEF Answered, last, S

  \* A distribution hands out the chain; with a generation it begins a new one
  \* before.
  <1>DistributeGood.
      ASSUME NEW W, NEW P, NEW g \in Nat, NEW w \in W, w \in P,
             NEW recipients \in Seq(P \ {w}), NEW gen \in 0..g
      PROVE  /\ Good(Distribute(w, recipients, gen), Steps(W, P, g))
             /\ gen # 0 => Renews(Distribute(w, recipients, gen), w)
    <2> USE <1>DistributeGood
    <2> DEFINE S == Steps(W, P, g)
               m == Len(recipients)
               parts == [i \in DOMAIN recipients |-> <<Step("post", w, recipients[i], 0)>>]
               first == <<Step("create", w, w, gen)>>
    <2>1. m \in Nat /\ DOMAIN recipients = 1..m /\ 0 \in 0..g
          /\ \A i \in 1..m : recipients[i] \in P \ {w}
      OBVIOUS
    <2>2. \A i \in 1..m : /\ Step("post", w, recipients[i], 0) \in S
                          /\ Step("post", w, recipients[i], 0).op # "reset"
      BY Zenon, <2>1 DEF Step, Steps
    <2> HIDE DEF S
    <2>3. \A i \in 1..m : Good(parts[i], S)
      BY Zenon, <2>1, <2>2, <1>SingleGood
    <2>4. parts \in [1..m -> Seq(S)] /\ \A i \in 1..m : Resets(parts[i])
      BY Zenon, <2>1, <2>3 DEF Good
    <2>5. Good(Joined(parts), S)
      BY Zenon, <2>1, <2>4, <1>JoinedGood
    <2>6. Distribute(w, recipients, gen) = first \o Joined(parts)
      BY Zenon DEF Distribute, Each
    <2>7. Good(first, S) /\ first \in Seq(S)
      <3>1. Step("create", w, w, gen) \in S /\ Step("create", w, w, gen).op # "reset"
        BY Zenon DEF S, Step, Steps
      <3> QED
        BY Zenon, <3>1, <1>SingleGood DEF Good
    <2>8. ASSUME gen # 0 PROVE Renews(first, w)
      <3>1. Renewal(Step("create", w, w, gen), w)
        BY Zenon, <2>8 DEF Renewal, Step
      <3>2. /\ Len(first) = 1 /\ first[1] = Step("create", w, w, gen)
            /\ 1 \in 1..1 /\ 1 > 0 /\ (0 + 1)..(1 - 1) = {}
        OBVIOUS
      <3> QED
        BY Zenon, <3>1, <3>2 DEF Renews, RenewsAfter
    <2> HIDE DEF parts, first
    <2>9. ASSUME gen # 0 PROVE Renews(first \o Joined(parts), w)
      <3>1. 0 \in 0..Len(first) /\ Joined(parts) \in Seq(S)
        BY <2>5, <2>7 DEF Good
      <3> QED
        BY Zenon, <2>7, <2>8, <2>9, <3>1, <1>ConcatFirst DEF Renews
    <2> QED
      BY Zenon, <2>5, <2>6, <2>7, <2>9, <1>ConcatGood DEF S

  \* A command that empties the store of w first and distributes a new generation
  \* at the end, with steps between that do not use the chain.
  <1>ResetGood.
      ASSUME NEW W, NEW P, NEW g \in Nat, NEW w \in W, w \in P,
             NEW between, between \in Seq({st \in Steps(W, P, g) : st.op = "receive"}),
             NEW recipients \in Seq(P \ {w}), NEW gen \in 1..g
      PROVE  LET sc == <<Step("reset", w, w, 0)>> \o between \o Distribute(w, recipients, gen)
             IN  Good(sc, Steps(W, P, g)) /\ Renews(sc, w)
    <2> USE <1>ResetGood
    <2> DEFINE S == Steps(W, P, g)
               a == <<Step("reset", w, w, 0)>> \o between
    <2>1. gen \in 0..g /\ gen # 0 /\ 0 \in 0..g
      OBVIOUS
    <2>2. Step("reset", w, w, 0) \in S
      BY Zenon, <2>1, <1>StepOK
    <2>3. /\ Good(Distribute(w, recipients, gen), S)
          /\ Renews(Distribute(w, recipients, gen), w)
      BY Zenon, <2>1, <1>DistributeGood
    <2>4. between \in Seq(S) /\ \A i \in 1..Len(between) : between[i].op = "receive"
      <3>1. between \in Seq({st \in S : st.op = "receive"})
        OBVIOUS
      <3> HIDE DEF S
      <3> QED
        BY <3>1
    <2> HIDE DEF S
    <2>5. /\ a \in Seq(S)
          /\ \A k \in 1..Len(a) : a[k] = Step("reset", w, w, 0) \/ a[k].op = "receive"
      BY <2>2, <2>4
    <2> HIDE DEF a
    <2>6. \A k \in 1..Len(a) : ~Uses(a[k], w) /\ (a[k].op = "reset" => a[k].who = w)
      <3> SUFFICES ASSUME NEW k \in 1..Len(a)
                   PROVE  ~Uses(a[k], w) /\ (a[k].op = "reset" => a[k].who = w)
        OBVIOUS
      <3>1. CASE a[k] = Step("reset", w, w, 0)
        <4>1. a[k].op = "reset" /\ a[k].who = w
          BY <3>1 DEF Step
        <4> QED
          BY Zenon, <4>1 DEF Uses
      <3>2. CASE a[k].op = "receive"
        BY Zenon, <3>2 DEF Uses
      <3> QED
        BY Zenon, <2>5, <3>1, <3>2
    <2>7. /\ Good(a \o Distribute(w, recipients, gen), S)
          /\ Renews(a \o Distribute(w, recipients, gen), w)
      BY Zenon, <2>3, <2>5, <2>6, <1>ConcatRenewal
    <2> QED
      BY Zenon, <2>7 DEF a, S

  \* More steps may be allowed.
  <1>GoodMonotonic.
      ASSUME NEW S, NEW T, S \subseteq T, NEW sc, Good(sc, S)
      PROVE  Good(sc, T)
    BY <1>GoodMonotonic DEF Good

  \* SenderKeyDistribute with a new generation and an emptied store.
  <1>EagerDistributeGood.
      ASSUME NEW W, NEW P, NEW g \in Nat, NEW w \in W, w \in P,
             NEW recipients \in Seq(P \ {w}), NEW gen \in 1..g
      PROVE  /\ Good(SenderKeyDistribute(w, recipients, gen, TRUE), Steps(W, P, g))
             /\ Renews(SenderKeyDistribute(w, recipients, gen, TRUE), w)
    <2> USE <1>EagerDistributeGood
    <2> DEFINE d == Distribute(w, recipients, gen)
               r == <<Step("reset", w, w, 0)>>
    <2>1. SenderKeyDistribute(w, recipients, gen, TRUE) = Answered(w, r \o d)
      BY Zenon DEF SenderKeyDistribute
    <2>2. <<>> \in Seq({st \in Steps(W, P, g) : st.op = "receive"})
      OBVIOUS
    <2>3. r \o <<>> = r
      OBVIOUS
    <2>4. Good(r \o <<>> \o d, Steps(W, P, g)) /\ Renews(r \o <<>> \o d, w)
      BY Zenon, <2>2, <1>ResetGood
    <2>5. Good(r \o d, Steps(W, P, g)) /\ Renews(r \o d, w)
      BY Zenon, <2>3, <2>4
    <2> QED
      BY Zenon, <2>1, <2>5, <1>AnsweredGood

  \* SenderKeyDistribute with the chain there is.
  <1>LazyDistributeGood.
      ASSUME NEW W, NEW P, NEW g \in Nat, NEW w \in W, w \in P,
             NEW recipients \in Seq(P \ {w}), NEW gen \in 0..g
      PROVE  Good(SenderKeyDistribute(w, recipients, gen, FALSE), Steps(W, P, g))
    <2> USE <1>LazyDistributeGood
    <2> DEFINE d == Distribute(w, recipients, gen)
    <2>1. SenderKeyDistribute(w, recipients, gen, FALSE) = Answered(w, <<>> \o d)
      BY Zenon DEF SenderKeyDistribute
    <2>2. Good(d, Steps(W, P, g))
      BY Zenon, <1>DistributeGood
    <2>3. Good(<<>> \o d, Steps(W, P, g))
      BY Zenon, <2>2, <1>EmptyGood, <1>ConcatGood
    <2> QED
      BY Zenon, <2>1, <2>3, <1>AnsweredGood

  \* SenderKeyReceiveDistribution.
  <1>ReceiveGood.
      ASSUME NEW W, NEW P, NEW g \in Nat, NEW w \in W, w \in P, NEW s \in P, NEW gen \in 0..g
      PROVE  Good(SenderKeyReceiveDistribution(w, s, gen), Steps(W, P, g))
    <2> USE <1>ReceiveGood
    <2> DEFINE st == Step("receive", w, s, gen)
    <2>1. st \in Steps(W, P, g) /\ st.op # "reset"
      BY Zenon DEF Step, Steps
    <2>2. Good(<<st>>, Steps(W, P, g))
      BY Zenon, <2>1, <1>SingleGood
    <2> QED
      BY Zenon, <2>2, <1>AnsweredGood DEF SenderKeyReceiveDistribution

  \* SenderKeyOnboard.
  <1>OnboardGood.
      ASSUME NEW W, NEW P, NEW g \in Nat, NEW w \in W, w \in P,
             NEW members \in Seq(P \ {w}), NEW gen \in 1..g
      PROVE  /\ Good(SenderKeyOnboard(w, members, gen), Steps(W, P, g))
             /\ Renews(SenderKeyOnboard(w, members, gen), w)
    <2> USE <1>OnboardGood
    <2> DEFINE S == {st \in Steps(W, P, g) : st.op = "receive"}
               m == Len(members)
               parts == [i \in DOMAIN members |-> <<Step("receive", w, members[i], 0)>>]
               sc == <<Step("reset", w, w, 0)>> \o Joined(parts) \o Distribute(w, members, gen)
    <2>1. m \in Nat /\ DOMAIN members = 1..m /\ 0 \in 0..g
          /\ \A i \in 1..m : members[i] \in P \ {w}
      OBVIOUS
    <2>2. \A i \in 1..m : /\ Step("receive", w, members[i], 0) \in S
                          /\ Step("receive", w, members[i], 0).op # "reset"
      BY Zenon, <2>1 DEF Step, Steps
    <2> HIDE DEF S
    <2>3. \A i \in 1..m : Good(parts[i], S)
      BY Zenon, <2>1, <2>2, <1>SingleGood
    <2>4. parts \in [1..m -> Seq(S)] /\ \A i \in 1..m : Resets(parts[i])
      BY Zenon, <2>1, <2>3 DEF Good
    <2>5. Good(Joined(parts), S)
      BY Zenon, <2>1, <2>4, <1>JoinedGood
    <2>6. Joined(parts) \in Seq({st \in Steps(W, P, g) : st.op = "receive"})
      BY Zenon, <2>5 DEF Good, S
    <2>7. SenderKeyOnboard(w, members, gen) = Answered(w, sc)
      BY Zenon DEF SenderKeyOnboard, Each
    <2> HIDE DEF parts
    <2>8. Good(sc, Steps(W, P, g)) /\ Renews(sc, w)
      BY Zenon, <2>6, <1>ResetGood
    <2> HIDE DEF sc
    <2> QED
      BY Zenon, <2>7, <2>8, <1>AnsweredGood

  \* All members of a refresh begin a new generation, before they hand it out.
  <1>RefreshGood.
      ASSUME NEW Q, NEW members \in Seq(Q), IsInjective(members), NEW first \in Nat
      PROVE  LET P == Range(members)
                 sc == RefreshScript(members, first)
             IN  /\ Good(sc, Steps(P, P, first + Len(members)))
                 /\ \A s \in P : Renews(sc, s)
    <2> USE <1>RefreshGood
    <2> DEFINE P == Range(members)
               m == Len(members)
               g == first + m
               Drawn(s) == first + CHOOSE i \in DOMAIN members : members[i] = s
               Others(w) == Without(members, {w})
               S == Steps(P, P, g)
               a == [i \in DOMAIN members |->
                        SenderKeyDistribute(members[i], Others(members[i]), Drawn(members[i]), TRUE)]
               Received(r) == [i \in DOMAIN Others(r) |->
                        SenderKeyReceiveDistribution(r, Others(r)[i], Drawn(Others(r)[i]))]
               b == [i \in DOMAIN members |-> Joined(Received(members[i]))]
    <2>1. m \in Nat /\ g \in Nat /\ DOMAIN members = 1..m
      OBVIOUS
    <2>2. \A i \in 1..m : members[i] \in P
      BY Zenon, <2>1 DEF Range
    <2>3. members \in Seq(P)
      BY <2>1, <2>2
    <2>4. \A s \in P : Drawn(s) \in 1..g
      <3> SUFFICES ASSUME NEW s \in P PROVE Drawn(s) \in 1..g
        OBVIOUS
      <3> DEFINE n == CHOOSE i \in DOMAIN members : members[i] = s
      <3>1. \E i \in DOMAIN members : members[i] = s
        BY Zenon DEF Range
      <3>2. n \in DOMAIN members
        BY Zenon, <3>1
      <3> HIDE DEF n
      <3>3. first + n \in 1..g
        BY <2>1, <3>2
      <3> QED
        BY Zenon, <3>3 DEF n
    <2>5. \A s \in P : Others(s) \in Seq(P \ {s})
      BY Zenon, <2>3, WithoutList
    <2>6. RefreshScript(members, first) = Joined(a) \o Joined(b)
      BY Zenon DEF RefreshScript, Each
    <2> HIDE DEF Drawn, Others, S, P, m, g
    <2>7. \A i \in 1..m : /\ a[i] \in Seq(Steps({members[i]}, P, g))
                          /\ Resets(a[i]) /\ Renews(a[i], members[i])
      <3> SUFFICES ASSUME NEW i \in 1..m
                   PROVE  /\ a[i] \in Seq(Steps({members[i]}, P, g))
                          /\ Resets(a[i]) /\ Renews(a[i], members[i])
        OBVIOUS
      <3> DEFINE w == members[i]
      <3>1. w \in P /\ w \in {w} /\ Others(w) \in Seq(P \ {w}) /\ Drawn(w) \in 1..g
        BY Zenon, <2>2, <2>4, <2>5
      <3>2. a[i] = SenderKeyDistribute(w, Others(w), Drawn(w), TRUE)
        BY Zenon, <2>1
      <3> HIDE DEF w, a
      <3>3. /\ Good(SenderKeyDistribute(w, Others(w), Drawn(w), TRUE), Steps({w}, P, g))
            /\ Renews(SenderKeyDistribute(w, Others(w), Drawn(w), TRUE), w)
        BY Zenon, <2>1, <3>1, <1>EagerDistributeGood
      <3> QED
        BY Zenon, <3>2, <3>3 DEF Good, w
    <2>8. \A w \in P : Steps({w}, P, g) \subseteq S
      BY Zenon DEF Steps, S
    <2>9. a \in [1..m -> Seq(S)]
      <3>1. DOMAIN a = 1..m /\ a = [i \in 1..m |-> a[i]]
        BY Zenon, <2>1
      <3> HIDE DEF a
      <3>2. \A i \in 1..m : Good(a[i], S)
        BY Zenon, <2>2, <2>7, <2>8, <1>GoodMonotonic DEF Good
      <3> QED
        BY Zenon, <3>1, <3>2 DEF Good
    <2>10. \A r \in P : Good(Joined(Received(r)), S)
      <3> SUFFICES ASSUME NEW r \in P PROVE Good(Joined(Received(r)), S)
        OBVIOUS
      <3> DEFINE o == Others(r)
                 l == Len(o)
      <3>0. o \in Seq(P \ {r})
        BY Zenon, <2>5
      <3> HIDE DEF o
      <3>5. l \in Nat /\ DOMAIN o = 1..l /\ \A i \in 1..l : o[i] \in P
        BY <3>0
      <3>1. l \in Nat /\ DOMAIN Others(r) = 1..l /\ \A i \in 1..l : Others(r)[i] \in P
        BY Zenon, <3>5 DEF o
      <3> HIDE DEF l
      <3>2. \A i \in 1..l : Drawn(Others(r)[i]) \in 0..g
        BY <2>1, <2>4, <3>1
      <3>3. \A i \in 1..l : Good(Received(r)[i], S)
        <4> SUFFICES ASSUME NEW i \in 1..l PROVE Good(Received(r)[i], S)
          OBVIOUS
        <4> DEFINE s == Others(r)[i]
        <4>1. Received(r)[i] = SenderKeyReceiveDistribution(r, s, Drawn(s))
          BY Zenon, <3>1
        <4>2. s \in P /\ Drawn(s) \in 0..g
          BY Zenon, <3>1, <3>2
        <4> HIDE DEF s, Received
        <4>3. Good(SenderKeyReceiveDistribution(r, s, Drawn(s)), Steps(P, P, g))
          BY Zenon, <2>1, <4>2, <1>ReceiveGood
        <4> QED
          BY Zenon, <4>1, <4>3 DEF S
      <3>4. /\ Received(r) \in [1..l -> Seq(S)]
            /\ \A i \in 1..l : Resets(Received(r)[i])
        BY Zenon, <3>1, <3>3 DEF Good
      <3> HIDE DEF Received
      <3> QED
        BY Zenon, <3>1, <3>4, <1>JoinedGood
    <2> HIDE DEF Received
    <2>11. \A i \in 1..m : Good(b[i], S)
      BY Zenon, <2>1, <2>2, <2>10
    <2>12. b \in [1..m -> Seq(S)] /\ \A i \in 1..m : Resets(b[i])
      BY Zenon, <2>1, <2>11 DEF Good
    <2> HIDE DEF a, b
    <2>13. Good(Joined(a), S) /\ Good(Joined(b), S)
      BY Zenon, <2>1, <2>7, <2>9, <2>12, <1>JoinedGood
    <2>14. \A s \in P : Renews(Joined(a), s)
      <3> SUFFICES ASSUME NEW s \in P PROVE Renews(Joined(a), s)
        OBVIOUS
      <3>1. PICK n \in 1..m : s = members[n]
        BY Zenon, <2>1 DEF P, Range
      <3>2. ASSUME NEW l \in 1..(n - 1), NEW i \in 1..Len(a[l])
            PROVE  ~Uses(a[l][i], s)
        <4>1. l \in 1..m /\ l # n
          BY <2>1
        <4>2. members[l] # members[n]
          BY Zenon, <2>1, <4>1 DEF IsInjective
        <4>3. a[l] \in Seq(Steps({members[l]}, P, g))
          BY Zenon, <2>7, <4>1
        <4>4. a[l][i] \in Steps({members[l]}, P, g)
          BY <4>3
        <4>5. a[l][i].who = members[l]
          BY Zenon, <4>4 DEF Steps
        <4> QED
          BY Zenon, <3>1, <4>2, <4>5 DEF Uses
      <3> QED
        BY Zenon, <2>1, <2>7, <2>9, <3>1, <3>2, <1>JoinedRenews
    <2>15. Joined(a) \in Seq(S) /\ Joined(b) \in Seq(S) /\ 0 \in 0..Len(Joined(a))
      BY <2>13 DEF Good
    <2>16. \A s \in P : Renews(Joined(a) \o Joined(b), s)
      BY Zenon, <2>14, <2>15, <1>ConcatFirst DEF Renews
    <2>17. Good(Joined(a) \o Joined(b), S)
      BY Zenon, <2>13, <1>ConcatGood
    <2> QED
      BY Zenon, <2>6, <2>16, <2>17 DEF S, P, g, m

  \* A refresh without members has no commands.
  <1>RefreshEmpty.
      ASSUME NEW first \in Nat
      PROVE  RefreshScript(<<>>, first) = <<>>
    <2> USE <1>RefreshEmpty
    <2>1. \A f : (f \in [{} -> {}]) => Joined(f) = <<>>
      <3> SUFFICES ASSUME NEW f, f \in [{} -> {}] PROVE Joined(f) = <<>>
        OBVIOUS
      <3>1. f \in [1..0 -> {}] /\ 0 \in Nat
        OBVIOUS
      <3>2. Len(f) = 0
        BY <3>1
      <3> QED
        BY Zenon, <3>1, <3>2, <1>JoinedSolves
    <2> DEFINE Drawn(s) == first + CHOOSE i \in DOMAIN <<>> : <<>>[i] = s
               Others(w) == Without(<<>>, {w})
               a == [i \in DOMAIN <<>> |->
                        SenderKeyDistribute(<<>>[i], Others(<<>>[i]), Drawn(<<>>[i]), TRUE)]
               Received(r) == [i \in DOMAIN Others(r) |->
                        SenderKeyReceiveDistribution(r, Others(r)[i], Drawn(Others(r)[i]))]
               b == [i \in DOMAIN <<>> |-> Joined(Received(<<>>[i]))]
    <2>2. RefreshScript(<<>>, first) = Joined(a) \o Joined(b)
      BY Zenon DEF RefreshScript, Each
    <2> HIDE DEF Drawn, Others, Received
    <2>3. DOMAIN <<>> = {}
      OBVIOUS
    <2>4. a \in [{} -> {}] /\ b \in [{} -> {}]
      BY Zenon, <2>3
    <2>5. Joined(a) = <<>> /\ Joined(b) = <<>>
      BY Zenon, <2>1, <2>4
    <2> HIDE DEF a, b
    <2> QED
      BY <2>2, <2>5

  \* In an enrolment the joiner begins a generation before it hands it out.
  <1>EnrollGood.
      ASSUME NEW Q, NEW members \in Seq(Q), NEW joiner, joiner \notin Range(members),
             NEW gen \in Nat \ {0}
      PROVE  LET P == Range(members) \cup {joiner}
                 sc == EnrollScript(joiner, members, gen)
             IN  Good(sc, Steps(P, P, gen)) /\ Renews(sc, joiner)
    <2> USE <1>EnrollGood
    <2> DEFINE M == Range(members)
               P == M \cup {joiner}
               m == Len(members)
               S == Steps(P, P, gen)
               Met(w) == Answered(w, <<Step("establish", w, joiner, 0)>>)
                            \o SenderKeyDistribute(w, <<joiner>>, 0, FALSE)
               a == [i \in DOMAIN members |-> Met(members[i])]
               b == [i \in DOMAIN members |->
                        SenderKeyReceiveDistribution(members[i], joiner, gen)]
               e == Answered(joiner, <<>>)
               o == SenderKeyOnboard(joiner, members, gen)
    <2>1. /\ m \in Nat /\ DOMAIN members = 1..m /\ gen \in Nat /\ 0 \in 0..gen
          /\ gen \in 0..gen /\ gen \in 1..gen
      OBVIOUS
    <2>2. \A i \in 1..m : members[i] \in M
      BY Zenon, <2>1 DEF Range
    <2>3. members \in Seq(M)
      BY <2>1, <2>2
    <2>4. EnrollScript(joiner, members, gen) = e \o Joined(a) \o o \o Joined(b) \o e
      BY Zenon DEF EnrollScript, Each
    <2>5. joiner \in P /\ joiner \notin M /\ M \subseteq P
      BY Zenon
    <2> HIDE DEF M
    <2>6. \A w \in M : Good(Met(w), Steps(M, P, gen))
      <3> SUFFICES ASSUME NEW w \in M PROVE Good(Met(w), Steps(M, P, gen))
        OBVIOUS
      <3> DEFINE st == Step("establish", w, joiner, 0)
      <3>1. w \in P /\ joiner \in P \ {w}
        BY Zenon, <2>5
      <3> HIDE DEF P
      <3>2. st \in Steps(M, P, gen) /\ st.op # "reset"
        BY Zenon, <2>1, <3>1 DEF Step, Steps
      <3>3. Good(<<st>>, Steps(M, P, gen))
        BY Zenon, <3>2, <1>SingleGood
      <3>4. Good(Answered(w, <<st>>), Steps(M, P, gen))
        BY Zenon, <2>1, <3>1, <3>3, <1>AnsweredGood
      <3>5. <<joiner>> \in Seq(P \ {w})
        BY <3>1
      <3>6. Good(SenderKeyDistribute(w, <<joiner>>, 0, FALSE), Steps(M, P, gen))
        BY Zenon, <2>1, <3>1, <3>5, <1>LazyDistributeGood
      <3> QED
        BY Zenon, <3>4, <3>6, <1>ConcatGood
    <2>7. members \in Seq(P \ {joiner})
      BY Zenon, <2>3, <2>5
    <2> HIDE DEF Met, P
    <2>8. a \in [1..m -> Seq(Steps(M, P, gen))] /\ \A i \in 1..m : Resets(a[i])
      BY Zenon, <2>1, <2>2, <2>6 DEF Good
    <2>9. \A i \in 1..m : Good(b[i], S)
      <3> SUFFICES ASSUME NEW i \in 1..m PROVE Good(b[i], S)
        OBVIOUS
      <3>1. b[i] = SenderKeyReceiveDistribution(members[i], joiner, gen) /\ members[i] \in P
        BY Zenon, <2>1, <2>2, <2>5
      <3> HIDE DEF b
      <3> QED
        BY Zenon, <2>1, <2>5, <3>1, <1>ReceiveGood
    <2>10. b \in [1..m -> Seq(S)] /\ \A i \in 1..m : Resets(b[i])
      BY Zenon, <2>1, <2>9 DEF Good
    <2> HIDE DEF a, b, m
    <2>11. Good(Joined(a), Steps(M, P, gen)) /\ Good(Joined(b), S)
      BY Zenon, <2>1, <2>8, <2>10, <1>JoinedGood
    <2>12. Good(e, S)
      BY Zenon, <2>1, <2>5, <1>EmptyGood, <1>AnsweredGood
    <2>13. Good(o, S) /\ Renews(o, joiner)
      BY Zenon, <2>1, <2>5, <2>7, <1>OnboardGood
    <2>14. Good(Joined(a), S)
      <3>1. Steps(M, P, gen) \subseteq S
        BY Zenon, <2>5 DEF Steps
      <3> QED
        BY Zenon, <2>11, <3>1, <1>GoodMonotonic
    <2>15. e = <<Step("return", joiner, joiner, 0)>>
      BY DEF Answered
    <2> DEFINE h == e \o Joined(a)
    <2>16. Good(h, S) /\ h \in Seq(S)
      BY Zenon, <2>12, <2>14, <1>ConcatGood DEF Good
    <2>17. \A k \in 1..Len(h) : ~Uses(h[k], joiner)
      <3> SUFFICES ASSUME NEW k \in 1..Len(h) PROVE ~Uses(h[k], joiner)
        OBVIOUS
      <3> DEFINE j == Joined(a)
      <3>1. j \in Seq(Steps(M, P, gen))
        BY Zenon, <2>11 DEF Good
      <3> HIDE DEF j, e
      <3>2. h = <<Step("return", joiner, joiner, 0)>> \o j
        BY Zenon, <2>15 DEF j
      <3>3. h[k] = Step("return", joiner, joiner, 0) \/ h[k] \in Steps(M, P, gen)
        <4> HIDE DEF h
        <4> QED
          BY <3>1, <3>2
      <3>4. CASE h[k] = Step("return", joiner, joiner, 0)
        BY <3>4 DEF Step, Uses
      <3>5. CASE h[k] \in Steps(M, P, gen)
        <4>1. h[k].who \in M
          BY Zenon, <3>5 DEF Steps
        <4> QED
          BY Zenon, <2>5, <4>1 DEF Uses
      <3> QED
        BY Zenon, <3>3, <3>4, <3>5
    <2> HIDE DEF h, e, o, S
    <2>18. Good(h \o o, S) /\ Good(h \o o \o Joined(b), S) /\ Good(h \o o \o Joined(b) \o e, S)
      BY Zenon, <2>11, <2>12, <2>13, <2>16, <1>ConcatGood
    <2>19. o \in Seq(S) /\ e \in Seq(S) /\ Joined(b) \in Seq(S) /\ h \o o \in Seq(S)
           /\ h \o o \o Joined(b) \in Seq(S)
      BY Zenon, <2>11, <2>12, <2>13, <2>18 DEF Good
    <2>20. 0 \in 0..Len(h) /\ 0 \in 0..Len(h \o o) /\ 0 \in 0..Len(h \o o \o Joined(b))
      BY <2>16, <2>19
    <2>21. Renews(h \o o, joiner)
      BY Zenon, <2>13, <2>16, <2>17, <2>19, <2>20, <1>ConcatUnused DEF Renews
    <2>22. Renews(h \o o \o Joined(b), joiner)
      BY Zenon, <2>19, <2>20, <2>21, <1>ConcatFirst DEF Renews
    <2>23. Renews(h \o o \o Joined(b) \o e, joiner)
      BY Zenon, <2>19, <2>20, <2>22, <1>ConcatFirst DEF Renews
    <2> QED
      BY Zenon, <2>4, <2>18, <2>23 DEF h, S, P, M
  <1> QED
    BY Zenon, <1>RefreshGood, <1>RefreshEmpty, <1>EnrollGood

\* Two lists that have no member in common.
LEMMA ConcatLists ==
    ASSUME NEW S, NEW a \in Seq(S), NEW b \in Seq(S)
    PROVE  /\ a \o b \in Seq(S) /\ Range(a \o b) = Range(a) \cup Range(b)
           /\ (IsInjective(a) /\ IsInjective(b) /\ Range(a) \cap Range(b) = {}) =>
                 IsInjective(a \o b)
  <1> DEFINE c == a \o b
             n == Len(a)
  <1>0. /\ c \in Seq(S) /\ Len(c) = n + Len(b) /\ n \in Nat /\ Len(b) \in Nat
        /\ DOMAIN a = 1..n /\ DOMAIN b = 1..Len(b) /\ DOMAIN c = 1..Len(c)
        /\ \A i \in 1..n : c[i] = a[i]
        /\ \A i \in 1..Len(b) : c[n + i] = b[i]
    OBVIOUS
  <1> HIDE DEF c, n
  <1>1. /\ \A i \in DOMAIN c : \/ i \in DOMAIN a /\ c[i] = a[i]
                               \/ i - n \in DOMAIN b /\ c[i] = b[i - n]
        /\ \A i \in DOMAIN a : i \in DOMAIN c /\ c[i] = a[i]
        /\ \A i \in DOMAIN b : n + i \in DOMAIN c /\ c[n + i] = b[i]
        /\ \A i, j \in DOMAIN c : i - n = j - n => i = j
    <2>1. ASSUME NEW i \in DOMAIN c
          PROVE  \/ i \in DOMAIN a /\ c[i] = a[i]
                 \/ i - n \in DOMAIN b /\ c[i] = b[i - n]
      <3>1. CASE i <= n
        BY <1>0, <3>1
      <3>2. CASE ~(i <= n)
        <4>1. i - n \in 1..Len(b) /\ n + (i - n) = i
          BY <1>0, <3>2
        <4> QED
          BY Zenon, <1>0, <4>1
      <3> QED
        BY Zenon, <3>1, <3>2
    <2>2. \A i \in DOMAIN a : i \in DOMAIN c /\ c[i] = a[i]
      BY <1>0
    <2>3. \A i \in DOMAIN b : n + i \in DOMAIN c /\ c[n + i] = b[i]
      BY <1>0
    <2>4. \A i, j \in DOMAIN c : i - n = j - n => i = j
      BY <1>0
    <2> QED
      BY Zenon, <2>1, <2>2, <2>3, <2>4
  <1>2. Range(c) = Range(a) \cup Range(b)
    <2>1. Range(c) \subseteq Range(a) \cup Range(b)
      BY <1>1 DEF Range
    <2>2. Range(a) \subseteq Range(c)
      BY <1>1 DEF Range
    <2>3. Range(b) \subseteq Range(c)
      BY <1>1 DEF Range
    <2> QED
      BY Zenon, <2>1, <2>2, <2>3
  <1>3. ASSUME IsInjective(a), IsInjective(b), Range(a) \cap Range(b) = {}
        PROVE  IsInjective(c)
    <2> SUFFICES ASSUME NEW i \in DOMAIN c, NEW j \in DOMAIN c, c[i] = c[j]
                 PROVE  i = j
      BY Zenon DEF IsInjective
    <2>1. \A k \in DOMAIN a : \A l \in DOMAIN b : a[k] # b[l]
      BY Zenon, <1>3 DEF Range
    <2>2. CASE i \in DOMAIN a /\ c[i] = a[i]
      <3>0. c[j] = a[i]
        BY Zenon, <2>2
      <3>1. j \in DOMAIN a /\ c[j] = a[j]
        BY <1>1, <2>1, <2>2, <3>0
      <3> QED
        BY Zenon, <1>3, <2>2, <3>1 DEF IsInjective
    <2>3. CASE i - n \in DOMAIN b /\ c[i] = b[i - n]
      <3>0. c[j] = b[i - n]
        BY Zenon, <2>3
      <3>1. j - n \in DOMAIN b /\ c[j] = b[j - n]
        BY <1>1, <2>1, <2>3, <3>0
      <3>2. i - n = j - n
        BY Zenon, <1>3, <2>3, <3>1 DEF IsInjective
      <3> QED
        BY Zenon, <1>1, <3>2
    <2> QED
      BY Zenon, <1>1, <2>2, <2>3
  <1> QED
    BY Zenon, <1>0, <1>2, <1>3 DEF c

\* A script without its first step.
LEMMA TailRenews ==
    ASSUME NEW S, NEW sc \in Seq(S), sc # <<>>, NEW i \in 1..Len(sc), NEW s,
           RenewsAfter(sc, i, s)
    PROVE  RenewsAfter(Tail(sc), i - 1, s)
  <1> DEFINE t == Tail(sc)
  <1>1. PICK j \in 1..Len(sc) :
            j > i /\ Renewal(sc[j], s) /\ \A k \in (i + 1)..(j - 1) : ~Uses(sc[k], s)
    BY Zenon DEF RenewsAfter
  <1>2. /\ \A k \in 1..Len(t) : t[k] = sc[k + 1]
        /\ j - 1 \in 1..Len(t) /\ j - 1 > i - 1 /\ (j - 1) + 1 = j
    BY <1>1
  <1>3. ASSUME NEW k \in ((i - 1) + 1)..((j - 1) - 1) PROVE ~Uses(t[k], s)
    <2>1. k + 1 \in (i + 1)..(j - 1) /\ k \in 1..Len(t)
      BY <1>1
    <2>2. t[k] = sc[k + 1]
      BY Zenon, <1>2, <2>1
    <2> QED
      BY Zenon, <1>1, <2>1, <2>2
  <1> HIDE DEF t
  <1> DEFINE n == j - 1
  <1>4. n \in 1..Len(t) /\ n > i - 1 /\ Renewal(t[n], s)
    BY Zenon, <1>1, <1>2
  <1>5. \A k \in ((i - 1) + 1)..(n - 1) : ~Uses(t[k], s)
    BY Zenon, <1>3
  <1> HIDE DEF n
  <1> QED
    BY Zenon, <1>4, <1>5 DEF RenewsAfter, t

\* What the first step of a good script tells.
LEMMA TailGood ==
    ASSUME NEW S, NEW sc, Good(sc, S), sc # <<>>
    PROVE  /\ Good(Tail(sc), S) /\ Head(sc) \in S
           /\ \A s : Renews(sc, s) => ~Uses(Head(sc), s)
           /\ \A s : Renews(sc, s) /\ ~Renewal(Head(sc), s) => Renews(Tail(sc), s)
           /\ Head(sc).op = "reset" => Renews(Tail(sc), Head(sc).who)
  <1> DEFINE t == Tail(sc)
  <1>0. sc \in Seq(S) /\ Resets(sc)
    BY Zenon DEF Good
  <1>1. /\ t \in Seq(S) /\ Head(sc) = sc[1] /\ sc[1] \in S /\ 1 \in 1..Len(sc) /\ 1 - 1 = 0
        /\ \A k \in 1..Len(t) : t[k] = sc[k + 1] /\ k + 1 \in 1..Len(sc) /\ (k + 1) - 1 = k
    BY <1>0
  <1>2. Resets(t)
    BY Zenon, <1>0, <1>1, TailRenews DEF Resets
  <1>3. ASSUME NEW s, Renews(sc, s)
        PROVE  ~Uses(sc[1], s) /\ (~Renewal(sc[1], s) => Renews(t, s))
    <2>1. PICK j \in 1..Len(sc) :
            j > 0 /\ Renewal(sc[j], s) /\ \A k \in (0 + 1)..(j - 1) : ~Uses(sc[k], s)
      BY Zenon, <1>3 DEF Renews, RenewsAfter
    <2>2. CASE j = 1
      <3>1. ~Uses(sc[1], s)
        BY Zenon, <2>1, <2>2 DEF Renewal, Uses
      <3> QED
        BY Zenon, <2>1, <2>2, <3>1
    <2>3. CASE j # 1
      <3>1. 1 \in (0 + 1)..(j - 1) /\ j > 1 /\ \A k \in (1 + 1)..(j - 1) : k \in (0 + 1)..(j - 1)
        BY <2>3
      <3>2. ~Uses(sc[1], s)
        BY Zenon, <2>1, <3>1
      <3>3. RenewsAfter(sc, 1, s)
        BY Zenon, <2>1, <3>1 DEF RenewsAfter
      <3>4. RenewsAfter(t, 1 - 1, s)
        BY Zenon, <1>0, <1>1, <3>3, TailRenews
      <3> QED
        BY Zenon, <1>1, <3>2, <3>4 DEF Renews
    <2> QED
      BY Zenon, <2>2, <2>3
  <1>4. ASSUME sc[1].op = "reset" PROVE Renews(t, sc[1].who)
    <2>1. RenewsAfter(sc, 1, sc[1].who)
      BY Zenon, <1>0, <1>1, <1>4 DEF Resets
    <2>2. RenewsAfter(t, 1 - 1, sc[1].who)
      BY Zenon, <1>0, <1>1, <2>1, TailRenews
    <2> QED
      BY Zenon, <1>1, <2>2 DEF Renews
  <1> HIDE DEF t
  <1>5. Good(t, S)
    BY Zenon, <1>1, <1>2 DEF Good
  <1> QED
    BY Zenon, <1>1, <1>3, <1>4, <1>5 DEF t
-----------------------------------------------------------------------------
(* The inductive invariant.                                                *)

\* The members of the group, the joiner of an enrolment included.
Group == Range(active) \cup (IF task = "enroll" THEN {who} ELSE {})

\* The sender keys that p has, or that are on their way to it.
KeyOf(e) == [sender |-> e.sender, gen |-> e.gen, from |-> e.iter]
Given(p, k) ==
    \/ k \in keys[p]
    \/ \E i \in 1..Len(inboxes[p]) :
           inboxes[p][i].conv = "distribution" /\ k = KeyOf(inboxes[p][i])
    \/ \E x \in late : /\ x.to = p /\ x.envelope.conv = "distribution"
                       /\ k = KeyOf(x.envelope)

Types ==
    /\ next_workflow_id \in Nat /\ next_message_id \in Nat
    /\ sender_key_id \in [Participants -> Nat]
    /\ \A p \in Participants : sender_key_id[p] <= next_workflow_id
    /\ IsFiniteSet(sent) /\ Cardinality(sent) <= MaxSends
    /\ chain \in [Participants -> Int]
    /\ \A p \in Participants : -1 <= chain[p] /\ chain[p] <= Cardinality(sent)
    /\ keys \in [Participants -> SUBSET Key]
    /\ opened \in [Participants -> SUBSET Message]
    /\ sessions \in [Participants -> SUBSET Participants]
    /\ inboxes \in [Participants -> Seq(Envelope)]
    /\ late \subseteq [to : Participants, envelope : Envelope]

\* No worker is on a list twice or on both, and the joiner is on none.
Lists ==
    /\ active \in Seq(Participants) /\ IsInjective(active)
    /\ idle \in Seq(Participants) /\ IsInjective(idle)
    /\ Range(active) \cap Range(idle) = {}
    /\ task = "enroll" => who \in Participants \ (Range(active) \cup Range(idle))
    /\ task \in {"broadcast", "fanout"} => who \in Range(active)
    /\ task \in Tasks /\ phase \in {"transition", "removal", "application"}
    /\ target \in Nat

\* The steps of a broadcast.
Encrypting(w) == <<Step("encrypt", w, w, 0), Step("post_application", w, w, 0),
                   Step("return", w, w, 0)>>
Posting(w) == <<Step("post_application", w, w, 0), Step("return", w, w, 0)>>
Returning(w) == <<Step("return", w, w, 0)>>

\* What is left of an operation: members of the group only take its steps and
\* are their peers, and whoever empties its store renews its chain.
ScriptOK ==
    /\ task \in {"none", "fanout", "aborted"} => script = <<>>
    /\ task \in {"enroll", "refresh"} => Good(script, Steps(Group, Group, next_workflow_id))
    /\ task = "broadcast" =>
          \/ script = Encrypting(who) /\ Cardinality(sent) < MaxSends
          \/ script = Posting(who) /\ chain[who] >= 1
          \/ script = Returning(who)

\* Sender keys are of generations that were begun, and the messages of a chain
\* are behind its iteration.
GivenOK ==
    \A p \in Participants : \A k : Given(p, k) =>
        k \in Key /\ k.sender # p /\ k.gen <= sender_key_id[k.sender]
SentOK ==
    \A x \in sent :
        /\ x \in [m : Message, to : SUBSET Participants]
        /\ x.m.gen <= sender_key_id[x.m.sender]
        /\ (x.m.gen = sender_key_id[x.m.sender] /\ chain[x.m.sender] # -1) =>
              x.m.iter < chain[x.m.sender]

\* OnlyRecipientsCanOpen, for the keys on their way as well.
OnlyRecipientsGiven ==
    \A x \in sent : \A p \in Participants : \A k :
        (/\ Given(p, k) /\ k.sender = x.m.sender /\ k.gen = x.m.gen
         /\ k.from <= x.m.iter) => p \in x.to

\* Only members of the group are given the current generation of a member, and
\* each member has a chain, or else it is going to renew its chain.
HeldInGroup(s) ==
    \A p \in Participants : \A k :
        (Given(p, k) /\ k.sender = s /\ k.gen = sender_key_id[s]) => p \in Group
GivenInGroup ==
    task # "aborted" => \A s \in Group : Renews(script, s) \/ HeldInGroup(s)
Chained ==
    task # "aborted" => \A s \in Group : chain[s] = -1 => Renews(script, s)

IInv ==
    /\ Types /\ Lists /\ ScriptOK
    /\ GivenOK /\ SentOK /\ OnlyRecipientsGiven
    /\ GivenInGroup /\ Chained
-----------------------------------------------------------------------------
(* What the steps have in common.                                          *)

data == <<sender_key_id, chain, keys, sessions, opened, inboxes, next_message_id, late, sent>>
Keys == GivenOK /\ SentOK /\ OnlyRecipientsGiven
Holding == GivenInGroup /\ Chained

\* Nobody is given a sender key.
NoNewKeys == \A p \in Participants : \A k : Given(p, k)' => Given(p, k)

\* A step of the runner does not touch the participants and the relay.
LEMMA QuietData ==
    ASSUME Types, UNCHANGED data, next_workflow_id' \in Nat,
           next_workflow_id <= next_workflow_id'
    PROVE  Types' /\ NoNewKeys
  <1>1. Types'
    <2>1. \A p \in Participants : sender_key_id'[p] <= next_workflow_id'
      BY DEF Types, data
    <2> QED
      BY Zenon, <2>1 DEF Types, data
  <1>2. NoNewKeys
    BY Zenon DEF NoNewKeys, Given, data
  <1> QED
    BY Zenon, <1>1, <1>2

\* Without new keys and messages, the keys stay with the recipients; a chain may
\* be dropped.
LEMMA QuietKeys ==
    ASSUME Types, Keys, NoNewKeys, UNCHANGED <<sender_key_id, sent>>,
           \A s \in Participants : chain'[s] = chain[s] \/ chain'[s] = -1
    PROVE  Keys'
  <1>1. GivenOK'
    BY Zenon DEF Keys, GivenOK, NoNewKeys
  <1>2. SentOK'
    <2> SUFFICES ASSUME NEW x \in sent
                 PROVE  /\ x \in [m : Message, to : SUBSET Participants]
                        /\ x.m.gen <= sender_key_id[x.m.sender]
                        /\ (x.m.gen = sender_key_id[x.m.sender] /\ chain'[x.m.sender] # -1) =>
                              x.m.iter < chain'[x.m.sender]
      BY Zenon DEF SentOK
    <2>1. /\ x \in [m : Message, to : SUBSET Participants]
          /\ x.m.gen <= sender_key_id[x.m.sender]
          /\ (x.m.gen = sender_key_id[x.m.sender] /\ chain[x.m.sender] # -1) =>
                 x.m.iter < chain[x.m.sender]
      BY Zenon DEF Keys, SentOK
    <2>2. x.m.sender \in Participants
      BY Zenon, <2>1 DEF Message
    <2> QED
      BY Zenon, <2>1, <2>2
  <1>3. OnlyRecipientsGiven'
    BY Zenon DEF Keys, OnlyRecipientsGiven, NoNewKeys
  <1> QED
    BY Zenon, <1>1, <1>2, <1>3 DEF Keys

\* The group goes on: a member that is not going to renew its chain any more has
\* a chain, which only members were given.
LEMMA HoldingStep ==
    ASSUME Holding, task # "aborted", Group' = Group,
           \A s \in Group : \/ Renews(script, s) /\ Renews(script', s)
                            \/ HeldInGroup(s)' /\ (chain'[s] = -1 => Renews(script', s))
    PROVE  Holding'
  <1>1. GivenInGroup'
    BY Zenon DEF GivenInGroup
  <1>2. Chained'
    BY Zenon DEF Chained
  <1> QED
    BY Zenon, <1>1, <1>2 DEF Holding

\* The same for a step that gives nobody a key.
LEMMA QuietHolding ==
    ASSUME Holding, NoNewKeys, task # "aborted", Group' = Group, UNCHANGED sender_key_id,
           \A s \in Group : Renews(script, s) => Renews(script', s),
           \A s \in Group : chain'[s] = -1 => chain[s] = -1 \/ Renews(script', s)
    PROVE  Holding'
  <1>1. \A s : HeldInGroup(s) => HeldInGroup(s)'
    BY Zenon DEF HeldInGroup, NoNewKeys
  <1> QED
    BY Zenon, <1>1, HoldingStep DEF Holding, GivenInGroup, Chained

\* The members of the group are participants, and take the steps.
LEMMA GroupMembers ==
    ASSUME Lists
    PROVE  Group \subseteq Participants /\ Range(active) \subseteq Participants
  <1>1. Range(active) \subseteq Participants
    BY DEF Lists, Range
  <1> QED
    BY Zenon, <1>1 DEF Group, Lists

\* An error ends the run.
LEMMA AbortOK ==
    ASSUME Lists, Abort
    PROVE  Lists' /\ ScriptOK' /\ Holding' /\ next_workflow_id' = next_workflow_id
  <1>1. task' = "aborted" /\ script' = <<>>
        /\ UNCHANGED <<active, idle, phase, target, who, next_workflow_id>>
    BY Zenon DEF Abort
  <1>2. Lists'
    BY Zenon, <1>1 DEF Lists, Tasks
  <1>3. ScriptOK'
    BY Zenon, <1>1 DEF ScriptOK
  <1>4. Holding'
    BY Zenon, <1>1 DEF Holding, GivenInGroup, Chained
  <1> QED
    BY Zenon, <1>1, <1>2, <1>3, <1>4

\* A refresh begins with some of the participants.
LEMMA BeginRefreshOK ==
    ASSUME IInv, NEW members \in Seq(Participants), IsInjective(members),
           BeginRefresh(members), UNCHANGED data,
           idle' \in Seq(Participants), IsInjective(idle'),
           Range(members) \cap Range(idle') = {},
           phase' \in {"transition", "removal", "application"}, UNCHANGED target
    PROVE  IInv'
  <1>1. /\ active' = members /\ script' = RefreshScript(members, next_workflow_id)
        /\ task' = IF members = <<>> THEN "none" ELSE "refresh"
        /\ next_workflow_id' = next_workflow_id + Len(members)
    BY Zenon DEF BeginRefresh
  <1>2. next_workflow_id \in Nat
    BY Zenon DEF IInv, Types
  <1>3. next_workflow_id' \in Nat /\ next_workflow_id <= next_workflow_id'
    BY <1>1, <1>2
  <1>4. Types' /\ NoNewKeys
    BY Zenon, <1>3, QuietData DEF IInv
  <1>5. Keys'
    BY Zenon, <1>4, QuietKeys DEF IInv, Keys, data
  <1>6. task' \in {"none", "refresh"} /\ Group' = Range(members)
    <2>1. task' \in {"none", "refresh"} /\ task' # "enroll"
      BY Zenon, <1>1
    <2> QED
      BY Zenon, <1>1, <2>1 DEF Group
  <1>7. Lists'
    <2>1. task' # "enroll" /\ task' \notin {"broadcast", "fanout"} /\ task' \in Tasks
      BY Zenon, <1>6 DEF Tasks
    <2> QED
      BY Zenon, <1>1, <2>1 DEF IInv, Lists
  <1>8. /\ Good(script', Steps(Group', Group', next_workflow_id'))
        /\ \A s \in Group' : Renews(script', s)
    BY Zenon, <1>1, <1>2, <1>6, ScriptsGood
  <1>9. ScriptOK'
    <2>1. CASE members = <<>>
      <3>1. task' = "none" /\ script' = <<>>
        BY Zenon, <1>1, <1>2, <2>1, ScriptsGood
      <3> QED
        BY Zenon, <3>1 DEF ScriptOK
    <2>2. CASE members # <<>>
      <3>1. task' = "refresh"
        BY Zenon, <1>1, <2>2
      <3> QED
        BY Zenon, <1>8, <3>1 DEF ScriptOK
    <2> QED
      BY Zenon, <2>1, <2>2
  <1>10. GivenInGroup' /\ Chained'
    BY Zenon, <1>8 DEF GivenInGroup, Chained
  <1> QED
    BY Zenon, <1>4, <1>5, <1>7, <1>9, <1>10 DEF IInv, Keys

\* The steps of a broadcast renew nothing.
LEMMA BroadcastSteps ==
    ASSUME Lists, ScriptOK, task = "broadcast", script # <<>>
    PROVE  /\ Head(script).who = who /\ who \in Group
           /\ \A s : ~Renews(script, s) /\ ~Renewal(Head(script), s)
           /\ \/ /\ Head(script).op = "encrypt" /\ Tail(script) = Posting(who)
                 /\ Cardinality(sent) < MaxSends
              \/ /\ Head(script).op = "post_application" /\ Tail(script) = Returning(who)
                 /\ chain[who] >= 1
              \/ Head(script).op = "return" /\ Tail(script) = <<>>
  <1> USE DEF Encrypting, Posting, Returning
  <1>1. who \in Group
    BY Zenon DEF Lists, Group
  <1>2. \/ script = Encrypting(who) /\ Cardinality(sent) < MaxSends
        \/ script = Posting(who) /\ chain[who] >= 1
        \/ script = Returning(who)
    BY Zenon DEF ScriptOK
  <1>3. /\ Head(script).who = who
        /\ \A i \in 1..Len(script) : script[i].op # "create"
        /\ Head(script).op # "create"
        /\ \/ /\ Head(script).op = "encrypt" /\ Tail(script) = Posting(who)
              /\ Cardinality(sent) < MaxSends
           \/ /\ Head(script).op = "post_application" /\ Tail(script) = Returning(who)
              /\ chain[who] >= 1
           \/ Head(script).op = "return" /\ Tail(script) = <<>>
    <2>1. CASE script = Encrypting(who) /\ Cardinality(sent) < MaxSends
      BY <2>1 DEF Step
    <2>2. CASE script = Posting(who) /\ chain[who] >= 1
      BY <2>2 DEF Step
    <2>3. CASE script = Returning(who)
      BY <2>3 DEF Step
    <2> QED
      BY Zenon, <1>2, <2>1, <2>2, <2>3
  <1> QED
    BY Zenon, <1>1, <1>3 DEF Renews, RenewsAfter, Renewal

\* The first step of any operation.
LEMMA HeadStep ==
    ASSUME Lists, ScriptOK, script # <<>>
    PROVE  /\ task # "aborted" /\ task # "none" /\ Head(script).who \in Group
           /\ \/ /\ task \in {"enroll", "refresh"}
                 /\ Good(script, Steps(Group, Group, next_workflow_id))
                 /\ Head(script) \in Steps(Group, Group, next_workflow_id)
              \/ task = "broadcast"
  <1>1. task \in {"enroll", "refresh"} \/ task = "broadcast"
    BY Zenon DEF Lists, Tasks, ScriptOK
  <1>2. CASE task \in {"enroll", "refresh"}
    <2>1. Good(script, Steps(Group, Group, next_workflow_id))
      BY Zenon, <1>2 DEF ScriptOK
    <2>2. Head(script) \in Steps(Group, Group, next_workflow_id)
      BY Zenon, <2>1, TailGood
    <2>3. Head(script).who \in Group
      BY Zenon, <2>2 DEF Steps
    <2>4. task # "aborted" /\ task # "none"
      BY Zenon, <1>2
    <2> QED
      BY Zenon, <1>2, <2>1, <2>2, <2>3, <2>4
  <1>3. CASE task = "broadcast"
    <2>1. task # "aborted" /\ task # "none"
      BY Zenon, <1>3
    <2> QED
      BY Zenon, <1>3, <2>1, BroadcastSteps
  <1> QED
    BY Zenon, <1>1, <1>2, <1>3

\* The operation goes on after its first step.
LEMMA AdvanceScript ==
    ASSUME Lists, ScriptOK, script # <<>>, script' = Tail(script),
           UNCHANGED <<active, task, who, next_workflow_id>>,
           task = "broadcast" => Head(script).op # "return",
           Head(script).op = "encrypt" => chain'[who] >= 1
    PROVE  /\ ScriptOK' /\ Group' = Group
           /\ \A s : Renews(script, s) /\ ~Renewal(Head(script), s) => Renews(script', s)
  <1>1. Group' = Group
    BY Zenon DEF Group
  <1>2. CASE task \in {"enroll", "refresh"} /\ Good(script, Steps(Group, Group, next_workflow_id))
    <2>1. /\ Good(script', Steps(Group, Group, next_workflow_id))
          /\ \A s : Renews(script, s) /\ ~Renewal(Head(script), s) => Renews(script', s)
      BY Zenon, <1>2, TailGood
    <2>2. task' \in {"enroll", "refresh"} /\ task' \notin {"none", "fanout", "aborted"}
          /\ task' # "broadcast"
      BY Zenon, <1>2
    <2>3. ScriptOK'
      BY Zenon, <1>1, <2>1, <2>2 DEF ScriptOK
    <2> QED
      BY Zenon, <1>1, <2>1, <2>3
  <1>3. CASE task = "broadcast"
    <2>1. task' \notin {"none", "fanout", "aborted"} /\ task' \notin {"enroll", "refresh"}
      BY Zenon, <1>3
    <2>2. \/ Head(script).op = "encrypt" /\ script' = Posting(who')
          \/ script' = Returning(who')
      BY Zenon, <1>3, BroadcastSteps
    <2>3. \/ script' = Posting(who') /\ chain'[who'] >= 1
          \/ script' = Returning(who')
      BY Zenon, <2>2
    <2>4. ScriptOK'
      BY Zenon, <2>1, <2>3 DEF ScriptOK
    <2> QED
      BY Zenon, <1>1, <1>3, <2>4, BroadcastSteps
  <1> QED
    BY Zenon, <1>2, <1>3, HeadStep
-----------------------------------------------------------------------------
(* The steps of the runner.                                                *)

\* The operation stays where it is, and nobody is given a key.
LEMMA SteadyRunner ==
    ASSUME IInv, Types', NoNewKeys, UNCHANGED <<sender_key_id, chain, sent>>,
           UNCHANGED <<active, idle, task, who, script, next_workflow_id>>,
           phase' \in {"transition", "removal", "application"}, target' \in Nat
    PROVE  IInv'
  <1>1. Keys'
    BY Zenon, QuietKeys DEF IInv, Keys
  <1>2. Lists'
    BY Zenon DEF IInv, Lists
  <1>3. Group' = Group
    BY Zenon DEF Group
  <1>4. ScriptOK'
    BY Zenon, <1>3 DEF IInv, ScriptOK
  <1>5. GivenInGroup' /\ Chained'
    BY Zenon, <1>3 DEF IInv, GivenInGroup, HeldInGroup, Chained, NoNewKeys
  <1> QED
    BY Zenon, <1>1, <1>2, <1>4, <1>5 DEF IInv, Keys

\* Steps that change nothing the invariant is about.
LEMMA QuietRunner ==
    ASSUME IInv, UNCHANGED data, UNCHANGED <<active, idle, task, who, script, next_workflow_id>>,
           phase' \in {"transition", "removal", "application"}, target' \in Nat
    PROVE  IInv'
  <1>1. next_workflow_id' \in Nat /\ next_workflow_id <= next_workflow_id'
    BY DEF IInv, Types
  <1>2. Types' /\ NoNewKeys
    BY Zenon, <1>1, QuietData DEF IInv
  <1> QED
    BY Zenon, <1>2, SteadyRunner DEF data

\* The first worker of the idle queue leaves it.
LEMMA HeadOfIdle ==
    ASSUME Lists, idle # <<>>
    PROVE  /\ Head(idle) \in Participants \ (Range(active) \cup Range(Tail(idle)))
           /\ Tail(idle) \in Seq(Participants) /\ IsInjective(Tail(idle))
           /\ Range(active) \cap Range(Tail(idle)) = {}
  <1> DEFINE t == Tail(idle)
  <1>1. idle \in Seq(Participants) /\ IsInjective(idle) /\ Range(active) \cap Range(idle) = {}
    BY Zenon DEF Lists
  <1>2. /\ t \in Seq(Participants) /\ Head(idle) = idle[1] /\ idle[1] \in Participants
        /\ 1 \in DOMAIN idle
        /\ \A i \in DOMAIN t : t[i] = idle[i + 1] /\ i + 1 \in DOMAIN idle /\ i + 1 # 1
        /\ \A i, j \in DOMAIN t : i + 1 = j + 1 => i = j
    BY <1>1
  <1> HIDE DEF t
  <1>3. IsInjective(t)
    BY Zenon, <1>1, <1>2 DEF IsInjective
  <1>4. idle[1] \notin Range(t)
    <2> SUFFICES ASSUME NEW i \in DOMAIN t, idle[1] = t[i] PROVE FALSE
      BY Zenon DEF Range
    <2> QED
      BY Zenon, <1>1, <1>2 DEF IsInjective
  <1>5. Range(t) \subseteq Range(idle) /\ idle[1] \in Range(idle)
    <2>1. \A i \in DOMAIN idle : idle[i] \in Range(idle)
      BY Zenon DEF Range
    <2>2. \A i \in DOMAIN t : t[i] \in Range(idle)
      BY Zenon, <1>2, <2>1
    <2>3. Range(t) \subseteq Range(idle)
      BY Zenon, <2>2 DEF Range
    <2> QED
      BY Zenon, <1>2, <2>1, <2>3
  <1> QED
    BY Zenon, <1>1, <1>2, <1>3, <1>4, <1>5 DEF t

\* An enrolment starts: the joiner is a member of the group from now on.
LEMMA StartEnrollStep ==
    ASSUME IInv, StartEnroll
    PROVE  IInv'
  <1>1. /\ task = "none" /\ idle # <<>> /\ task' = "enroll" /\ who' = Head(idle)
        /\ idle' = Tail(idle) /\ script' = EnrollScript(Head(idle), active, next_workflow_id + 1)
        /\ next_workflow_id' = next_workflow_id + 1 /\ UNCHANGED <<active, phase, target>>
        /\ UNCHANGED data
    BY Zenon DEF StartEnroll, data, participant, relay, history
  <1>2. next_workflow_id \in Nat /\ Lists /\ script = <<>>
    BY Zenon, <1>1 DEF IInv, Types, ScriptOK
  <1>3. next_workflow_id' \in Nat \ {0} /\ next_workflow_id <= next_workflow_id'
        /\ next_workflow_id' \in Nat
    BY <1>1, <1>2
  <1>4. Types' /\ NoNewKeys
    BY Zenon, <1>1, <1>3, QuietData DEF IInv
  <1>5. Keys'
    BY Zenon, <1>1, <1>4, QuietKeys DEF IInv, Keys, data
  <1>6. Lists'
    <2>1. task' \notin {"broadcast", "fanout"} /\ task' \in Tasks
      BY Zenon, <1>1 DEF Tasks
    <2> QED
      BY Zenon, <1>1, <1>2, <2>1, HeadOfIdle DEF Lists
  <1>7. Group = Range(active) /\ Group' = Range(active) \cup {who'}
    <2>1. task # "enroll"
      BY Zenon, <1>1
    <2> QED
      BY Zenon, <1>1, <2>1 DEF Group
  <1>8. /\ Good(script', Steps(Group', Group', next_workflow_id'))
        /\ Renews(script', who')
    <2>1. active \in Seq(Participants) /\ who' \notin Range(active)
      BY Zenon, <1>1, <1>2, HeadOfIdle DEF Lists
    <2> QED
      BY Zenon, <1>1, <1>3, <1>7, <2>1, ScriptsGood
  <1>9. ScriptOK'
    <2>1. task' \notin {"none", "fanout", "aborted"} /\ task' # "broadcast"
      BY Zenon, <1>1
    <2> QED
      BY Zenon, <1>8, <2>1 DEF ScriptOK
  <1>10. task # "aborted" /\ \A s : ~Renews(script, s)
    BY <1>1, <1>2 DEF Renews, RenewsAfter
  <1>11. GivenInGroup' /\ Chained'
    <2>1. Group \subseteq Group'
      BY Zenon, <1>7
    <2>2. \A s \in Group' : s \in Group \/ Renews(script', s)
      BY Zenon, <1>7, <1>8
    <2>3. GivenInGroup'
      <3>1. \A s : HeldInGroup(s) => HeldInGroup(s)'
        BY Zenon, <1>1, <1>4, <2>1 DEF HeldInGroup, NoNewKeys, data
      <3> QED
        BY Zenon, <1>10, <2>2, <3>1 DEF IInv, GivenInGroup
    <2>4. Chained'
      BY Zenon, <1>1, <1>10, <2>2 DEF IInv, Chained, data
    <2> QED
      BY Zenon, <2>3, <2>4
  <1> QED
    BY Zenon, <1>4, <1>5, <1>6, <1>9, <1>11 DEF IInv, Keys

\* Members become idle and the others refresh.
LEMMA DeactivateStep ==
    ASSUME IInv, Deactivate
    PROVE  IInv'
  <1>1. PICK removed \in [1 .. Len(active) - target -> Range(active)] :
            /\ IsInjective(removed) /\ idle' = idle \o removed
            /\ BeginRefresh(Without(active, Range(removed)))
    BY Zenon DEF Deactivate
  <1>2. phase' \in {"transition", "removal", "application"} /\ UNCHANGED data
    BY Zenon DEF Deactivate, data, participant, relay, history
  <1> DEFINE members == Without(active, Range(removed))
  <1>3. Lists
    BY Zenon DEF IInv
  <1>4. /\ members \in Seq(Participants \ Range(removed)) /\ IsInjective(members)
        /\ Range(members) = Range(active) \ Range(removed)
    BY Zenon, <1>3, WithoutList DEF Lists
  <1> HIDE DEF members
  <1>5. members \in Seq(Participants)
    BY <1>4
  <1>6. removed \in Seq(Range(active))
    <2>1. Len(active) \in Nat /\ target \in Nat /\ Len(active) > target
      BY <1>3 DEF Lists, Deactivate
    <2>2. Len(active) - target \in Nat
      BY <2>1
    <2> QED
      BY <2>2
  <1>7. removed \in Seq(Participants) /\ Range(removed) \subseteq Range(active)
    <2>1. Range(active) \subseteq Participants
      BY Zenon, <1>3, GroupMembers
    <2>2. removed \in Seq(Participants)
      BY <1>6, <2>1
    <2>3. \A i \in DOMAIN removed : removed[i] \in Range(active)
      BY Zenon
    <2> QED
      BY Zenon, <2>2, <2>3 DEF Range
  <1>8. Range(idle) \cap Range(removed) = {}
    BY Zenon, <1>3, <1>7 DEF Lists
  <1>9. /\ idle' \in Seq(Participants) /\ IsInjective(idle')
        /\ Range(idle') = Range(idle) \cup Range(removed)
    <2>1. idle \in Seq(Participants) /\ IsInjective(idle)
      BY Zenon, <1>3 DEF Lists
    <2>2. /\ idle \o removed \in Seq(Participants)
          /\ Range(idle \o removed) = Range(idle) \cup Range(removed)
          /\ (IsInjective(idle) /\ IsInjective(removed) /\ Range(idle) \cap Range(removed) = {}) =>
                IsInjective(idle \o removed)
      BY ZenonT(30), <1>7, <2>1, ConcatLists
    <2> QED
      BY Zenon, <1>1, <1>8, <2>1, <2>2
  <1>10. Range(members) \cap Range(idle') = {}
    BY Zenon, <1>3, <1>4, <1>9 DEF Lists
  <1>11. UNCHANGED target /\ BeginRefresh(members)
    BY Zenon, <1>1 DEF Deactivate, members
  <1> QED
    BY Zenon, <1>2, <1>4, <1>5, <1>9, <1>10, <1>11, BeginRefreshOK

\* A broadcast starts.
LEMMA StartBroadcastStep ==
    ASSUME IInv, StartBroadcast
    PROVE  IInv'
  <1>1. /\ task = "none" /\ Cardinality(sent) < MaxSends /\ who' \in Range(active)
        /\ task' = "broadcast" /\ script' = SenderKeyEncrypt(who')
        /\ UNCHANGED <<active, idle, phase, target, next_workflow_id>> /\ UNCHANGED data
    BY Zenon DEF StartBroadcast, data, participant, relay, history
  <1>2. Lists /\ Holding /\ script = <<>> /\ next_workflow_id \in Nat
    BY Zenon, <1>1 DEF IInv, ScriptOK, Types, Holding
  <1>3. next_workflow_id' \in Nat /\ next_workflow_id <= next_workflow_id'
    BY <1>1, <1>2
  <1>4. Types' /\ NoNewKeys
    BY Zenon, <1>1, <1>3, QuietData DEF IInv
  <1>5. Keys'
    BY Zenon, <1>1, <1>4, QuietKeys DEF IInv, Keys, data
  <1>6. task' \in Tasks /\ task' # "enroll" /\ task # "enroll" /\ task # "aborted"
        /\ task' \notin {"none", "fanout", "aborted"} /\ task' \notin {"enroll", "refresh"}
    BY Zenon, <1>1 DEF Tasks
  <1>7. Lists'
    BY Zenon, <1>1, <1>2, <1>6 DEF Lists
  <1>8. Group' = Group
    BY Zenon, <1>1, <1>6 DEF Group
  <1>9. script' = Encrypting(who')
    <2>1. \A x, y, z : Append(<<x, y>>, z) = <<x, y, z>>
      <3> SUFFICES ASSUME NEW x, NEW y, NEW z PROVE Append(<<x, y>>, z) = <<x, y, z>>
        OBVIOUS
      <3>1. <<x, y>> \in Seq({x, y, z}) /\ z \in {x, y, z}
        OBVIOUS
      <3>2. /\ Append(<<x, y>>, z) \in Seq({x, y, z}) /\ Len(Append(<<x, y>>, z)) = 3
            /\ \A i \in 1..3 : Append(<<x, y>>, z)[i] = <<x, y, z>>[i]
        BY <3>1
      <3> DEFINE d == Append(<<x, y>>, z)
                 l == <<x, y, z>>
      <3>3. l \in Seq({x, y, z}) /\ Len(l) = 3
        OBVIOUS
      <3> HIDE DEF d, l
      <3>4. d \in Seq({x, y, z}) /\ Len(d) = 3 /\ \A i \in 1..3 : d[i] = l[i]
        BY Zenon, <3>2 DEF d, l
      <3>5. d = l
        BY <3>3, <3>4
      <3> QED
        BY Zenon, <3>5 DEF d, l
    <2> QED
      BY Zenon, <1>1, <2>1 DEF SenderKeyEncrypt, Answered, Encrypting
  <1>10. ScriptOK'
    BY Zenon, <1>1, <1>6, <1>9 DEF ScriptOK, data
  <1>11. \A s : ~Renews(script, s)
    BY <1>2 DEF Renews, RenewsAfter
  <1>12. Holding'
    BY Zenon, <1>1, <1>2, <1>4, <1>6, <1>8, <1>11, QuietHolding DEF data
  <1> QED
    BY Zenon, <1>4, <1>5, <1>7, <1>10, <1>12 DEF IInv, Keys, Holding
-----------------------------------------------------------------------------
(* The relay.                                                              *)

\* The key of a distribution e to the recipients R.
GivenBy(p, k, R, e) == p \in R /\ p # e.sender /\ e.conv = "distribution" /\ k = KeyOf(e)

\* A post gives the recipients of a distribution its key, and nothing else.
LEMMA PublishGiven ==
    ASSUME Types, NEW R, NEW e \in Envelope,
           inboxes' = publish_pairwise_message(inboxes, R, e), keys' = keys, late' \subseteq late
    PROVE  /\ inboxes' \in [Participants -> Seq(Envelope)]
           /\ \A p \in Participants : \A k : Given(p, k)' => Given(p, k) \/ GivenBy(p, k, R, e)
  <1>1. inboxes \in [Participants -> Seq(Envelope)]
    BY Zenon DEF Types
  <1>2. inboxes' = [p \in Participants |->
                       IF p \in R \ {e.sender} THEN Append(inboxes[p], e) ELSE inboxes[p]]
    BY Zenon, <1>1 DEF publish_pairwise_message
  <1>3. \A p \in Participants : inboxes'[p] \in Seq(Envelope)
    <2> SUFFICES ASSUME NEW p \in Participants PROVE inboxes'[p] \in Seq(Envelope)
      OBVIOUS
    <2>1. inboxes[p] \in Seq(Envelope)
      BY Zenon, <1>1
    <2>2. Append(inboxes[p], e) \in Seq(Envelope)
      BY <2>1
    <2> QED
      BY Zenon, <1>2, <2>1, <2>2
  <1>4. inboxes' \in [Participants -> Seq(Envelope)]
    BY Zenon, <1>2, <1>3
  <1>5. ASSUME NEW p \in Participants, NEW k, Given(p, k)'
        PROVE  Given(p, k) \/ GivenBy(p, k, R, e)
    <2>1. CASE k \in keys'[p] \/ \E x \in late' : /\ x.to = p /\ x.envelope.conv = "distribution"
                                                 /\ k = KeyOf(x.envelope)
      BY Zenon, <2>1 DEF Given
    <2>2. CASE \E i \in 1..Len(inboxes'[p]) :
                  inboxes'[p][i].conv = "distribution" /\ k = KeyOf(inboxes'[p][i])
      <3>1. PICK i \in 1..Len(inboxes'[p]) :
                    inboxes'[p][i].conv = "distribution" /\ k = KeyOf(inboxes'[p][i])
        BY Zenon, <2>2
      <3>2. CASE p \in R \ {e.sender}
        <4>1. inboxes'[p] = Append(inboxes[p], e) /\ inboxes[p] \in Seq(Envelope)
          BY Zenon, <1>1, <1>2, <3>2
        <4>2. \/ i \in 1..Len(inboxes[p]) /\ inboxes'[p][i] = inboxes[p][i]
              \/ inboxes'[p][i] = e
          BY <4>1
        <4> QED
          BY Zenon, <3>1, <3>2, <4>2 DEF Given, GivenBy
      <3>3. CASE p \notin R \ {e.sender}
        <4>1. inboxes'[p] = inboxes[p]
          BY Zenon, <1>2, <3>3
        <4> QED
          BY Zenon, <3>1, <4>1 DEF Given
      <3> QED
        BY Zenon, <3>2, <3>3
    <2> QED
      BY Zenon, <1>5, <2>1, <2>2 DEF Given
  <1> QED
    BY Zenon, <1>4, <1>5

\* Everything in an inbox was there before.
OnlyOld == \A p \in Participants : \A i \in 1..Len(inboxes'[p]) :
               \E j \in 1..Len(inboxes[p]) : inboxes'[p][i] = inboxes[p][j]

\* An ack only takes envelopes away.
LEMMA AckOld ==
    ASSUME Types, NEW w \in Participants, NEW e, inboxes' = ack_message(inboxes, w, e)
    PROVE  inboxes' \in [Participants -> Seq(Envelope)] /\ OnlyOld
  <1> DEFINE q == inboxes[w]
             I == {i \in DOMAIN q : q[i].id # e.id}
             K == Kept(q, I)
  <1>1. inboxes \in [Participants -> Seq(Envelope)]
    BY Zenon DEF Types
  <1>2. inboxes' = [inboxes EXCEPT ![w] = K]
    BY Zenon DEF ack_message
  <1>3. q \in Seq(Envelope)
    BY Zenon, <1>1
  <1>4. Selects(K, q, I, Envelope)
    BY Zenon, <1>3, KeptElements
  <1> HIDE DEF K, I
  <1>5. K \in Seq(Envelope) /\ \A k \in 1..Len(K) : \E i \in 1..Len(q) : K[k] = q[i]
    BY Zenon, <1>4 DEF Selects
  <1>6. inboxes' \in [Participants -> Seq(Envelope)]
    BY Zenon, <1>1, <1>2, <1>5
  <1>7. inboxes'[w] = K /\ \A p \in Participants \ {w} : inboxes'[p] = inboxes[p]
    BY Zenon, <1>1, <1>2
  <1>8. \A p \in Participants : \A i \in 1..Len(inboxes'[p]) :
            \E j \in 1..Len(inboxes[p]) : inboxes'[p][i] = inboxes[p][j]
    <2> SUFFICES ASSUME NEW p \in Participants, NEW i \in 1..Len(inboxes'[p])
                 PROVE  \E j \in 1..Len(inboxes[p]) : inboxes'[p][i] = inboxes[p][j]
      OBVIOUS
    <2>1. CASE p = w
      BY Zenon, <1>5, <1>7, <2>1
    <2>2. CASE p # w
      BY Zenon, <1>7, <2>2
    <2> QED
      BY Zenon, <2>1, <2>2
  <1> QED
    BY Zenon, <1>6, <1>8 DEF OnlyOld

\* Without new envelopes, nobody is given a key that was not on its way.
LEMMA OldGiven ==
    ASSUME OnlyOld, late' \subseteq late,
           \A p \in Participants : \A k : k \in keys'[p] => Given(p, k)
    PROVE  NoNewKeys
  <1> SUFFICES ASSUME NEW p \in Participants, NEW k, Given(p, k)'
               PROVE  Given(p, k)
    BY Zenon DEF NoNewKeys
  <1>1. CASE k \in keys'[p]
    BY Zenon, <1>1
  <1>2. CASE \E i \in 1..Len(inboxes'[p]) :
                inboxes'[p][i].conv = "distribution" /\ k = KeyOf(inboxes'[p][i])
    <2>1. PICK i \in 1..Len(inboxes'[p]) :
                inboxes'[p][i].conv = "distribution" /\ k = KeyOf(inboxes'[p][i])
      BY Zenon, <1>2
    <2>2. PICK j \in 1..Len(inboxes[p]) : inboxes'[p][i] = inboxes[p][j]
      BY Zenon DEF OnlyOld
    <2> QED
      BY Zenon, <2>1, <2>2 DEF Given
  <1>3. CASE \E x \in late' : /\ x.to = p /\ x.envelope.conv = "distribution"
                              /\ k = KeyOf(x.envelope)
    BY Zenon, <1>3 DEF Given
  <1> QED
    BY Zenon, <1>1, <1>2, <1>3 DEF Given

\* The oldest message of a sender is in the inbox.
LEMMA HeadPending ==
    ASSUME Types, NEW w \in Participants, NEW s, PendingFrom(inboxes, w, s) # <<>>
    PROVE  LET e == Head(PendingFrom(inboxes, w, s))
           IN  e \in Envelope /\ \E i \in 1..Len(inboxes[w]) : e = inboxes[w][i]
  <1> DEFINE q == inboxes[w]
             I == {i \in DOMAIN q : q[i].sender = s}
             K == Kept(q, I)
  <1>1. q \in Seq(Envelope)
    BY Zenon DEF Types
  <1>2. Selects(K, q, I, Envelope)
    BY Zenon, <1>1, KeptElements
  <1>3. PendingFrom(inboxes, w, s) = K
    BY Zenon DEF PendingFrom
  <1> HIDE DEF K, I
  <1>4. K \in Seq(Envelope) /\ \A k \in 1..Len(K) : \E i \in 1..Len(q) : K[k] = q[i]
    BY Zenon, <1>2 DEF Selects
  <1>5. K # <<>>
    BY Zenon, <1>3
  <1>6. Head(K) = K[1] /\ 1 \in 1..Len(K) /\ K[1] \in Envelope
    BY <1>4, <1>5
  <1> QED
    BY Zenon, <1>3, <1>4, <1>6
-----------------------------------------------------------------------------
(* The steps of commands.                                                  *)

\* A step that only goes on, or that ends the run.
LEMMA QuietStep ==
    ASSUME IInv, script # <<>>, Types', NoNewKeys, UNCHANGED <<sender_key_id, chain, sent>>,
           \/ Abort
           \/ Advance /\ Head(script).op \notin {"create", "return", "encrypt"}
           \/ Go(script)
    PROVE  IInv'
  <1>1. Lists /\ ScriptOK /\ Keys /\ Holding /\ Types
    BY Zenon DEF IInv, Keys, Holding
  <1>2. Keys'
    BY Zenon, <1>1, QuietKeys
  <1>3. CASE Abort
    BY Zenon, <1>1, <1>2, <1>3, AbortOK DEF IInv, Keys, Holding
  <1>4. CASE Go(script)
    <2>1. UNCHANGED <<script, active, idle, phase, target, task, who, next_workflow_id>>
      BY Zenon, <1>4 DEF Go
    <2>2. Group' = Group /\ Lists'
      BY Zenon, <1>1, <2>1 DEF Group, Lists
    <2>3. ScriptOK'
      BY Zenon, <1>1, <2>1, <2>2 DEF ScriptOK
    <2>4. Holding'
      BY Zenon, <1>1, <2>1, <2>2, HeadStep, QuietHolding
    <2> QED
      BY Zenon, <1>2, <2>2, <2>3, <2>4 DEF IInv, Keys, Holding
  <1>5. CASE Advance /\ Head(script).op \notin {"create", "return", "encrypt"}
    <2>1. /\ script' = Tail(script)
          /\ UNCHANGED <<active, idle, phase, target, task, who, next_workflow_id>>
      BY Zenon, <1>5 DEF Advance, Go
    <2>2. Lists'
      BY Zenon, <1>1, <2>1 DEF Lists
    <2>3. Head(script).op # "return" /\ Head(script).op # "encrypt"
          /\ \A s : ~Renewal(Head(script), s)
      BY Zenon, <1>5 DEF Renewal
    <2>4. ScriptOK' /\ Group' = Group /\ \A s : Renews(script, s) => Renews(script', s)
      BY Zenon, <1>1, <2>1, <2>3, AdvanceScript
    <2>5. Holding'
      BY Zenon, <1>1, <2>4, HeadStep, QuietHolding
    <2> QED
      BY Zenon, <1>2, <2>2, <2>4, <2>5 DEF IInv, Keys, Holding
  <1> QED
    BY Zenon, <1>3, <1>4, <1>5

\* EstablishSessions.
LEMMA EstablishStep ==
    ASSUME IInv, Establish
    PROVE  IInv'
  <1>1. /\ script # <<>> /\ Head(script).op = "establish" /\ Advance
        /\ sessions' = [sessions EXCEPT ![Worker] = @ \cup {Peer}]
        /\ UNCHANGED <<sender_key_id, chain, keys, opened, inboxes, next_message_id, late, sent>>
        /\ UNCHANGED next_workflow_id
    BY Zenon DEF Establish, At, Advance, Go, relay, history
  <1>2. Types /\ Lists /\ ScriptOK
    BY Zenon DEF IInv
  <1>3. task # "broadcast"
    <2> SUFFICES ASSUME task = "broadcast" PROVE FALSE
      OBVIOUS
    <2>1. Head(script).op \in {"encrypt", "post_application", "return"}
      BY Zenon, <1>1, <1>2, BroadcastSteps
    <2> QED
      BY Zenon, <1>1, <2>1
  <1>4. Head(script) \in Steps(Group, Group, next_workflow_id)
    BY Zenon, <1>1, <1>2, <1>3, HeadStep
  <1>5. Peer \in Participants
    <2>1. Peer \in Group
      BY Zenon, <1>4 DEF Steps, Peer
    <2> QED
      BY Zenon, <1>2, <2>1, GroupMembers
  <1>6. sessions' \in [Participants -> SUBSET Participants]
    BY Zenon, <1>1, <1>2, <1>5 DEF Types
  <1>7. Types'
    BY Zenon, <1>1, <1>2, <1>6 DEF Types
  <1>8. NoNewKeys
    BY Zenon, <1>1 DEF NoNewKeys, Given
  <1>9. Head(script).op \notin {"create", "return", "encrypt"}
    BY Zenon, <1>1
  <1> QED
    BY Zenon, <1>1, <1>7, <1>8, <1>9, QuietStep

\* The store is emptied: the chain is gone, but it is going to be renewed.
LEMMA ResetStep ==
    ASSUME IInv, Reset
    PROVE  IInv'
  <1>1. /\ script # <<>> /\ Head(script).op = "reset" /\ script' = Tail(script)
        /\ UNCHANGED <<active, idle, phase, target, task, who, next_workflow_id>>
        /\ chain' = [chain EXCEPT ![Worker] = -1]
        /\ keys' = [keys EXCEPT ![Worker] = {}]
        /\ UNCHANGED <<sender_key_id, sessions, opened, inboxes, next_message_id, late, sent>>
    BY Zenon DEF Reset, At, Advance, Go, relay, history
  <1>2. Types /\ Lists /\ ScriptOK /\ Keys /\ Holding
    BY Zenon DEF IInv, Keys, Holding
  <1>3. Worker \in Participants /\ Worker \in Group
    BY Zenon, <1>1, <1>2, HeadStep, GroupMembers DEF Worker
  <1>4. Cardinality(sent) \in Nat
    BY Zenon, <1>2, FS_CardinalityType DEF Types
  <1>5. /\ chain' \in [Participants -> Int]
        /\ \A p \in Participants : chain'[p] = IF p = Worker THEN -1 ELSE chain[p]
    <2>1. chain \in [Participants -> Int]
      BY Zenon, <1>2 DEF Types
    <2>2. -1 \in Int
      OBVIOUS
    <2> QED
      BY Zenon, <1>1, <2>1, <2>2
  <1>6. \A p \in Participants : -1 <= chain'[p] /\ chain'[p] <= Cardinality(sent)
    <2>1. \A p \in Participants : -1 <= chain[p] /\ chain[p] <= Cardinality(sent)
      BY Zenon, <1>2 DEF Types
    <2>2. -1 <= -1 /\ -1 <= Cardinality(sent)
      BY <1>4
    <2> QED
      BY Zenon, <1>5, <2>1, <2>2
  <1>7. /\ keys' \in [Participants -> SUBSET Key]
        /\ \A p \in Participants : keys'[p] \subseteq keys[p]
    BY Zenon, <1>1, <1>2 DEF Types
  <1>8. Types'
    BY Zenon, <1>1, <1>2, <1>5, <1>6, <1>7 DEF Types
  <1>9. NoNewKeys
    BY Zenon, <1>1, <1>7 DEF NoNewKeys, Given
  <1>10. \A s \in Participants : chain'[s] = chain[s] \/ chain'[s] = -1
    BY Zenon, <1>5
  <1>11. Keys'
    BY Zenon, <1>1, <1>2, <1>9, <1>10, QuietKeys
  <1>12. Lists'
    BY Zenon, <1>1, <1>2 DEF Lists
  <1>13. task # "broadcast"
    <2> SUFFICES ASSUME task = "broadcast" PROVE FALSE
      OBVIOUS
    <2>1. Head(script).op \in {"encrypt", "post_application", "return"}
      BY Zenon, <1>1, <1>2, BroadcastSteps
    <2> QED
      BY Zenon, <1>1, <2>1
  <1>14. Head(script).op # "encrypt" /\ \A s : ~Renewal(Head(script), s)
    BY Zenon, <1>1 DEF Renewal
  <1>15. ScriptOK' /\ Group' = Group /\ \A s : Renews(script, s) => Renews(script', s)
    BY Zenon, <1>1, <1>2, <1>13, <1>14, AdvanceScript
  <1>16. Renews(script', Worker)
    BY Zenon, <1>1, <1>2, <1>13, HeadStep, TailGood DEF Worker
  <1>17. \A s \in Group : chain'[s] = -1 => chain[s] = -1 \/ Renews(script', s)
    BY Zenon, <1>2, <1>5, <1>16, GroupMembers
  <1>18. Holding'
    BY Zenon, <1>1, <1>2, <1>9, <1>15, <1>17, HeadStep, QuietHolding
  <1> QED
    BY Zenon, <1>8, <1>11, <1>12, <1>15, <1>18 DEF IInv, Keys, Holding

\* A chain is created: with a new generation nobody has its key yet; without, the
\* chain was there.
LEMMA CreateStep ==
    ASSUME IInv, Create
    PROVE  IInv'
  <1>1. /\ script # <<>> /\ Head(script).op = "create"
        /\ UNCHANGED <<keys, sessions, opened, inboxes, next_message_id, late, sent>>
    BY Zenon DEF Create, At, relay, history
  <1>2. Types /\ Lists /\ ScriptOK /\ Keys /\ Holding
    BY Zenon DEF IInv, Keys, Holding
  <1>3. NoNewKeys
    BY Zenon, <1>1 DEF NoNewKeys, Given
  <1>4. CASE ~GenerationOK(Worker, Gen)
    <2>1. Abort /\ UNCHANGED <<sender_key_id, chain>>
      BY Zenon, <1>4 DEF Create
    <2>2. Types'
      BY Zenon, <1>1, <1>2, <2>1 DEF Types, Abort
    <2> QED
      BY Zenon, <1>1, <1>3, <2>1, <2>2, QuietStep
  <1>5. CASE GenerationOK(Worker, Gen)
    <2>1. /\ script' = Tail(script)
          /\ UNCHANGED <<active, idle, phase, target, task, who, next_workflow_id>>
          /\ sender_key_id' = [sender_key_id EXCEPT ![Worker] = IF Gen = 0 THEN @ ELSE Gen]
          /\ chain' = [chain EXCEPT ![Worker] = IF Gen # 0 \/ @ = -1 THEN 0 ELSE @]
      BY Zenon, <1>5 DEF Create, Advance, Go
    <2>2. task # "broadcast"
      <3> SUFFICES ASSUME task = "broadcast" PROVE FALSE
        OBVIOUS
      <3>1. Head(script).op \in {"encrypt", "post_application", "return"}
        BY Zenon, <1>1, <1>2, BroadcastSteps
      <3> QED
        BY Zenon, <1>1, <3>1
    <2>3. /\ Good(script, Steps(Group, Group, next_workflow_id))
          /\ Head(script) \in Steps(Group, Group, next_workflow_id)
      BY Zenon, <1>1, <1>2, <2>2, HeadStep
    <2>4. Worker \in Group /\ Gen \in 0..next_workflow_id
      BY Zenon, <2>3 DEF Steps, Worker, Gen
    <2>5. Worker \in Participants /\ Group \subseteq Participants
      BY Zenon, <1>2, <2>4, GroupMembers
    <2>6. Lists'
      BY Zenon, <1>2, <2>1 DEF Lists
    <2>7. Head(script).op # "encrypt"
      BY Zenon, <1>1
    <2>8. /\ ScriptOK' /\ Group' = Group
          /\ \A s : Renews(script, s) /\ ~Renewal(Head(script), s) => Renews(script', s)
      BY Zenon, <1>1, <1>2, <2>1, <2>2, <2>7, AdvanceScript
    <2>9. \A s : s # Worker => ~Renewal(Head(script), s)
      BY Zenon DEF Renewal, Worker
    <2>10. /\ next_workflow_id \in Nat /\ sender_key_id \in [Participants -> Nat]
           /\ chain \in [Participants -> Int] /\ Cardinality(sent) \in Nat
           /\ \A p \in Participants : sender_key_id[p] <= next_workflow_id
           /\ \A p \in Participants : -1 <= chain[p] /\ chain[p] <= Cardinality(sent)
      BY Zenon, <1>2, FS_CardinalityType DEF Types
    <2>11. CASE Gen = 0
      <3>1. Uses(Head(script), Worker)
        BY Zenon, <1>1, <2>11 DEF Uses, Worker, Gen
      <3>2. ~Renews(script, Worker)
        BY Zenon, <1>1, <2>3, <3>1, TailGood
      <3>3. chain[Worker] # -1
        BY Zenon, <1>1, <1>2, <2>4, <3>2, HeadStep DEF Holding, Chained
      <3>4. UNCHANGED <<sender_key_id, chain>>
        BY Zenon, <2>1, <2>5, <2>10, <2>11, <3>3
      <3>5. Types'
        BY Zenon, <1>1, <1>2, <2>1, <3>4 DEF Types
      <3>6. Keys'
        BY Zenon, <1>1, <1>2, <1>3, <3>4, QuietKeys
      <3>7. ~Renewal(Head(script), Worker)
        BY Zenon, <2>11 DEF Renewal, Gen
      <3>8. Holding'
        BY Zenon, <1>1, <1>2, <1>3, <2>8, <2>9, <3>4, <3>7, HeadStep, QuietHolding
      <3> QED
        BY Zenon, <2>6, <2>8, <3>5, <3>6, <3>8 DEF IInv, Keys, Holding
    <2>12. CASE Gen # 0
      <3>1. sender_key_id[Worker] < Gen
        BY Zenon, <1>5, <2>12 DEF GenerationOK
      <3>2. /\ Gen \in Nat /\ Gen <= next_workflow_id /\ 0 \in Int
            /\ -1 <= 0 /\ 0 <= Cardinality(sent) /\ 0 # -1
        BY <2>4, <2>10
      <3>3. /\ sender_key_id' \in [Participants -> Nat] /\ sender_key_id'[Worker] = Gen
            /\ \A p \in Participants \ {Worker} : sender_key_id'[p] = sender_key_id[p]
        BY Zenon, <2>1, <2>5, <2>10, <2>12, <3>2
      <3>4. /\ chain' \in [Participants -> Int] /\ chain'[Worker] = 0
            /\ \A p \in Participants \ {Worker} : chain'[p] = chain[p]
        BY Zenon, <2>1, <2>5, <2>10, <2>12, <3>2
      <3>5. /\ \A p \in Participants : sender_key_id'[p] <= next_workflow_id
            /\ \A p \in Participants : -1 <= chain'[p] /\ chain'[p] <= Cardinality(sent)
        BY Zenon, <2>10, <3>2, <3>3, <3>4
      <3>6. Types'
        BY Zenon, <1>1, <1>2, <2>1, <3>3, <3>4, <3>5 DEF Types
      <3>7. \A p \in Participants : sender_key_id[p] <= sender_key_id'[p]
        BY <2>5, <2>10, <3>1, <3>2, <3>3
      <3>8. GivenOK'
        <4> SUFFICES ASSUME NEW p \in Participants, NEW k, Given(p, k)
                     PROVE  k \in Key /\ k.sender # p /\ k.gen <= sender_key_id'[k.sender]
          BY Zenon, <1>3 DEF GivenOK, NoNewKeys
        <4>1. k \in Key /\ k.sender # p /\ k.gen <= sender_key_id[k.sender]
          BY Zenon, <1>2 DEF Keys, GivenOK
        <4>2. k.sender \in Participants /\ k.gen \in Nat
          BY Zenon, <4>1 DEF Key
        <4>3. k.gen <= sender_key_id'[k.sender]
          BY <2>10, <3>3, <3>7, <4>1, <4>2
        <4> QED
          BY Zenon, <4>1, <4>3
      <3>9. SentOK'
        <4> SUFFICES ASSUME NEW x \in sent
                     PROVE  /\ x \in [m : Message, to : SUBSET Participants]
                            /\ x.m.gen <= sender_key_id'[x.m.sender]
                            /\ (x.m.gen = sender_key_id'[x.m.sender] /\ chain'[x.m.sender] # -1) =>
                                  x.m.iter < chain'[x.m.sender]
          BY Zenon, <1>1 DEF SentOK
        <4>1. /\ x \in [m : Message, to : SUBSET Participants]
              /\ x.m.gen <= sender_key_id[x.m.sender]
              /\ (x.m.gen = sender_key_id[x.m.sender] /\ chain[x.m.sender] # -1) =>
                     x.m.iter < chain[x.m.sender]
          BY Zenon, <1>2 DEF Keys, SentOK
        <4>2. x.m.sender \in Participants /\ x.m.gen \in Nat
          BY Zenon, <4>1 DEF Message
        <4>3. CASE x.m.sender = Worker
          <5>1. x.m.gen < sender_key_id'[x.m.sender]
            BY <2>5, <2>10, <3>1, <3>2, <3>3, <4>1, <4>2, <4>3
          <5>2. x.m.gen <= sender_key_id'[x.m.sender] /\ x.m.gen # sender_key_id'[x.m.sender]
            BY <3>3, <4>2, <5>1
          <5> QED
            BY Zenon, <4>1, <5>2
        <4>4. CASE x.m.sender # Worker
          BY Zenon, <3>3, <3>4, <4>1, <4>2, <4>4
        <4> QED
          BY Zenon, <4>3, <4>4
      <3>10. OnlyRecipientsGiven'
        BY Zenon, <1>1, <1>2, <1>3 DEF Keys, OnlyRecipientsGiven, NoNewKeys
      <3>11. \A s \in Group \ {Worker} : HeldInGroup(s) => HeldInGroup(s)'
        BY Zenon, <1>3, <2>5, <2>8, <3>3 DEF HeldInGroup, NoNewKeys
      <3>12. ASSUME NEW s \in Group, s = Worker PROVE HeldInGroup(s)'
        <4>1. ASSUME NEW p \in Participants, NEW k, Given(p, k), k.sender = s, k.gen = Gen
              PROVE  FALSE
          <5>1. k \in Key /\ k.gen <= sender_key_id[k.sender]
            BY Zenon, <1>2, <4>1 DEF Keys, GivenOK
          <5>2. k.gen <= sender_key_id[Worker]
            BY Zenon, <3>12, <4>1, <5>1
          <5> QED
            BY <2>5, <2>10, <3>1, <3>2, <4>1, <5>2
        <4>2. sender_key_id'[s] = Gen
          BY Zenon, <3>3, <3>12
        <4> QED
          BY Zenon, <1>3, <4>1, <4>2 DEF NoNewKeys, HeldInGroup
      <3>13. Holding'
        <4>1. task # "aborted"
          BY Zenon, <1>1, <1>2, HeadStep
        <4>2. ASSUME NEW s \in Group
              PROVE  \/ Renews(script, s) /\ Renews(script', s)
                     \/ HeldInGroup(s)' /\ (chain'[s] = -1 => Renews(script', s))
          <5>1. CASE s = Worker
            BY Zenon, <3>2, <3>4, <3>12, <5>1
          <5>2. CASE s # Worker
            <6>1. s \in Participants \ {Worker}
              BY Zenon, <2>5, <5>2
            <6> QED
              BY Zenon, <1>2, <2>8, <2>9, <3>4, <3>11, <4>1, <5>2, <6>1
              DEF Holding, GivenInGroup, Chained
          <5> QED
            BY Zenon, <5>1, <5>2
        <4> QED
          BY Zenon, <1>2, <2>8, <4>1, <4>2, HoldingStep
      <3> QED
        BY Zenon, <2>6, <2>8, <3>6, <3>8, <3>9, <3>10, <3>13 DEF IInv, Holding
    <2> QED
      BY Zenon, <2>11, <2>12
  <1> QED
    BY Zenon, <1>4, <1>5

\* The envelope of a post.  A distribution goes from one member of the group to
\* another, and its sender has a chain that it is not about to renew.
LEMMA PostedOK ==
    ASSUME IInv, AtPost
    PROVE  /\ script # <<>> /\ Head(script).op \in {"post", "post_application"}
           /\ Recipients \subseteq Participants
           /\ Posted \in Envelope /\ Posted.sender = Worker
           /\ Posted.conv = "distribution" =>
                 /\ Worker \in Group /\ Peer \in Group /\ Peer # Worker
                 /\ Recipients = {Peer} /\ ~Renews(script, Worker)
                 /\ KeyOf(Posted) \in Key /\ KeyOf(Posted).sender = Worker
                 /\ KeyOf(Posted).gen = sender_key_id[Worker]
                 /\ KeyOf(Posted).from = chain[Worker] /\ chain[Worker] # -1
  <1>1. script # <<>> /\ Head(script).op \in {"post", "post_application"}
    BY Zenon DEF AtPost, At
  <1>2. Types /\ Lists /\ ScriptOK /\ Chained
    BY Zenon DEF IInv
  <1>3. Worker \in Group /\ Worker \in Participants /\ task # "aborted"
        /\ Group \subseteq Participants /\ Range(active) \subseteq Participants
    BY Zenon, <1>1, <1>2, HeadStep, GroupMembers DEF Worker
  <1>4. /\ next_message_id \in Nat /\ sender_key_id[Worker] \in Nat /\ chain[Worker] \in Int
        /\ -1 <= chain[Worker]
    BY Zenon, <1>2, <1>3 DEF Types
  <1>5. CASE Head(script).op = "post"
    <2>1. task # "broadcast"
      <3> SUFFICES ASSUME task = "broadcast" PROVE FALSE
        OBVIOUS
      <3>1. Head(script).op \in {"encrypt", "post_application", "return"}
        BY Zenon, <1>1, <1>2, BroadcastSteps
      <3> QED
        BY Zenon, <1>5, <3>1
    <2>2. /\ Good(script, Steps(Group, Group, next_workflow_id))
          /\ Head(script) \in Steps(Group, Group, next_workflow_id)
      BY Zenon, <1>1, <1>2, <2>1, HeadStep
    <2>3. Peer \in Group /\ Peer # Worker
      BY Zenon, <1>5, <2>2 DEF Steps, Peer, Worker
    <2>4. ~Renews(script, Worker)
      <3>1. Uses(Head(script), Worker)
        BY Zenon, <1>5 DEF Uses, Worker
      <3> QED
        BY Zenon, <1>1, <2>2, <3>1, TailGood
    <2>5. chain[Worker] # -1
      BY Zenon, <1>2, <1>3, <2>4 DEF Chained
    <2>6. chain[Worker] \in Nat
      BY <1>4, <2>5
    <2>7. Posted = [id |-> next_message_id, sender |-> Worker, gen |-> sender_key_id[Worker],
                    conv |-> "distribution", iter |-> chain[Worker]]
      BY Zenon, <1>5 DEF Posted
    <2> HIDE DEF Posted, Worker
    <2>8. Posted \in Envelope /\ Posted.sender = Worker /\ Posted.conv = "distribution"
      BY Zenon, <1>3, <1>4, <2>6, <2>7 DEF Envelope
    <2>9. KeyOf(Posted) = [sender |-> Worker, gen |-> sender_key_id[Worker], from |-> chain[Worker]]
      BY Zenon, <2>7 DEF KeyOf
    <2>10. /\ KeyOf(Posted) \in Key /\ KeyOf(Posted).sender = Worker
           /\ KeyOf(Posted).gen = sender_key_id[Worker] /\ KeyOf(Posted).from = chain[Worker]
      BY <1>3, <1>4, <2>6, <2>9 DEF Key
    <2>11. Recipients = {Peer} /\ Recipients \subseteq Participants
      BY Zenon, <1>3, <1>5, <2>3 DEF Recipients
    <2> QED
      BY Zenon, <1>1, <1>3, <2>3, <2>4, <2>5, <2>8, <2>10, <2>11
  <1>6. CASE Head(script).op = "post_application"
    <2>1. task = "broadcast"
      <3> SUFFICES ASSUME task # "broadcast" PROVE FALSE
        OBVIOUS
      <3>1. Head(script) \in Steps(Group, Group, next_workflow_id)
        BY Zenon, <1>1, <1>2, HeadStep
      <3> QED
        BY Zenon, <1>6, <3>1 DEF Steps
    <2>2. Worker = who /\ chain[Worker] >= 1
      BY Zenon, <1>1, <1>2, <1>6, <2>1, BroadcastSteps DEF Worker
    <2>3. chain[Worker] - 1 \in Nat
      BY <1>4, <2>2
    <2>4. Head(script).op # "post"
      BY Zenon, <1>6
    <2>5. Posted = [id |-> next_message_id, sender |-> Worker, gen |-> sender_key_id[Worker],
                    conv |-> "application", iter |-> chain[Worker] - 1]
      BY Zenon, <2>4 DEF Posted
    <2>6. Recipients \subseteq Participants
      BY Zenon, <1>3, <2>4 DEF Recipients
    <2> HIDE DEF Posted, Worker
    <2>7. Posted \in Envelope /\ Posted.sender = Worker /\ Posted.conv # "distribution"
      BY Zenon, <1>3, <1>4, <2>3, <2>5 DEF Envelope
    <2> QED
      BY Zenon, <1>1, <2>6, <2>7
  <1>7. Head(script).op = "post" \/ Head(script).op = "post_application"
    BY Zenon, <1>1
  <1> QED
    BY Zenon, <1>5, <1>6, <1>7

\* What a post adds to the keys on their way.
NewlyGiven(p, k) == p \in Recipients /\ Posted.conv = "distribution" /\ k = KeyOf(Posted)
PostGives ==
    \A p \in Participants : \A k : Given(p, k)' => Given(p, k) \/ NewlyGiven(p, k)

\* The key is handed out from an iteration after all messages, so that it opens
\* none of them, and to a member of the group.
LEMMA PostKeys ==
    ASSUME IInv, AtPost, PostGives, UNCHANGED <<sender_key_id, chain, sent>>
    PROVE  /\ Keys'
           /\ Group' = Group => \A s \in Group : HeldInGroup(s) => HeldInGroup(s)'
  <1>1. Types /\ Keys
    BY Zenon DEF IInv, Keys
  <1>2. GivenOK'
    <2> SUFFICES ASSUME NEW p \in Participants, NEW k, Given(p, k)'
                 PROVE  k \in Key /\ k.sender # p /\ k.gen <= sender_key_id[k.sender]
      BY Zenon DEF GivenOK
    <2>1. CASE Given(p, k)
      BY Zenon, <1>1, <2>1 DEF Keys, GivenOK
    <2>2. CASE NewlyGiven(p, k)
      <3>1. /\ k \in Key /\ k.sender # p /\ k.gen = sender_key_id[k.sender]
            /\ k.sender \in Participants
        <4>1. p = Peer /\ k \in Key /\ k.sender = Worker /\ Peer # Worker
              /\ k.gen = sender_key_id[Worker]
          BY Zenon, <2>2, PostedOK DEF NewlyGiven
        <4>2. k.sender \in Participants
          BY Zenon, <4>1 DEF Key
        <4> QED
          BY Zenon, <4>1, <4>2
      <3>2. sender_key_id[k.sender] \in Nat
        BY Zenon, <1>1, <3>1 DEF Types
      <3>3. k.gen <= sender_key_id[k.sender]
        BY <3>1, <3>2
      <3> QED
        BY Zenon, <3>1, <3>3
    <2> QED
      BY Zenon, <2>1, <2>2 DEF PostGives
  <1>3. SentOK'
    BY Zenon, <1>1 DEF Keys, SentOK
  <1>4. OnlyRecipientsGiven'
    <2> SUFFICES ASSUME NEW x \in sent, NEW p \in Participants, NEW k, Given(p, k)',
                        k.sender = x.m.sender, k.gen = x.m.gen, k.from <= x.m.iter
                 PROVE  p \in x.to
      BY Zenon DEF OnlyRecipientsGiven
    <2>1. CASE Given(p, k)
      BY Zenon, <1>1, <2>1 DEF Keys, OnlyRecipientsGiven
    <2>2. CASE NewlyGiven(p, k)
      <3>1. /\ k \in Key /\ k.sender = Worker /\ k.gen = sender_key_id[Worker]
            /\ k.from = chain[Worker] /\ chain[Worker] # -1
        BY Zenon, <2>2, PostedOK DEF NewlyGiven
      <3>2. /\ x \in [m : Message, to : SUBSET Participants]
            /\ (x.m.gen = sender_key_id[x.m.sender] /\ chain[x.m.sender] # -1) =>
                   x.m.iter < chain[x.m.sender]
        BY Zenon, <1>1 DEF Keys, SentOK
      <3>3. x.m.iter < k.from
        BY Zenon, <3>1, <3>2
      <3>4. x.m.iter \in Nat /\ k.from \in Nat
        BY Zenon, <3>1, <3>2 DEF Message, Key
      <3> QED
        BY <3>3, <3>4
    <2> QED
      BY Zenon, <2>1, <2>2 DEF PostGives
  <1>5. ASSUME Group' = Group, NEW s \in Group, HeldInGroup(s) PROVE HeldInGroup(s)'
    <2>1. ASSUME NEW p \in Participants, NEW k, Given(p, k)', k.sender = s,
                 k.gen = sender_key_id[s]
          PROVE  p \in Group
      <3>1. CASE Given(p, k)
        BY Zenon, <1>5, <2>1, <3>1 DEF HeldInGroup
      <3>2. CASE NewlyGiven(p, k)
        BY Zenon, <3>2, PostedOK DEF NewlyGiven
      <3> QED
        BY Zenon, <2>1, <3>1, <3>2 DEF PostGives
    <2> QED
      BY Zenon, <1>5, <2>1 DEF HeldInGroup
  <1> QED
    BY Zenon, <1>2, <1>3, <1>4, <1>5 DEF Keys

\* A post, and a post that is not answered: the operation goes on or stays.
LEMMA PostedStep ==
    ASSUME IInv, AtPost, PostGives, Types', UNCHANGED <<sender_key_id, chain, sent>>,
           Advance \/ Go(script)
    PROVE  IInv'
  <1>1. Lists /\ ScriptOK /\ Holding /\ script # <<>>
    BY Zenon, PostedOK DEF IInv, Holding
  <1>2. UNCHANGED <<active, idle, phase, target, task, who, next_workflow_id>>
    BY Zenon DEF Advance, Go
  <1>3. Lists'
    BY Zenon, <1>1, <1>2 DEF Lists
  <1>4. ScriptOK' /\ Group' = Group /\ \A s : Renews(script, s) => Renews(script', s)
    <2>1. CASE Advance
      <3>1. /\ Head(script).op # "return" /\ Head(script).op # "encrypt"
            /\ \A s : ~Renewal(Head(script), s)
        BY Zenon, PostedOK DEF Renewal
      <3>2. script' = Tail(script)
        BY Zenon, <2>1 DEF Advance, Go
      <3> QED
        BY Zenon, <1>1, <1>2, <3>1, <3>2, AdvanceScript
    <2>2. CASE Go(script)
      <3>1. script' = script
        BY Zenon, <2>2 DEF Go
      <3>2. Group' = Group
        BY Zenon, <1>2 DEF Group
      <3> QED
        BY Zenon, <1>1, <1>2, <3>1, <3>2 DEF ScriptOK
    <2> QED
      BY Zenon, <2>1, <2>2
  <1>5. Keys' /\ \A s \in Group : HeldInGroup(s) => HeldInGroup(s)'
    BY Zenon, <1>4, PostKeys
  <1>6. task # "aborted"
    BY Zenon, <1>1, HeadStep
  <1>7. Holding'
    BY Zenon, <1>1, <1>4, <1>5, <1>6, HoldingStep DEF Holding, GivenInGroup, Chained
  <1> QED
    BY Zenon, <1>3, <1>4, <1>5, <1>7 DEF IInv, Keys, Holding

\* A post that is answered, or that fails because there is no pairwise session.
LEMMA PostStep ==
    ASSUME IInv, Post
    PROVE  IInv'
  <1>1. /\ AtPost
        /\ UNCHANGED <<late, sender_key_id, chain, keys, sessions, opened, sent>>
        /\ \/ Abort /\ UNCHANGED <<inboxes, next_message_id>>
           \/ /\ Advance
              /\ inboxes' = publish_pairwise_message(inboxes, Recipients, Posted)
              /\ next_message_id' = next_message_id + 1
    BY Zenon DEF Post, participant, history
  <1>2. Types /\ script # <<>>
    BY Zenon, <1>1, PostedOK DEF IInv
  <1>3. next_workflow_id' = next_workflow_id
    BY Zenon, <1>1 DEF Abort, Advance, Go
  <1>4. CASE Abort /\ UNCHANGED <<inboxes, next_message_id>>
    <2>1. Types' /\ NoNewKeys
      BY Zenon, <1>1, <1>2, <1>3, <1>4 DEF Types, NoNewKeys, Given
    <2> QED
      BY Zenon, <1>1, <1>2, <1>4, <2>1, QuietStep
  <1>5. CASE /\ Advance
             /\ inboxes' = publish_pairwise_message(inboxes, Recipients, Posted)
             /\ next_message_id' = next_message_id + 1
    <2>1. Posted \in Envelope
      BY Zenon, <1>1, PostedOK
    <2>2. late' \subseteq late /\ keys' = keys
      BY Zenon, <1>1
    <2>3. /\ inboxes' \in [Participants -> Seq(Envelope)]
          /\ \A p \in Participants : \A k : Given(p, k)' =>
                Given(p, k) \/ GivenBy(p, k, Recipients, Posted)
      BY Zenon, <1>2, <1>5, <2>1, <2>2, PublishGiven
    <2>4. PostGives
      <3>1. \A p, k : GivenBy(p, k, Recipients, Posted) => NewlyGiven(p, k)
        BY Zenon DEF GivenBy, NewlyGiven
      <3> QED
        BY Zenon, <2>3, <3>1 DEF PostGives
    <2>5. next_message_id \in Nat
      BY Zenon, <1>2 DEF Types
    <2>6. next_message_id' \in Nat
      BY <1>5, <2>5
    <2>7. Types'
      BY Zenon, <1>1, <1>2, <1>3, <2>3, <2>6 DEF Types
    <2> QED
      BY Zenon, <1>1, <1>5, <2>4, <2>7, PostedStep
  <1> QED
    BY Zenon, <1>1, <1>4, <1>5

\* A post without an answer: the relay may still run it.
LEMMA PostUnansweredStep ==
    ASSUME IInv, PostUnanswered
    PROVE  IInv'
  <1>1. /\ AtPost /\ next_message_id' = next_message_id + 1
        /\ late' = late \cup {[to |-> r, envelope |-> Posted] : r \in Recipients}
        /\ UNCHANGED <<inboxes, sender_key_id, chain, keys, sessions, opened, sent>>
        /\ Go(script) /\ next_workflow_id' = next_workflow_id
    BY Zenon DEF PostUnanswered, participant, history, runner, Go
  <1>2. Types
    BY Zenon DEF IInv
  <1>3. Posted \in Envelope /\ Recipients \subseteq Participants
    BY Zenon, <1>1, PostedOK
  <1>4. next_message_id \in Nat /\ late \subseteq [to : Participants, envelope : Envelope]
    BY Zenon, <1>2 DEF Types
  <1> HIDE DEF Posted, Recipients
  <1>5. next_message_id' \in Nat /\ late' \subseteq [to : Participants, envelope : Envelope]
    BY <1>1, <1>3, <1>4
  <1>6. Types'
    BY Zenon, <1>1, <1>2, <1>5 DEF Types
  <1>7. PostGives
    <2> SUFFICES ASSUME NEW p \in Participants, NEW k, Given(p, k)', ~Given(p, k)
                 PROVE  NewlyGiven(p, k)
      BY Zenon DEF PostGives
    <2>1. PICK x \in late' : /\ x.to = p /\ x.envelope.conv = "distribution"
                             /\ k = KeyOf(x.envelope)
      BY Zenon, <1>1 DEF Given
    <2>2. x \notin late
      BY Zenon, <2>1 DEF Given
    <2>3. PICK r \in Recipients : x = [to |-> r, envelope |-> Posted]
      BY Zenon, <1>1, <2>2
    <2>4. x.to = r /\ x.envelope = Posted
      BY Zenon, <2>3
    <2> QED
      BY Zenon, <2>1, <2>4 DEF NewlyGiven
  <1> QED
    BY Zenon, <1>1, <1>6, <1>7, PostedStep

\* The relay runs a repeated post late: its key was on its way already.
LEMMA LatePushStep ==
    ASSUME IInv, LatePush
    PROVE  IInv'
  <1>1. PICK x \in late :
            /\ late' = late \ {x}
            /\ inboxes' = publish_pairwise_message(inboxes, {x.to}, x.envelope)
            /\ UNCHANGED <<next_message_id, sender_key_id, chain, keys, sessions, opened, sent>>
            /\ UNCHANGED <<active, idle, phase, target, task, who, script, next_workflow_id>>
    BY Zenon DEF LatePush, participant, history, runner
  <1>2. Types /\ Lists
    BY Zenon DEF IInv
  <1>3. x \in [to : Participants, envelope : Envelope]
    BY Zenon, <1>2 DEF Types
  <1>4. x.envelope \in Envelope
    BY Zenon, <1>3
  <1>5. late' \subseteq late
    BY Zenon, <1>1
  <1>6. /\ inboxes' \in [Participants -> Seq(Envelope)]
        /\ \A p \in Participants : \A k : Given(p, k)' =>
              Given(p, k) \/ GivenBy(p, k, {x.to}, x.envelope)
    BY Zenon, <1>1, <1>2, <1>4, <1>5, PublishGiven
  <1>7. NoNewKeys
    <2> SUFFICES ASSUME NEW p \in Participants, NEW k, Given(p, k)' PROVE Given(p, k)
      BY Zenon DEF NoNewKeys
    <2>1. CASE GivenBy(p, k, {x.to}, x.envelope)
      BY Zenon, <2>1 DEF Given, GivenBy
    <2> QED
      BY Zenon, <1>6, <2>1
  <1>8. Types'
    BY Zenon, <1>1, <1>2, <1>5, <1>6 DEF Types
  <1>9. phase' \in {"transition", "removal", "application"} /\ target' \in Nat
    BY Zenon, <1>1, <1>2 DEF Lists
  <1> QED
    BY Zenon, <1>1, <1>7, <1>8, <1>9, SteadyRunner

\* receive_distribution: a key is taken from an envelope of the inbox.
LEMMA ReceiveStep ==
    ASSUME IInv, Receive
    PROVE  IInv'
  <1>1. /\ script # <<>> /\ Head(script).op = "receive"
        /\ UNCHANGED <<next_message_id, late, sender_key_id, chain, sent>>
    BY Zenon DEF Receive, At, history
  <1>2. Types /\ Lists /\ ScriptOK
    BY Zenon DEF IInv
  <1>3. Worker \in Participants
    BY Zenon, <1>1, <1>2, HeadStep, GroupMembers DEF Worker
  <1>4. Head(script).op \notin {"create", "return", "encrypt"}
    BY Zenon, <1>1
  <1>5. CASE Abort /\ UNCHANGED <<inboxes, opened, sessions, keys>>
    <2>1. next_workflow_id' = next_workflow_id
      BY Zenon, <1>5 DEF Abort
    <2>2. Types' /\ NoNewKeys
      BY Zenon, <1>1, <1>2, <1>5, <2>1 DEF Types, NoNewKeys, Given
    <2> QED
      BY Zenon, <1>1, <1>5, <2>2, QuietStep
  <1>6. ASSUME NEW e \in Envelope, \E i \in 1..Len(inboxes[Worker]) : e = inboxes[Worker][i],
               Skips(e) \/ Accepts(e),
               inboxes' = ack_message(inboxes, Worker, e),
               opened' = [opened EXCEPT ![Worker] =
                   @ \cup (IF e.conv = "distribution" THEN {Ciphertext(e)} ELSE {})],
               sessions' = [sessions EXCEPT ![Worker] =
                   @ \cup (IF e.conv = "distribution" THEN {e.sender} ELSE {})],
               keys' = [keys EXCEPT ![Worker] = @ \cup (IF Skips(e) THEN {} ELSE {KeyOf(e)})],
               Go(IF Skips(e) THEN script ELSE Tail(script))
        PROVE  IInv'
    <2>1. /\ inboxes \in [Participants -> Seq(Envelope)] /\ keys \in [Participants -> SUBSET Key]
          /\ opened \in [Participants -> SUBSET Message]
          /\ sessions \in [Participants -> SUBSET Participants]
      BY Zenon, <1>2 DEF Types
    <2>2. Ciphertext(e) \in Message /\ KeyOf(e) \in Key /\ e.sender \in Participants
      BY Zenon, <1>6 DEF Envelope, Message, Key, Ciphertext, KeyOf
    <2>3. /\ opened' \in [Participants -> SUBSET Message]
          /\ sessions' \in [Participants -> SUBSET Participants]
          /\ keys' \in [Participants -> SUBSET Key]
      <3> HIDE DEF Message, Key, Ciphertext, KeyOf, Skips, Worker
      <3>1. opened' \in [Participants -> SUBSET Message]
        BY Zenon, <1>3, <1>6, <2>1, <2>2
      <3>2. sessions' \in [Participants -> SUBSET Participants]
        BY Zenon, <1>3, <1>6, <2>1, <2>2
      <3>3. keys' \in [Participants -> SUBSET Key]
        BY Zenon, <1>3, <1>6, <2>1, <2>2
      <3> QED
        BY Zenon, <3>1, <3>2, <3>3
    <2>4. inboxes' \in [Participants -> Seq(Envelope)] /\ OnlyOld
      BY Zenon, <1>2, <1>3, <1>6, AckOld
    <2>5. ASSUME NEW p \in Participants, NEW k, k \in keys'[p] PROVE Given(p, k)
      <3>1. \/ k \in keys[p]
            \/ p = Worker /\ ~Skips(e) /\ k = KeyOf(e)
        <4>1. CASE p = Worker
          <5>1. keys'[p] = keys[p] \cup (IF Skips(e) THEN {} ELSE {KeyOf(e)})
            BY Zenon, <1>6, <2>1, <4>1
          <5> QED
            BY Zenon, <2>5, <4>1, <5>1
        <4>2. CASE p # Worker
          BY Zenon, <1>6, <2>1, <2>5, <4>2
        <4> QED
          BY Zenon, <4>1, <4>2
      <3>2. CASE k \in keys[p]
        BY Zenon, <3>2 DEF Given
      <3>3. CASE p = Worker /\ ~Skips(e) /\ k = KeyOf(e)
        <4>1. e.conv = "distribution"
          BY Zenon, <1>6, <3>3 DEF Accepts
        <4> QED
          BY Zenon, <1>6, <3>3, <4>1 DEF Given
      <3> QED
        BY Zenon, <3>1, <3>2, <3>3
    <2>6. NoNewKeys
      <3>1. late' \subseteq late
        BY Zenon, <1>1
      <3> QED
        BY Zenon, <2>4, <2>5, <3>1, OldGiven
    <2>7. next_workflow_id' = next_workflow_id
      BY Zenon, <1>6 DEF Go
    <2>8. Types'
      BY Zenon, <1>1, <1>2, <2>3, <2>4, <2>7 DEF Types
    <2>9. Advance \/ Go(script)
      BY Zenon, <1>6 DEF Advance
    <2> QED
      BY Zenon, <1>1, <1>4, <2>6, <2>8, <2>9, QuietStep
  <1> DEFINE pending == PendingFrom(inboxes, Worker, Peer)
             e == Head(pending)
  <1>7. CASE pending = <<>>
    BY Zenon, <1>5, <1>7 DEF Receive
  <1>8. CASE pending # <<>>
    <2>1. e \in Envelope /\ \E i \in 1..Len(inboxes[Worker]) : e = inboxes[Worker][i]
      BY Zenon, <1>2, <1>3, <1>8, HeadPending
    <2>2. ReceiveOne(e)
      BY Zenon, <1>8 DEF Receive
    <2> HIDE DEF e
    <2>3. CASE ~Decrypts(e) \/ ~(Skips(e) \/ Accepts(e))
      BY Zenon, <1>5, <2>2, <2>3 DEF ReceiveOne
    <2>4. CASE ~(~Decrypts(e) \/ ~(Skips(e) \/ Accepts(e)))
      BY Zenon, <1>6, <2>1, <2>2, <2>4 DEF ReceiveOne, KeyOf
    <2> QED
      BY Zenon, <2>3, <2>4
  <1> QED
    BY Zenon, <1>7, <1>8

\* sender_key_encrypt: the message is a new one, and those who were given the
\* chain are its recipients.
LEMMA EncryptStep ==
    ASSUME IInv, Encrypt
    PROVE  IInv'
  <1>1. /\ script # <<>> /\ Head(script).op = "encrypt"
        /\ UNCHANGED <<next_message_id, late, inboxes, sender_key_id, keys, sessions, opened>>
    BY Zenon DEF Encrypt, At, relay
  <1>2. Types /\ Lists /\ ScriptOK /\ Keys /\ Holding
    BY Zenon DEF IInv, Keys, Holding
  <1>3. NoNewKeys
    BY Zenon, <1>1 DEF NoNewKeys, Given
  <1>4. task = "broadcast"
    <2> SUFFICES ASSUME task # "broadcast" PROVE FALSE
      OBVIOUS
    <2>1. Head(script) \in Steps(Group, Group, next_workflow_id)
      BY Zenon, <1>1, <1>2, HeadStep
    <2> QED
      BY Zenon, <1>1, <2>1 DEF Steps
  <1>5. CASE Abort /\ UNCHANGED <<chain, sent>>
    <2>1. next_workflow_id' = next_workflow_id
      BY Zenon, <1>5 DEF Abort
    <2>2. Types'
      BY Zenon, <1>1, <1>2, <1>5, <2>1 DEF Types
    <2> QED
      BY Zenon, <1>1, <1>3, <1>5, <2>2, QuietStep
  <1> DEFINE m == [sender |-> Worker, gen |-> sender_key_id[Worker], iter |-> chain[Worker]]
             y == [m |-> m, to |-> Range(active) \ {Worker}]
  <1>6. CASE /\ ~(sender_key_id[Worker] = 0 \/ chain[Worker] = -1) /\ Advance
             /\ chain' = [chain EXCEPT ![Worker] = @ + 1]
             /\ sent' = sent \cup {y}
    <2>1. /\ Worker = who /\ who \in Group /\ ~Renews(script, who) /\ Cardinality(sent) < MaxSends
          /\ \A s : ~Renews(script, s)
      <3>1. /\ Worker = who /\ who \in Group /\ \A s : ~Renews(script, s)
        BY Zenon, <1>1, <1>2, <1>4, BroadcastSteps DEF Worker
      <3>2. Cardinality(sent) < MaxSends
        BY Zenon, <1>1, <1>2, <1>4, BroadcastSteps
      <3> QED
        BY Zenon, <3>1, <3>2
    <2>2. /\ Worker \in Participants /\ Group \subseteq Participants
          /\ Range(active) \subseteq Participants
      BY Zenon, <1>2, <2>1, GroupMembers
    <2>3. /\ sender_key_id[Worker] \in Nat /\ chain[Worker] \in Int /\ -1 <= chain[Worker]
          /\ chain[Worker] <= Cardinality(sent) /\ IsFiniteSet(sent) /\ MaxSends \in Nat
          /\ chain \in [Participants -> Int]
          /\ \A p \in Participants : -1 <= chain[p] /\ chain[p] <= Cardinality(sent)
      BY Zenon, <1>2, <2>2, BoundsAssumption DEF Types
    <2>4. chain[Worker] \in Nat
      BY <1>6, <2>3
    <2>5. Group = Range(active)
      <3>1. task # "enroll"
        BY Zenon, <1>4
      <3> QED
        BY Zenon, <3>1 DEF Group
    <2>6. HeldInGroup(who)
      <3>1. task # "aborted"
        BY Zenon, <1>4
      <3> QED
        BY Zenon, <1>2, <2>1, <3>1 DEF Holding, GivenInGroup
    <2> HIDE DEF Worker
    <2>7. /\ y \in [m : Message, to : SUBSET Participants] /\ y.m = m
          /\ y.to = Range(active) \ {Worker} /\ m.sender = Worker
          /\ m.gen = sender_key_id[Worker] /\ m.iter = chain[Worker]
      BY Zenon, <2>2, <2>3, <2>4 DEF Message
    <2> HIDE DEF m, y
    <2>8. /\ chain'[Worker] = chain[Worker] + 1 /\ chain' \in [Participants -> Int]
          /\ \A p \in Participants \ {Worker} : chain'[p] = chain[p]
      <3>1. chain[Worker] + 1 \in Int
        BY <2>3
      <3> QED
        BY Zenon, <1>6, <2>2, <2>3, <3>1
    <2>9. y \notin sent
      <3> SUFFICES ASSUME y \in sent PROVE FALSE
        OBVIOUS
      <3>1. chain[Worker] < chain[Worker]
        BY Zenon, <1>2, <1>6, <2>7 DEF Keys, SentOK
      <3> QED
        BY <2>4, <3>1
    <2>10. /\ Cardinality(sent') = Cardinality(sent) + 1 /\ IsFiniteSet(sent')
           /\ Cardinality(sent) \in Nat
      BY Zenon, <1>6, <2>3, <2>9, FS_AddElement, FS_CardinalityType
    <2>11. /\ Cardinality(sent') <= MaxSends
           /\ \A p \in Participants : -1 <= chain'[p] /\ chain'[p] <= Cardinality(sent')
      <3>1. Cardinality(sent') <= MaxSends
        BY <2>1, <2>3, <2>10
      <3>2. ASSUME NEW p \in Participants
            PROVE  -1 <= chain'[p] /\ chain'[p] <= Cardinality(sent')
        <4>1. chain[p] \in Int /\ -1 <= chain[p] /\ chain[p] <= Cardinality(sent)
          BY Zenon, <2>3
        <4>2. CASE p = Worker
          BY <2>8, <2>10, <4>1, <4>2
        <4>3. CASE p # Worker
          <5>1. chain'[p] = chain[p]
            BY Zenon, <2>8, <4>3
          <5> QED
            BY <2>10, <4>1, <5>1
        <4> QED
          BY Zenon, <4>2, <4>3
      <3> QED
        BY Zenon, <3>1, <3>2
    <2>12. /\ UNCHANGED <<active, idle, phase, target, task, who, next_workflow_id>>
           /\ script' = Tail(script)
      BY Zenon, <1>6 DEF Advance, Go
    <2>13. Types'
      BY Zenon, <1>1, <1>2, <2>8, <2>10, <2>11, <2>12 DEF Types
    <2>14. Lists'
      BY Zenon, <1>2, <2>12 DEF Lists
    <2>15. ScriptOK' /\ Group' = Group
      <3>1. chain'[who] >= 1 /\ Head(script).op # "return"
        BY <1>1, <2>1, <2>4, <2>8
      <3> QED
        BY Zenon, <1>1, <1>2, <2>12, <3>1, AdvanceScript
    <2>16. \A s \in Participants : chain'[s] = -1 => chain[s] = -1
      <3>1. chain'[Worker] # -1
        BY <2>4, <2>8
      <3> QED
        BY Zenon, <2>8, <3>1
    <2>17. Holding'
      <3>1. task # "aborted"
        BY Zenon, <1>4
      <3> QED
        BY Zenon, <1>1, <1>2, <1>3, <2>1, <2>2, <2>15, <2>16, <3>1, QuietHolding
    <2>18. GivenOK'
      BY Zenon, <1>1, <1>2, <1>3 DEF Keys, GivenOK, NoNewKeys
    <2>19. SentOK'
      <3> SUFFICES ASSUME NEW x \in sent'
                   PROVE  /\ x \in [m : Message, to : SUBSET Participants]
                          /\ x.m.gen <= sender_key_id[x.m.sender]
                          /\ (x.m.gen = sender_key_id[x.m.sender] /\ chain'[x.m.sender] # -1) =>
                                x.m.iter < chain'[x.m.sender]
        BY Zenon, <1>1 DEF SentOK
      <3>1. CASE x = y
        <4>1. sender_key_id[Worker] <= sender_key_id[Worker] /\ chain[Worker] < chain'[Worker]
          BY <2>3, <2>4, <2>8
        <4> QED
          BY Zenon, <2>7, <3>1, <4>1
      <3>2. CASE x \in sent
        <4>1. /\ x \in [m : Message, to : SUBSET Participants]
              /\ x.m.gen <= sender_key_id[x.m.sender]
              /\ (x.m.gen = sender_key_id[x.m.sender] /\ chain[x.m.sender] # -1) =>
                    x.m.iter < chain[x.m.sender]
          BY Zenon, <1>2, <3>2 DEF Keys, SentOK
        <4>2. x.m.sender \in Participants /\ x.m.iter \in Nat
          BY Zenon, <4>1 DEF Message
        <4>3. CASE x.m.sender = Worker
          <5>1. x.m.gen = sender_key_id[x.m.sender] => x.m.iter < chain[Worker]
            BY Zenon, <1>6, <4>1, <4>3
          <5>2. x.m.iter < chain[Worker] => x.m.iter < chain'[Worker]
            BY <2>4, <2>8, <4>2
          <5> QED
            BY Zenon, <4>1, <4>3, <5>1, <5>2
        <4>4. CASE x.m.sender # Worker
          BY Zenon, <2>8, <4>1, <4>2, <4>4
        <4> QED
          BY Zenon, <4>3, <4>4
      <3> QED
        BY Zenon, <1>6, <3>1, <3>2
    <2>20. OnlyRecipientsGiven'
      <3> SUFFICES ASSUME NEW x \in sent', NEW p \in Participants, NEW k, Given(p, k)',
                          k.sender = x.m.sender, k.gen = x.m.gen, k.from <= x.m.iter
                   PROVE  p \in x.to
        BY Zenon DEF OnlyRecipientsGiven
      <3>1. Given(p, k)
        BY Zenon, <1>3 DEF NoNewKeys
      <3>2. CASE x = y
        <4>1. k.sender = who /\ k.gen = sender_key_id[who]
          BY Zenon, <2>1, <2>7, <3>2
        <4>2. p \in Group
          BY Zenon, <2>6, <3>1, <4>1 DEF HeldInGroup
        <4>3. p # who
          BY Zenon, <1>2, <3>1, <4>1 DEF Keys, GivenOK
        <4> QED
          BY Zenon, <2>1, <2>5, <2>7, <3>2, <4>2, <4>3
      <3>3. CASE x \in sent
        BY Zenon, <1>2, <3>1, <3>3 DEF Keys, OnlyRecipientsGiven
      <3> QED
        BY Zenon, <1>6, <3>2, <3>3
    <2> QED
      BY Zenon, <2>13, <2>14, <2>15, <2>17, <2>18, <2>19, <2>20 DEF IInv, Holding
  <1> QED
    BY Zenon, <1>5, <1>6 DEF Encrypt

\* A worker that is on no list becomes active.
LEMMA AppendActive ==
    ASSUME NEW S, NEW list \in Seq(S), IsInjective(list), NEW w \in S \ Range(list)
    PROVE  /\ Append(list, w) \in Seq(S) /\ IsInjective(Append(list, w))
           /\ Range(Append(list, w)) = Range(list) \cup {w}
  <1> DEFINE b == <<w>>
  <1>1. b \in Seq(S) /\ Append(list, w) = list \o b /\ DOMAIN b = {1} /\ b[1] = w
    OBVIOUS
  <1> HIDE DEF b
  <1>2. Range(b) = {w}
    BY Zenon, <1>1 DEF Range
  <1>3. IsInjective(b)
    BY Zenon, <1>1 DEF IsInjective
  <1>4. Range(list) \cap Range(b) = {}
    BY Zenon, <1>2
  <1>5. /\ list \o b \in Seq(S) /\ Range(list \o b) = Range(list) \cup Range(b)
        /\ IsInjective(list \o b)
    BY <1>1, <1>3, <1>4, ConcatLists
  <1> QED
    BY Zenon, <1>1, <1>2, <1>5

\* A script has one step if nothing follows the first.
LEMMA NoTail ==
    ASSUME NEW S, NEW sc \in Seq(S), sc # <<>>
    PROVE  /\ Len(Tail(sc)) = Len(sc) - 1 /\ Len(sc) \in Nat /\ Head(sc) = sc[1]
           /\ (Tail(sc) = <<>>) <=> ~(Len(sc) > 1)
  <1> DEFINE t == Tail(sc)
  <1>1. Len(t) = Len(sc) - 1 /\ Len(sc) \in Nat /\ Head(sc) = sc[1] /\ Len(sc) > 0
    OBVIOUS
  <1>2. t \in Seq(S)
    OBVIOUS
  <1> HIDE DEF t
  <1>3. (t = <<>>) <=> (Len(t) = 0)
    BY <1>2
  <1>4. (t = <<>>) <=> ~(Len(sc) > 1)
    BY <1>1, <1>3
  <1> QED
    BY Zenon, <1>1, <1>4 DEF t

\* The answer of the last command: nothing was left to renew.
LEMMA LastReturn ==
    ASSUME IInv, At("return"), script' = <<>>, Tail(script) = <<>>,
           UNCHANGED <<idle, phase, target, who, next_workflow_id>>, UNCHANGED data,
           active' = IF task = "enroll" THEN Append(active, who) ELSE active,
           task' = IF task = "broadcast" THEN "fanout" ELSE "none"
    PROVE  IInv'
  <1>1. script # <<>> /\ Head(script).op = "return"
    BY Zenon DEF At
  <1>2. Types /\ Lists /\ ScriptOK /\ Keys /\ Holding
    BY Zenon DEF IInv, Keys, Holding
  <1>3. next_workflow_id' \in Nat /\ next_workflow_id <= next_workflow_id'
    BY <1>2 DEF Types
  <1>4. Types' /\ NoNewKeys
    BY Zenon, <1>2, <1>3, QuietData
  <1>5. Keys'
    BY Zenon, <1>2, <1>4, QuietKeys DEF data
  <1>6. Group' = Group /\ Lists'
    <2>1. CASE task = "enroll"
      <3>1. who \in Participants \ (Range(active) \cup Range(idle))
        BY Zenon, <1>2, <2>1 DEF Lists
      <3>2. task' = "none" /\ active' = Append(active, who)
        BY Zenon, <2>1
      <3>3. /\ active' \in Seq(Participants) /\ IsInjective(active')
            /\ Range(active') = Range(active) \cup {who}
        <4>1. /\ who \in Participants \ Range(active)
              /\ active \in Seq(Participants) /\ IsInjective(active)
          BY Zenon, <1>2, <3>1 DEF Lists
        <4> QED
          BY <3>2, <4>1, AppendActive
      <3>4. task' # "enroll" /\ task' \notin {"broadcast", "fanout"} /\ task' \in Tasks
        BY Zenon, <3>2 DEF Tasks
      <3>5. Range(active') \cap Range(idle') = {}
        BY Zenon, <1>2, <3>1, <3>3 DEF Lists
      <3>6. Lists'
        BY Zenon, <1>2, <3>3, <3>4, <3>5 DEF Lists
      <3>7. Group' = Group
        BY Zenon, <2>1, <3>3, <3>4 DEF Group
      <3> QED
        BY Zenon, <3>6, <3>7
    <2>2. CASE task # "enroll"
      <3>1. active' = active
        BY Zenon, <2>2
      <3>2. task' # "enroll" /\ task' \in Tasks
        BY Zenon DEF Tasks
      <3>3. task' \in {"broadcast", "fanout"} => task \in {"broadcast", "fanout"}
        OBVIOUS
      <3>4. Lists'
        BY Zenon, <1>2, <3>1, <3>2, <3>3 DEF Lists
      <3>5. Group' = Group
        BY Zenon, <2>2, <3>1, <3>2 DEF Group
      <3> QED
        BY Zenon, <3>4, <3>5
    <2> QED
      BY Zenon, <2>1, <2>2
  <1>7. ScriptOK'
    <2>1. task' \in {"none", "fanout"} /\ task' \notin {"enroll", "refresh", "broadcast"}
      OBVIOUS
    <2> QED
      BY Zenon, <2>1 DEF ScriptOK
  <1>8. \A s : ~Renews(script, s)
    <2>1. CASE task = "broadcast"
      BY Zenon, <1>1, <1>2, <2>1, BroadcastSteps
    <2>2. CASE task # "broadcast"
      <3> DEFINE S == Steps(Group, Group, next_workflow_id)
      <3>1. script \in Seq(S)
        BY Zenon, <1>1, <1>2, <2>2, HeadStep DEF Good
      <3> HIDE DEF S
      <3>2. ~(Len(script) > 1) /\ Len(script) \in Nat /\ Head(script) = script[1]
        BY Zenon, <1>1, <3>1, NoTail
      <3>3. \A j \in 1..Len(script) : j = 1
        BY <3>2
      <3>4. \A j \in 1..Len(script) : script[j].op = "return"
        BY Zenon, <1>1, <3>2, <3>3
      <3>5. \A j \in 1..Len(script) : script[j].op # "create"
        BY Zenon, <3>4
      <3> QED
        BY Zenon, <3>5 DEF Renews, RenewsAfter, Renewal
    <2> QED
      BY Zenon, <2>1, <2>2
  <1>9. task # "aborted"
    BY Zenon, <1>1, <1>2, HeadStep
  <1>10. Holding'
    BY Zenon, <1>2, <1>4, <1>6, <1>8, <1>9, QuietHolding DEF data
  <1> QED
    BY Zenon, <1>4, <1>5, <1>6, <1>7, <1>10 DEF IInv, Keys, Holding

\* The answer of a command.
LEMMA ReturnStep ==
    ASSUME IInv, Return
    PROVE  IInv'
  <1>1. /\ At("return") /\ script # <<>> /\ Head(script).op = "return" /\ script' = Tail(script)
        /\ UNCHANGED <<idle, phase, target, who, next_workflow_id>> /\ UNCHANGED data
    BY Zenon DEF Return, At, data, participant, relay, history
  <1>2. Types /\ Lists /\ ScriptOK /\ Keys /\ Holding
    BY Zenon DEF IInv, Keys, Holding
  <1>3. (Len(script) > 1) <=> (Tail(script) # <<>>)
    <2>1. CASE task = "broadcast"
      <3>1. \/ script = Encrypting(who) \/ script = Posting(who) \/ script = Returning(who)
        BY Zenon, <1>2, <2>1 DEF ScriptOK
      <3>2. script = Encrypting(who) => script \in Seq({script[1], script[2], script[3]})
        BY DEF Encrypting
      <3>3. script = Posting(who) => script \in Seq({script[1], script[2]})
        BY DEF Posting
      <3>4. script = Returning(who) => script \in Seq({script[1]})
        BY DEF Returning
      <3> QED
        BY Zenon, <1>1, <3>1, <3>2, <3>3, <3>4, NoTail
    <2>2. CASE task # "broadcast"
      <3> DEFINE S == Steps(Group, Group, next_workflow_id)
      <3>1. script \in Seq(S)
        BY Zenon, <1>1, <1>2, <2>2, HeadStep DEF Good
      <3> HIDE DEF S
      <3> QED
        BY Zenon, <1>1, <3>1, NoTail
    <2> QED
      BY Zenon, <2>1, <2>2
  <1>4. CASE ~(Len(script) > 1)
    BY Zenon, <1>1, <1>3, <1>4, LastReturn DEF Return
  <1>5. CASE Len(script) > 1
    <2>1. task # "broadcast"
      BY Zenon, <1>1, <1>2, <1>3, <1>5, BroadcastSteps
    <2>2. UNCHANGED <<active, task>>
      BY Zenon, <1>5 DEF Return
    <2>3. next_workflow_id' \in Nat /\ next_workflow_id <= next_workflow_id'
      BY <1>1, <1>2 DEF Types
    <2>4. Types' /\ NoNewKeys
      BY Zenon, <1>1, <1>2, <2>3, QuietData
    <2>5. Keys'
      BY Zenon, <1>1, <1>2, <2>4, QuietKeys DEF data
    <2>6. Lists'
      BY Zenon, <1>1, <1>2, <2>2 DEF Lists
    <2>7. Head(script).op # "encrypt" /\ \A s : ~Renewal(Head(script), s)
      BY Zenon, <1>1 DEF Renewal
    <2>8. ScriptOK' /\ Group' = Group /\ \A s : Renews(script, s) => Renews(script', s)
      BY Zenon, <1>1, <1>2, <2>1, <2>2, <2>7, AdvanceScript
    <2>9. Holding'
      BY Zenon, <1>1, <1>2, <2>4, <2>8, HeadStep, QuietHolding DEF data
    <2> QED
      BY Zenon, <2>4, <2>5, <2>6, <2>8, <2>9 DEF IInv, Keys, Holding
  <1> QED
    BY Zenon, <1>4, <1>5
-----------------------------------------------------------------------------
(* Failures, and the receiving side of a broadcast.                        *)

\* The others refresh after a failure.
LEMMA DropStep ==
    ASSUME IInv, NEW S, DropAndRefresh(S), UNCHANGED <<participant, relay>>
    PROVE  IInv'
  <1> DEFINE members == Without(active, S)
  <1>1. /\ BeginRefresh(members) /\ UNCHANGED <<idle, phase, target>> /\ UNCHANGED data
    BY Zenon DEF DropAndRefresh, data, participant, relay
  <1>2. Lists
    BY Zenon DEF IInv
  <1>3. /\ members \in Seq(Participants \ S) /\ IsInjective(members)
        /\ Range(members) = Range(active) \ S
    BY Zenon, <1>2, WithoutList DEF Lists
  <1> HIDE DEF members
  <1>4. members \in Seq(Participants)
    BY <1>3
  <1>5. Range(members) \cap Range(idle') = {}
    BY Zenon, <1>1, <1>2, <1>3 DEF Lists
  <1>6. /\ idle' \in Seq(Participants) /\ IsInjective(idle')
        /\ phase' \in {"transition", "removal", "application"}
    BY Zenon, <1>1, <1>2 DEF Lists
  <1> QED
    BY Zenon, <1>1, <1>3, <1>4, <1>5, <1>6, BeginRefreshOK

\* A failure that is nobody's ends the run; others are followed by a refresh.
LEMMA BroadcastFailedStep ==
    ASSUME IInv, BroadcastFailed
    PROVE  IInv'
  <1>1. CASE Abort /\ UNCHANGED history
    <2>1. UNCHANGED data
      BY Zenon, <1>1 DEF BroadcastFailed, data, participant, relay, history
    <2>2. Types /\ Lists /\ Keys
      BY Zenon DEF IInv, Keys
    <2>3. Lists' /\ ScriptOK' /\ Holding' /\ next_workflow_id' = next_workflow_id
      BY Zenon, <1>1, <2>2, AbortOK
    <2>4. next_workflow_id' \in Nat /\ next_workflow_id <= next_workflow_id'
      BY <2>2, <2>3 DEF Types
    <2>5. Types' /\ NoNewKeys
      BY Zenon, <2>1, <2>2, <2>4, QuietData
    <2>6. Keys'
      BY Zenon, <2>1, <2>2, <2>5, QuietKeys DEF data
    <2> QED
      BY Zenon, <2>3, <2>5, <2>6 DEF IInv, Keys, Holding
  <1>2. CASE DropAndRefresh(Blamed)
    BY Zenon, <1>2, DropStep DEF BroadcastFailed
  <1> QED
    BY Zenon, <1>1, <1>2 DEF BroadcastFailed

\* A broadcast has succeeded.
LEMMA BroadcastDoneStep ==
    ASSUME IInv, BroadcastDone
    PROVE  IInv'
  <1>1. /\ task = "fanout" /\ task' = "none" /\ UNCHANGED data
        /\ UNCHANGED <<active, idle, phase, target, who, script, next_workflow_id>>
    BY Zenon DEF BroadcastDone, PassOver, data, participant, relay
  <1>2. Types /\ Lists /\ ScriptOK /\ Keys /\ Holding
    BY Zenon DEF IInv, Keys, Holding
  <1>3. next_workflow_id' \in Nat /\ next_workflow_id <= next_workflow_id'
    BY <1>1, <1>2 DEF Types
  <1>4. Types' /\ NoNewKeys
    BY Zenon, <1>1, <1>2, <1>3, QuietData
  <1>5. Keys'
    BY Zenon, <1>1, <1>2, <1>4, QuietKeys DEF data
  <1>6. /\ task # "enroll" /\ task # "aborted"
        /\ task' \notin {"enroll", "refresh"} /\ task' \notin {"broadcast", "fanout"}
        /\ task' # "enroll" /\ task' # "broadcast" /\ task' \in Tasks
        /\ task \in {"none", "fanout", "aborted"}
    BY Zenon, <1>1 DEF Tasks
  <1>7. Group' = Group
    BY Zenon, <1>1, <1>6 DEF Group
  <1>8. Lists'
    BY Zenon, <1>1, <1>2, <1>6 DEF Lists
  <1>9. ScriptOK'
    BY Zenon, <1>1, <1>2, <1>6 DEF ScriptOK
  <1>10. Holding'
    BY Zenon, <1>1, <1>2, <1>4, <1>6, <1>7, QuietHolding DEF data
  <1> QED
    BY Zenon, <1>4, <1>5, <1>8, <1>9, <1>10 DEF IInv, Keys, Holding

\* A recipient reads, or fails to read.
LEMMA DecryptStep ==
    ASSUME IInv, NEW r \in Participants, Decrypt(r)
    PROVE  IInv'
  <1>1. /\ UNCHANGED <<active, idle, phase, target, task, who, script, next_workflow_id>>
        /\ UNCHANGED <<sender_key_id, chain, keys, sessions, opened, next_message_id, late, sent>>
        /\ inboxes' = inboxes \/ \E e : inboxes' = ack_message(inboxes, r, e)
    BY Zenon DEF Decrypt, participant
  <1>2. Types /\ Lists
    BY Zenon DEF IInv
  <1>3. inboxes' \in [Participants -> Seq(Envelope)] /\ NoNewKeys
    <2>1. CASE inboxes' = inboxes
      BY Zenon, <1>1, <1>2, <2>1 DEF Types, NoNewKeys, Given
    <2>2. ASSUME NEW e, inboxes' = ack_message(inboxes, r, e)
          PROVE  inboxes' \in [Participants -> Seq(Envelope)] /\ NoNewKeys
      <3>1. inboxes' \in [Participants -> Seq(Envelope)] /\ OnlyOld
        BY Zenon, <1>2, <2>2, AckOld
      <3>2. late' \subseteq late /\ \A p \in Participants : \A k : k \in keys'[p] => Given(p, k)
        BY Zenon, <1>1 DEF Given
      <3> QED
        BY Zenon, <3>1, <3>2, OldGiven
    <2> QED
      BY Zenon, <1>1, <2>1, <2>2
  <1>4. Types'
    BY Zenon, <1>1, <1>2, <1>3 DEF Types
  <1>5. phase' \in {"transition", "removal", "application"} /\ target' \in Nat
    BY Zenon, <1>1, <1>2 DEF Lists
  <1> QED
    BY Zenon, <1>1, <1>3, <1>4, <1>5, SteadyRunner
-----------------------------------------------------------------------------
(* The theorems.                                                           *)

\* At the start nobody is active and there are no keys.
LEMMA InitIInv ==
    ASSUME Init
    PROVE  IInv
  <1>1. Workers \in Seq(Participants) /\ IsInjective(Workers) /\ MaxSends \in Nat
    BY Zenon, WorkersAssumption, BoundsAssumption DEF Participants
  <1>2. active = <<>> /\ idle = Workers /\ phase = "application" /\ target = 0 /\ task = "none"
        /\ script = <<>>
    BY Zenon DEF Init
  <1>3. /\ Range(active) = {} /\ active \in Seq(Participants) /\ IsInjective(active)
    BY <1>2 DEF Range, IsInjective
  <1>4. Lists
    <2>1. /\ task # "enroll" /\ task \notin {"broadcast", "fanout"} /\ task \in Tasks
          /\ phase \in {"transition", "removal", "application"} /\ target \in Nat
      BY Zenon, <1>2 DEF Tasks
    <2> QED
      BY Zenon, <1>1, <1>2, <1>3, <2>1 DEF Lists
  <1>5. ScriptOK
    BY Zenon, <1>2 DEF ScriptOK
  <1>6. /\ next_workflow_id = 0 /\ next_message_id = 1 /\ sent = {} /\ late = {}
        /\ sender_key_id = [p \in Participants |-> 0] /\ chain = [p \in Participants |-> -1]
        /\ keys = [p \in Participants |-> {}] /\ sessions = [p \in Participants |-> {}]
        /\ opened = [p \in Participants |-> {}] /\ inboxes = [p \in Participants |-> <<>>]
    BY Zenon DEF Init
  <1>7. IsFiniteSet(sent) /\ Cardinality(sent) = 0
    BY Zenon, <1>6, FS_EmptySet
  <1>8. Types
    BY <1>1, <1>6, <1>7 DEF Types
  <1>9. \A p \in Participants : \A k : ~Given(p, k)
    <2> SUFFICES ASSUME NEW p \in Participants, NEW k PROVE ~Given(p, k)
      OBVIOUS
    <2>1. keys[p] = {} /\ inboxes[p] = <<>>
      BY Zenon, <1>6
    <2>2. 1..Len(inboxes[p]) = {}
      BY <2>1
    <2> QED
      BY Zenon, <1>6, <2>1, <2>2 DEF Given
  <1>10. Keys
    BY Zenon, <1>6, <1>9 DEF Keys, GivenOK, SentOK, OnlyRecipientsGiven
  <1>11. Group = {}
    <2>1. task # "enroll"
      BY Zenon, <1>2
    <2> QED
      BY Zenon, <1>3, <2>1 DEF Group
  <1>12. GivenInGroup /\ Chained
    BY Zenon, <1>11 DEF GivenInGroup, Chained
  <1> QED
    BY Zenon, <1>4, <1>5, <1>8, <1>10, <1>12 DEF IInv, Keys

\* Every step keeps the invariant.
LEMMA NextIInv ==
    ASSUME IInv, [Next]_vars
    PROVE  IInv'
  <1>1. Lists
    BY Zenon DEF IInv
  <1>2. ASSUME UNCHANGED <<runner, participant, relay, history>> PROVE IInv'
    <2>1. /\ UNCHANGED data
          /\ UNCHANGED <<active, idle, phase, target, task, who, script, next_workflow_id>>
      BY Zenon, <1>2 DEF data, runner, participant, relay, history
    <2>2. phase' \in {"transition", "removal", "application"} /\ target' \in Nat
      BY Zenon, <1>1, <2>1 DEF Lists
    <2> QED
      BY Zenon, <2>1, <2>2, QuietRunner
  <1>3. CASE NextPlateau
    <2>1. /\ UNCHANGED data /\ UNCHANGED <<active, idle, task, who, script, next_workflow_id>>
          /\ phase' = "transition" /\ target' \in 1..Len(Workers)
      BY Zenon, <1>3 DEF NextPlateau, data, participant, relay, history
    <2>2. phase' \in {"transition", "removal", "application"} /\ target' \in Nat
      BY <2>1
    <2> QED
      BY Zenon, <2>1, <2>2, QuietRunner
  <1>4. CASE ReachPlateau
    <2>1. /\ UNCHANGED data /\ UNCHANGED <<active, idle, task, who, script, next_workflow_id>>
          /\ phase' = "application" /\ UNCHANGED target
      BY Zenon, <1>4 DEF ReachPlateau, data, participant, relay, history
    <2>2. phase' \in {"transition", "removal", "application"} /\ target' \in Nat
      BY Zenon, <1>1, <2>1 DEF Lists
    <2> QED
      BY Zenon, <2>1, <2>2, QuietRunner
  <1>5. CASE RetryPass \/ \E r \in Participants : DecryptUnreachable(r) \/ DecryptStarved(r)
    <2>1. /\ UNCHANGED data
          /\ UNCHANGED <<active, idle, phase, target, task, who, script, next_workflow_id>>
      BY Zenon, <1>5 DEF RetryPass, DecryptUnreachable, DecryptStarved, data, participant, relay, history
    <2>2. phase' \in {"transition", "removal", "application"} /\ target' \in Nat
      BY Zenon, <1>1, <2>1 DEF Lists
    <2> QED
      BY Zenon, <2>1, <2>2, QuietRunner
  <1>6. CASE StartEnroll
    BY Zenon, <1>6, StartEnrollStep
  <1>7. CASE Deactivate
    BY Zenon, <1>7, DeactivateStep
  <1>8. CASE StartBroadcast
    BY Zenon, <1>8, StartBroadcastStep
  <1>9. CASE CommandStep
    BY Zenon, <1>9, EstablishStep, ResetStep, CreateStep, PostStep, ReceiveStep, EncryptStep,
       ReturnStep DEF CommandStep
  <1>10. CASE FanoutStep
    <2>1. CASE \E r \in Participants : Decrypt(r)
      BY Zenon, <2>1, DecryptStep
    <2>2. CASE BroadcastDone
      BY Zenon, <2>2, BroadcastDoneStep
    <2>3. CASE BroadcastFailed
      BY Zenon, <2>3, BroadcastFailedStep
    <2> QED
      BY Zenon, <1>5, <1>10, <2>1, <2>2, <2>3 DEF FanoutStep
  <1>11. CASE PostUnanswered
    BY Zenon, <1>11, PostUnansweredStep
  <1>12. CASE LatePush
    BY Zenon, <1>12, LatePushStep
  <1>13. CASE Kill
    BY Zenon, <1>2, <1>13 DEF Kill
  <1>14. CASE EndpointFailure
    BY Zenon, <1>14, DropStep DEF EndpointFailure
  <1>15. CASE UNCHANGED vars
    BY Zenon, <1>2, <1>15 DEF vars
  <1> QED
    BY Zenon, <1>3, <1>4, <1>5, <1>6, <1>7, <1>8, <1>9, <1>10, <1>11, <1>12, <1>13, <1>14, <1>15
       DEF Next

\* The inductive invariant holds in all reachable states.
LEMMA IInvHolds == Spec => []IInv
  <1>1. Init => IInv
    BY Zenon, InitIInv
  <1>2. IInv /\ [Next]_vars => IInv'
    BY Zenon, NextIInv
  <1> QED
    BY <1>1, <1>2, PTL DEF Spec

\* Whatever is late, lost or killed, only the recipients of a message can open it
\* (enroll_sender_key_participant, refresh_sender_keys, sender_key_encrypt):
\* neither participants that were removed before, nor those that joined later,
\* nor the joiner of an interrupted enrolment ever hold a key that does.
THEOREM OnlyRecipientsCanOpenHolds == Spec => []OnlyRecipientsCanOpen
  <1>1. IInv => OnlyRecipientsCanOpen
    BY Zenon DEF IInv, OnlyRecipientsGiven, OnlyRecipientsCanOpen, CanOpen, Given
  <1> QED
    BY <1>1, IInvHolds, PTL

\* The lists of the runner stay disjoint and free of repetitions, and keys and
\* messages name participants and generations that were drawn.
THEOREM TypeCorrect == Spec => []TypeOK
  <1>1. ASSUME IInv PROVE TypeOK
    <2>1. Types /\ Lists
      BY Zenon, <1>1 DEF IInv
    <2>2. active \o idle \in Seq(Participants) /\ IsInjective(active \o idle)
      <3>1. /\ active \in Seq(Participants) /\ IsInjective(active)
            /\ idle \in Seq(Participants) /\ IsInjective(idle)
            /\ Range(active) \cap Range(idle) = {}
        BY Zenon, <2>1 DEF Lists
      <3> QED
        BY Zenon, <3>1, ConcatLists
    <2>3. task \in Tasks /\ phase \in {"transition", "removal", "application"}
      BY Zenon, <2>1 DEF Lists
    <2>4. \A p \in Participants : sender_key_id[p] \in 0 .. next_workflow_id
      BY <2>1 DEF Types
    <2>5. sender_key_id \in [Participants -> 0 .. next_workflow_id]
      BY Zenon, <2>1, <2>4 DEF Types
    <2>6. \A p \in Participants : chain[p] \in -1 .. MaxSends
      <3> SUFFICES ASSUME NEW p \in Participants PROVE chain[p] \in -1 .. MaxSends
        OBVIOUS
      <3>1. /\ chain[p] \in Int /\ -1 <= chain[p] /\ chain[p] <= Cardinality(sent)
            /\ Cardinality(sent) <= MaxSends /\ IsFiniteSet(sent) /\ MaxSends \in Nat
        BY Zenon, <2>1, BoundsAssumption DEF Types
      <3>2. Cardinality(sent) \in Nat
        BY Zenon, <3>1, FS_CardinalityType
      <3> QED
        BY <3>1, <3>2
    <2>7. chain \in [Participants -> -1 .. MaxSends]
      BY Zenon, <2>1, <2>6 DEF Types
    <2>8. ASSUME NEW p \in Participants
          PROVE  /\ keys[p] \subseteq Key /\ opened[p] \subseteq Message
                 /\ sessions[p] \subseteq Participants
                 /\ \A i \in DOMAIN inboxes[p] : inboxes[p][i] \in Envelope
      <3>1. /\ keys[p] \in SUBSET Key /\ opened[p] \in SUBSET Message
            /\ sessions[p] \in SUBSET Participants /\ inboxes[p] \in Seq(Envelope)
        BY Zenon, <2>1 DEF Types
      <3>2. \A i \in DOMAIN inboxes[p] : inboxes[p][i] \in Envelope
        BY <3>1
      <3> QED
        BY Zenon, <3>1, <3>2
    <2> QED
      BY Zenon, <2>2, <2>3, <2>5, <2>7, <2>8 DEF TypeOK
  <1> QED
    BY <1>1, IInvHolds, PTL
=============================================================================
