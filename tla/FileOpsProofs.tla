--------------------------- MODULE FileOpsProofs ---------------------------
(***************************************************************************)
(* What the file operations guarantee for all paths, trees, failures of    *)
(* system calls and interference by other processes: the directories and   *)
(* files stay a tree, paths lead where they are meant to, climbing visits  *)
(* every parent, and creating does what it says.                           *)
(***************************************************************************)
EXTENDS FileOps, SequenceTheorems, WellFoundedInduction, TLAPS

-----------------------------------------------------------------------------
(* Induction over the natural numbers and recursion up to a bound, as      *)
(* facts about sets and functions: the library's theorems take an operator *)
(* as their parameter.                                                     *)

Smaller == {pair \in Nat \X Nat : pair[1] < pair[2]}

LEMMA SmallerIsWellFounded == IsWellFoundedOn(Smaller, Nat)
  BY NatLessThanWellFounded, Zenon DEF OpToRel, Smaller

\* A nonempty set of natural numbers has a least element.
LEMMA LeastNumber ==
    ASSUME NEW T, T \subseteq Nat, T # {}
    PROVE  \E x \in T : \A y \in T : x <= y
<1>1. \E x \in T : \A y \in T : ~ (<<y, x>> \in Smaller)
  BY SmallerIsWellFounded, WFMin, Zenon
<1>2. \A x, y \in Nat : ~(<<y, x>> \in Smaller) => x <= y
  BY DEF Smaller
<1>3. QED
  BY <1>1, <1>2

\* What holds of 0 and passes from n to n + 1 below a bound holds up to it.
LEMMA BoundedInduction ==
    ASSUME NEW N \in Nat, NEW S, 0 \in S,
           \A n \in 0..(N - 1) : n \in S => n + 1 \in S
    PROVE  0..N \subseteq S
<1> DEFINE T == (0..N) \ S
<1>1. SUFFICES ASSUME T # {} PROVE FALSE
  OBVIOUS
<1>2. T \subseteq Nat
  OBVIOUS
<1>3. PICK x \in T : \A y \in T : x <= y
  <2> HIDE DEF T
  <2>1. QED
    BY <1>1, <1>2, LeastNumber
<1>4. x \in 1..N
  BY <1>3
<1>5. x - 1 \in 0..(N - 1) /\ x - 1 \notin T
  BY <1>3, <1>4
<1>6. x - 1 \in S
  BY <1>5
<1>7. (x - 1) + 1 \in S
  BY <1>5, <1>6
<1>8. QED
  BY <1>3, <1>4, <1>7

\* The functions that take a base at 0 and a step from each number to the next.
Steps(N, V, base, step) ==
    {f \in [0..N -> V] : f[0] = base /\ \A k \in 1..N : f[k] = step[<<k, f[k - 1]>>]}

LEMMA StepsExist ==
    ASSUME NEW N \in Nat, NEW V, NEW base \in V, NEW step \in [(1..N) \X V -> V]
    PROVE  Steps(N, V, base, step) # {}
<1> DEFINE S == {n \in 0..N : Steps(n, V, base, step) # {}}
<1>1. 0 \in S
  <2>1. [i \in 0..0 |-> base] \in Steps(0, V, base, step)
    BY DEF Steps
  <2>2. QED
    BY <2>1
<1>2. ASSUME NEW n \in 0..(N - 1), n \in S PROVE n + 1 \in S
  <2>1. PICK f \in Steps(n, V, base, step) : TRUE
    BY <1>2
  <2> DEFINE m == n + 1
             g == [i \in 0..m |-> IF i = m THEN step[<<m, f[n]>>] ELSE f[i]]
  <2>2. /\ f \in [0..n -> V] /\ f[0] = base
        /\ \A k \in 1..n : f[k] = step[<<k, f[k - 1]>>]
    BY <2>1 DEF Steps
  <2>3. /\ n \in Nat /\ m \in 1..N /\ n # m /\ 0 # m /\ m - 1 = n /\ 0 \in 0..m
        /\ \A k \in 0..m : k # m => k \in 0..n
        /\ \A k \in 1..m : /\ k # m => k \in 1..n
                           /\ k - 1 # m /\ k \in 0..m /\ k - 1 \in 0..m
    OBVIOUS
  <2> HIDE DEF m
  <2>4. f[n] \in V /\ <<m, f[n]>> \in (1..N) \X V
    BY <2>2, <2>3
  <2>5. step[<<m, f[n]>>] \in V
    BY <2>4
  <2>6. g \in [0..m -> V]
    BY <2>2, <2>3, <2>5
  <2>7. g[0] = base /\ \A k \in 1..m : g[k] = step[<<k, g[k - 1]>>]
    BY <2>2, <2>3
  <2>8. g \in Steps(m, V, base, step)
    BY <2>6, <2>7 DEF Steps
  <2>9. m \in 0..N
    BY <2>3
  <2>10. QED
    BY <2>8, <2>9 DEF m
<1>3. 0..N \subseteq S
  <2> HIDE DEF S
  <2>1. QED
    BY <1>1, <1>2, BoundedInduction
<1>4. QED
  BY <1>3

-----------------------------------------------------------------------------
(* The names along a path.                                                 *)

LEMMA LongerType ==
    ASSUME NEW C, NEW path \in Seq(C), NEW k \in 1..Len(path), NEW names \in Seq(Seq(C))
    PROVE  Longer(path, k, names) \in Seq(Seq(C))
<1>1. k - 1 + 1 = k /\ Char(path, k - 1) \in C
  BY DEF Char
<1>2. <<Char(path, k - 1)>> \in Seq(C)
  BY <1>1
<1>3. Append(names, <<Char(path, k - 1)>>) \in Seq(Seq(C))
  BY <1>2
<1>4. [names EXCEPT ![Len(names)] = Append(@, Char(path, k - 1))] \in Seq(Seq(C))
  <2>1. CASE names = <<>>
    <3>1. DOMAIN names = {}
      BY <2>1
    <3>2. [names EXCEPT ![Len(names)] = Append(@, Char(path, k - 1))] = names
      BY <3>1, <2>1
    <3>3. QED
      BY <3>2
  <2>2. CASE names # <<>>
    <3>1. Len(names) \in 1..Len(names)
      BY <2>2, EmptySeq
    <3>2. names[Len(names)] \in Seq(C)
      BY <3>1, ElementOfSeq
    <3>3. Append(names[Len(names)], Char(path, k - 1)) \in Seq(C)
      BY <3>2, <1>1
    <3>4. QED
      BY <3>1, <3>3, ExceptSeq
  <2>3. QED
    BY <2>1, <2>2
<1>5. QED
  BY <1>3, <1>4 DEF Longer

\* Along is defined by recursion, so that it is what its definition says is
\* itself proved.
LEMMA AlongGrows ==
    ASSUME NEW C, NEW path \in Seq(C)
    PROVE  /\ Along(path) \in [0..Len(path) -> Seq(Seq(C))]
           /\ Along(path)[0] = <<>>
           /\ \A k \in 1..Len(path) : Along(path)[k] = Longer(path, k, Along(path)[k - 1])
<1> DEFINE N == Len(path)
           V == Seq(Seq(C))
           Good(u) == u = [k \in 0..N |-> IF k = 0 THEN <<>> ELSE Longer(path, k, u[k - 1])]
           step == [pair \in (1..N) \X V |-> Longer(path, pair[1], pair[2])]
           along == Along(path)
<1>1. N \in Nat /\ <<>> \in V
  BY LenProperties
<1>2. step \in [(1..N) \X V -> V]
  BY LongerType
<1>3. PICK f \in Steps(N, V, <<>>, step) : TRUE
  <2> HIDE DEF step, V
  <2>1. QED
    BY <1>1, <1>2, StepsExist
<1>4. /\ f \in [0..N -> V] /\ f[0] = <<>>
      /\ \A k \in 1..N : f[k] = step[<<k, f[k - 1]>>]
  BY <1>3 DEF Steps
<1>5. ASSUME NEW k \in 1..N PROVE f[k] = Longer(path, k, f[k - 1])
  <2>1. k - 1 \in 0..N
    BY <1>1
  <2>2. <<k, f[k - 1]>> \in (1..N) \X V
    BY <1>4, <2>1
  <2>3. QED
    BY <1>4, <2>2
<1> HIDE DEF step
<1>6. Good(f)
  <2>1. \A k \in 0..N : k # 0 => k \in 1..N
    BY <1>1
  <2>2. QED
    BY <1>4, <1>5, <2>1
<1>7. along = CHOOSE u : Good(u)
  BY DEF Along
<1>8. Good(along)
  <2> HIDE DEF along
  <2>1. QED
    BY <1>6, <1>7
<1> HIDE DEF along
<1> DEFINE S == {k \in 0..N : along[k] = f[k]}
<1>9. 0 \in S
  BY <1>1, <1>4, <1>8
<1>10. ASSUME NEW n \in 0..(N - 1), n \in S PROVE n + 1 \in S
  <2>1. n + 1 \in 1..N /\ n + 1 \in 0..N /\ n + 1 # 0 /\ (n + 1) - 1 = n /\ along[n] = f[n]
    BY <1>1, <1>10
  <2>2. f[n + 1] = Longer(path, n + 1, f[n])
    BY <1>5, <2>1
  <2>3. along[n + 1] = Longer(path, n + 1, along[n])
    BY <1>8, <2>1
  <2>4. QED
    BY <2>1, <2>2, <2>3
<1>11. 0..N \subseteq S
  <2> HIDE DEF S
  <2>1. QED
    BY <1>1, <1>9, <1>10, BoundedInduction
<1>12. along = f
  BY <1>4, <1>8, <1>11
<1>13. QED
  BY <1>4, <1>5, <1>12 DEF along

LEMMA NamesType ==
    ASSUME NEW C, NEW path \in Seq(C)
    PROVE  Names(path) \in Seq(Seq(C)) /\ Names(<<>>) = <<>>
<1>1. Len(path) \in 0..Len(path) /\ Along(path) \in [0..Len(path) -> Seq(Seq(C))]
  BY AlongGrows, LenProperties
<1>2. <<>> \in Seq(C) /\ Len(<<>>) = 0
  BY EmptySeq
<1>3. Along(<<>>)[0] = <<>>
  BY <1>2, AlongGrows
<1>4. QED
  BY <1>1, <1>2, <1>3 DEF Names

\* After a character of a name there is a name.
LEMMA NameBegun ==
    ASSUME NEW C, NEW path \in Seq(C), NEW k \in 1..Len(path), ~IsSep(path, k - 1)
    PROVE  Along(path)[k] # <<>>
<1> DEFINE N == Len(path)
           S == {n \in 0..N : n > 0 /\ ~IsSep(path, n - 1) => Along(path)[n] # <<>>}
<1>1. N \in Nat /\ 0 \in S
  BY LenProperties
<1>2. ASSUME NEW n \in 0..(N - 1), n \in S PROVE n + 1 \in S
  <2>1. /\ n + 1 \in 1..N /\ n + 1 \in 0..N /\ (n + 1) - 1 = n /\ (n + 1) - 2 = n - 1
        /\ n \in 0..N /\ (n # 0 => n > 0 /\ n + 1 # 1)
    BY <1>1
  <2>2. /\ Along(path)[n] \in Seq(Seq(C))
        /\ Along(path)[n + 1] = Longer(path, n + 1, Along(path)[n])
    BY <2>1, AlongGrows
  <2> DEFINE names == Along(path)[n]
  <2> HIDE DEF names
  <2>3. SUFFICES ASSUME ~IsSep(path, n) PROVE Longer(path, n + 1, names) # <<>>
    BY <2>1, <2>2 DEF names
  <2>4. n < N /\ Char(path, n) \in C
    BY <2>1 DEF Char
  <2>5. names \in Seq(Seq(C)) /\ <<Char(path, n)>> \in Seq(C)
    BY <2>2, <2>4 DEF names
  <2>6. CASE n = 0 \/ IsSep(path, n - 1)
    <3>1. Longer(path, n + 1, names) = Append(names, <<Char(path, n)>>)
      BY <2>1, <2>3, <2>6 DEF Longer
    <3>2. QED
      BY <2>5, <3>1, AppendProperties
  <2>7. CASE n # 0 /\ ~IsSep(path, n - 1)
    <3>1. names # <<>>
      BY <1>2, <2>1, <2>7 DEF names
    <3>2. Longer(path, n + 1, names) = [names EXCEPT ![Len(names)] = Append(@, Char(path, n))]
      BY <2>1, <2>3, <2>7 DEF Longer
    <3>3. Len(names) \in DOMAIN names
      BY <2>5, <3>1, EmptySeq
    <3>4. Len(names) \in DOMAIN Longer(path, n + 1, names)
      BY <3>2, <3>3
    <3>5. QED
      BY <3>4
  <2>8. QED
    BY <2>6, <2>7
<1>3. 0..N \subseteq S
  <2> HIDE DEF S
  <2>1. QED
    BY <1>1, <1>2, BoundedInduction
<1>4. k \in S
  BY <1>3
<1>5. QED
  BY <1>4

\* The beginning of a path is read as it is alone.
LEMMA AlongBeginning ==
    ASSUME NEW C, NEW p \in Seq(C), NEW q \in Seq(C), NEW k \in 0..Len(p)
    PROVE  Along(p \o q)[k] = Along(p)[k]
<1> DEFINE N == Len(p)
           S == {n \in 0..N : Along(p \o q)[n] = Along(p)[n]}
<1>1. /\ N \in Nat /\ Len(q) \in Nat /\ p \o q \in Seq(C)
      /\ Len(p \o q) = N + Len(q) /\ \A i \in 1..N : (p \o q)[i] = p[i]
  BY LenProperties, ConcatProperties
<1>2. 0 \in S
  <2>1. Along(p \o q)[0] = <<>> /\ Along(p)[0] = <<>>
    BY <1>1, AlongGrows
  <2>2. QED
    BY <1>1, <2>1
<1>3. ASSUME NEW n \in 0..(N - 1), n \in S PROVE n + 1 \in S
  <2>1. n + 1 \in 1..N /\ n + 1 \in 0..N /\ (n + 1) - 1 = n /\ n + 1 \in 1..Len(p \o q)
    BY <1>1
  <2>2. /\ Along(p)[n + 1] = Longer(p, n + 1, Along(p)[n])
        /\ Along(p \o q)[n + 1] = Longer(p \o q, n + 1, Along(p \o q)[n])
    BY <1>1, <2>1, AlongGrows
  <2>3. \A i \in 0..(N - 1) : Char(p \o q, i) = Char(p, i) /\ IsSep(p \o q, i) = IsSep(p, i)
    BY <1>1 DEF Char, IsSep
  <2>4. n \in 0..(N - 1) /\ (n + 1) - 2 = n - 1 /\ (n + 1 # 1 => n - 1 \in 0..(N - 1))
    BY <1>1
  <2>5. Longer(p \o q, n + 1, Along(p)[n]) = Longer(p, n + 1, Along(p)[n])
    BY <2>1, <2>3, <2>4 DEF Longer
  <2>6. QED
    BY <1>3, <2>1, <2>2, <2>5
<1>4. 0..N \subseteq S
  <2> HIDE DEF S
  <2>1. QED
    BY <1>1, <1>2, <1>3, BoundedInduction
<1>5. k \in S
  BY <1>4
<1>6. QED
  BY <1>5

\* What two paths are joined at is the end of a name.
Meets(p, q) == p = <<>> \/ Last(p) = Sep \/ q = <<>> \/ q[1] = Sep

\* One character more adds to what comes after other names what it would add
\* alone.
LEMMA LongerAfter ==
    ASSUME NEW C, NEW p \in Seq(C), NEW q \in Seq(C), Meets(p, q), NEW j \in 1..Len(q),
           NEW first \in Seq(Seq(C)), NEW names \in Seq(Seq(C)),
           j > 1 /\ ~IsSep(q, j - 2) => names # <<>>
    PROVE  Longer(p \o q, Len(p) + j, first \o names) = first \o Longer(q, j, names)
<1> DEFINE N == Len(p)
           c == Char(q, j - 1)
<1>1. /\ N \in Nat /\ Len(q) \in Nat /\ j \in Nat /\ p \o q \in Seq(C)
      /\ Len(p \o q) = N + Len(q) /\ (p = <<>> <=> N = 0)
      /\ \A i \in 1..(N + Len(q)) : (p \o q)[i] = IF i <= N THEN p[i] ELSE q[i - N]
  BY LenProperties, ConcatProperties, EmptySeq
<1>2. /\ N + j - 1 < Len(p \o q) /\ j - 1 < Len(q) /\ (p \o q)[N + j - 1 + 1] = q[j - 1 + 1]
      /\ c \in C
  BY <1>1 DEF Char
<1>3. Char(p \o q, N + j - 1) = c /\ IsSep(p \o q, N + j - 1) = IsSep(q, j - 1)
  BY <1>2 DEF Char, IsSep
<1>4. <<c>> \in Seq(C) /\ first \o names \in Seq(Seq(C))
  BY <1>2, ConcatProperties
<1>5. CASE IsSep(q, j - 1)
  BY <1>3, <1>5 DEF Longer
<1>6. CASE ~IsSep(q, j - 1) /\ (j = 1 \/ IsSep(q, j - 2))
  <2>1. N + j = 1 \/ IsSep(p \o q, N + j - 2)
    <3>1. CASE j = 1
      <4>1. q # <<>> /\ q[1] # Sep
        BY <1>1, <1>6, <3>1 DEF IsSep, Char
      <4>2. CASE p = <<>>
        BY <1>1, <3>1, <4>2
      <4>3. CASE p # <<>>
        <5>1. p[N] = Sep
          BY <4>1, <4>3 DEF Meets, Last
        <5>2. N > 0 /\ N + j - 2 < Len(p \o q) /\ N + j - 2 + 1 = N
          BY <1>1, <3>1, <4>3
        <5>3. (p \o q)[N] = Sep
          BY <1>1, <5>1, <5>2
        <5>4. (p \o q)[N + j - 2 + 1] = Sep
          BY <5>2, <5>3
        <5>5. QED
          BY <5>2, <5>4 DEF IsSep, Char
      <4>4. QED
        BY <4>2, <4>3
    <3>2. CASE j # 1 /\ IsSep(q, j - 2)
      <4>1. N + j - 2 < Len(p \o q) /\ (p \o q)[N + j - 2 + 1] = q[j - 2 + 1]
        BY <1>1, <3>2
      <4>2. q[j - 2 + 1] = Sep
        BY <3>2 DEF IsSep, Char
      <4>3. QED
        BY <4>1, <4>2 DEF IsSep, Char
    <3>3. QED
      BY <1>6, <3>1, <3>2
  <2>2. Longer(p \o q, N + j, first \o names) = Append(first \o names, <<c>>)
    BY <1>3, <1>6, <2>1 DEF Longer
  <2>3. Longer(q, j, names) = Append(names, <<c>>)
    BY <1>6 DEF Longer
  <2>4. Append(first \o names, <<c>>) = first \o Append(names, <<c>>)
    <3> DEFINE new == <<c>>
    <3>0. new \in Seq(C)
      BY <1>4
    <3> HIDE DEF new, c
    <3> DEFINE r == Append(names, new)
               l == Append(first \o names, new)
               b == first \o names
    <3>1. /\ r \in Seq(Seq(C)) /\ Len(r) = Len(names) + 1
          /\ \A i \in 1..Len(names) : r[i] = names[i]
          /\ r[Len(names) + 1] = new
      BY <3>0, AppendProperties
    <3>2. b \in Seq(Seq(C)) /\ Len(b) = Len(first) + Len(names) /\ Len(first) \in Nat /\ Len(names) \in Nat
          /\ \A i \in 1..(Len(first) + Len(names)) : b[i] = IF i <= Len(first) THEN first[i] ELSE names[i - Len(first)]
      BY ConcatProperties, LenProperties
    <3> HIDE DEF b, r
    <3>3. /\ l \in Seq(Seq(C)) /\ Len(l) = Len(b) + 1
          /\ \A i \in 1..Len(b) : l[i] = b[i]
          /\ l[Len(b) + 1] = new
      BY <3>0, <3>2, AppendProperties DEF b
    <3>4. first \o r \in Seq(Seq(C)) /\ Len(first \o r) = Len(first) + Len(r)
          /\ \A i \in 1..(Len(first) + Len(r)) : (first \o r)[i] = IF i <= Len(first) THEN first[i] ELSE r[i - Len(first)]
      BY <3>1, ConcatProperties
    <3> DEFINE sr == first \o r
    <3> HIDE DEF l, sr
    <3>5. ASSUME NEW i \in 1..Len(l) PROVE l[i] = sr[i]
      <4>1. sr[i] = IF i <= Len(first) THEN first[i] ELSE r[i - Len(first)]
        BY <3>1, <3>2, <3>3, <3>4 DEF sr
      <4>0. i \in 1..Len(b) => l[i] = b[i] /\ b[i] = IF i <= Len(first) THEN first[i] ELSE names[i - Len(first)]
        BY <3>2, <3>3
      <4>2. i <= Len(first) => i \in 1..Len(b)
        BY <3>2, <3>3
      <4>9. i \in Int /\ 1 <= i /\ i <= Len(b) + 1
        BY <3>2, <3>3
      <4>3. ~(i <= Len(first)) /\ i # Len(b) + 1 => i \in 1..Len(b) /\ i - Len(first) \in 1..Len(names)
        <5>1. \A f, n \in Nat : ~(i <= f) /\ i # f + n + 1 /\ i <= f + n + 1 =>
                                   i \in 1..(f + n) /\ i - f \in 1..n
          BY <4>9
        <5>2. QED
          BY <3>2, <4>9, <5>1
      <4>4. i = Len(b) + 1 => i - Len(first) = Len(names) + 1
        BY <3>2
      <4>5. QED
        BY <3>1, <3>2, <3>3, <4>0, <4>1, <4>2, <4>3, <4>4
    <3>6. sr \in Seq(Seq(C)) /\ Len(sr) = Len(l)
      BY <3>1, <3>2, <3>3, <3>4 DEF sr
    <3>7. l = sr
      BY <3>3, <3>5, <3>6, SeqEqual
    <3>8. QED
      BY <3>7 DEF l, sr, r, b, new
  <2>5. QED
    BY <2>2, <2>3, <2>4
<1>7. CASE ~IsSep(q, j - 1) /\ j # 1 /\ ~IsSep(q, j - 2)
  <2>1. ~(N + j = 1 \/ IsSep(p \o q, N + j - 2))
    <3>1. N + j # 1 /\ j - 2 < Len(q) /\ (p \o q)[N + j - 2 + 1] = q[j - 2 + 1]
      BY <1>1, <1>7
    <3>2. QED
      BY <1>7, <3>1 DEF IsSep, Char
  <2> DEFINE both == first \o names
             m == Len(names)
  <2>2. Longer(p \o q, N + j, both) = [both EXCEPT ![Len(both)] = Append(@, c)]
    <3>1. ~IsSep(p \o q, N + j - 1) /\ Char(p \o q, N + j - 1) = c
      BY <1>3, <1>7
    <3> DEFINE k == N + j
    <3>2. ~IsSep(p \o q, k - 1) /\ Char(p \o q, k - 1) = c /\ k # 1 /\ ~IsSep(p \o q, k - 2)
      BY <2>1, <3>1
    <3> HIDE DEF both, c, N, k
    <3>3. Longer(p \o q, k, both) = [both EXCEPT ![Len(both)] = Append(@, c)]
      BY <3>2 DEF Longer
    <3>4. QED
      BY <3>3 DEF k
  <2>3. Longer(q, j, names) = [names EXCEPT ![m] = Append(@, c)]
    BY <1>7 DEF Longer
  <2>4. /\ m \in Nat \ {0} /\ Len(first) \in Nat /\ Len(both) = Len(first) + m
        /\ both[Len(both)] = names[m] /\ names[m] \in Seq(C)
    BY <1>7, EmptySeq, LenProperties, ConcatProperties, ElementOfSeq
  <2>5. Append(names[m], c) \in Seq(C)
    BY <1>2, <2>4
  <2> HIDE DEF c
  <2>6. /\ [both EXCEPT ![Len(both)] = Append(@, c)] \in Seq(Seq(C))
        /\ Len([both EXCEPT ![Len(both)] = Append(@, c)]) = Len(both)
        /\ \A i \in 1..Len(both) : [both EXCEPT ![Len(both)] = Append(@, c)][i] =
              IF i = Len(both) THEN Append(names[m], c) ELSE both[i]
    <3>1. /\ Len(both) \in 1..Len(both) /\ both \in Seq(Seq(C))
          /\ Append(both[Len(both)], c) = Append(names[m], c)
      BY <1>4, <2>4
    <3> HIDE DEF both, m
    <3>2. QED
      BY <2>5, <3>1, ExceptSeq
  <2>7. /\ [names EXCEPT ![m] = Append(@, c)] \in Seq(Seq(C))
        /\ Len([names EXCEPT ![m] = Append(@, c)]) = m
        /\ \A i \in 1..m : [names EXCEPT ![m] = Append(@, c)][i] =
              IF i = m THEN Append(names[m], c) ELSE names[i]
    <3>1. m \in 1..m
      BY <2>4
    <3>2. QED
      BY <2>5, <3>1, ExceptSeq
  <2> DEFINE longer == [names EXCEPT ![m] = Append(@, c)]
             longest == [both EXCEPT ![Len(both)] = Append(@, c)]
  <2>8. /\ first \o longer \in Seq(Seq(C)) /\ Len(first \o longer) = Len(first) + m
        /\ \A i \in 1..(Len(first) + m) :
              (first \o longer)[i] = IF i <= Len(first) THEN first[i] ELSE longer[i - Len(first)]
    <3> HIDE DEF longer, m
    <3>1. longer \in Seq(Seq(C)) /\ Len(longer) = m
      BY <2>7 DEF longer
    <3>2. QED
      BY <3>1, ConcatProperties
  <2>9. \A i \in 1..(Len(first) + m) :
            both[i] = IF i <= Len(first) THEN first[i] ELSE names[i - Len(first)]
    BY ConcatProperties
  <2>10. longest \in Seq(Seq(C)) /\ Len(longest) = Len(first) + m
    BY <2>4, <2>6
  <2>11. ASSUME NEW i \in 1..(Len(first) + m) PROVE longest[i] = (first \o longer)[i]
    <3>1. longest[i] = IF i = Len(first) + m THEN Append(names[m], c) ELSE both[i]
      BY <2>4, <2>6
    <3>2. ~(i <= Len(first)) => /\ i - Len(first) \in 1..m
                                /\ (i - Len(first) = m <=> i = Len(first) + m)
      BY <2>4
    <3>3. ~(i <= Len(first)) => longer[i - Len(first)] =
              IF i = Len(first) + m THEN Append(names[m], c) ELSE names[i - Len(first)]
      BY <2>7, <3>2
    <3>4. i <= Len(first) => i # Len(first) + m
      BY <2>4
    <3> HIDE DEF longer, longest, both, m
    <3>5. QED
      BY <2>8, <2>9, <3>1, <3>3, <3>4
  <2>12. longest = first \o longer
    <3> HIDE DEF longer, longest, both, m
    <3>1. QED
      BY <2>8, <2>10, <2>11, SeqEqual
  <2>13. QED
    BY <2>2, <2>3, <2>12
<1>8. QED
  BY <1>5, <1>6, <1>7

\* Where a path goes on with another the names do.
LEMMA AlongJoin ==
    ASSUME NEW C, NEW p \in Seq(C), NEW q \in Seq(C), Meets(p, q), NEW k \in 0..Len(q)
    PROVE  Along(p \o q)[Len(p) + k] = Names(p) \o Along(q)[k]
<1> DEFINE N == Len(p)
           M == Len(q)
           S == {n \in 0..M : Along(p \o q)[N + n] = Names(p) \o Along(q)[n]}
<1>1. /\ N \in Nat /\ M \in Nat /\ p \o q \in Seq(C) /\ Len(p \o q) = N + M
  BY LenProperties, ConcatProperties
<1>2. Names(p) \in Seq(Seq(C))
  BY NamesType
<1>3. 0 \in S
  <2>1. Along(p \o q)[N] = Names(p)
    BY <1>1, AlongBeginning DEF Names
  <2>2. Along(q)[0] = <<>> /\ Names(p) \o <<>> = Names(p)
    BY <1>2, AlongGrows, ConcatEmptySeq
  <2>3. N + 0 = N /\ 0 \in 0..M
    BY <1>1
  <2>4. Along(p \o q)[N + 0] = Names(p) \o Along(q)[0]
    BY <2>1, <2>2, <2>3
  <2>5. QED
    BY <2>3, <2>4
<1>4. ASSUME NEW n \in 0..(M - 1), n \in S PROVE n + 1 \in S
  <2>1. /\ n + 1 \in 1..M /\ n + 1 \in 0..M /\ (n + 1) - 1 = n /\ n \in 0..M
        /\ N + (n + 1) \in 1..Len(p \o q) /\ (N + (n + 1)) - 1 = N + n
    BY <1>1
  <2>2. /\ Along(q)[n + 1] = Longer(q, n + 1, Along(q)[n])
        /\ Along(p \o q)[N + (n + 1)] = Longer(p \o q, N + (n + 1), Along(p \o q)[N + n])
        /\ Along(q)[n] \in Seq(Seq(C))
    BY <1>1, <2>1, AlongGrows
  <2>3. n + 1 > 1 /\ ~IsSep(q, (n + 1) - 2) => Along(q)[n] # <<>>
    <3>1. (n + 1) - 2 = n - 1 /\ (n + 1 > 1 => n \in 1..M)
      BY <1>1
    <3>2. QED
      BY <3>1, NameBegun
  <2> DEFINE names == Along(q)[n]
             first == Names(p)
  <2>4. Longer(p \o q, N + (n + 1), first \o names) = first \o Longer(q, n + 1, names)
    <3>1. names \in Seq(Seq(C)) /\ first \in Seq(Seq(C)) /\ n + 1 \in 1..Len(q)
          /\ (n + 1 > 1 /\ ~IsSep(q, (n + 1) - 2) => names # <<>>)
      BY <1>2, <2>1, <2>2, <2>3
    <3> HIDE DEF names, first, N, M
    <3>2. Longer(p \o q, Len(p) + (n + 1), first \o names) = first \o Longer(q, n + 1, names)
      BY <3>1, LongerAfter
    <3>3. QED
      BY <3>2 DEF N
  <2>5. Along(p \o q)[N + n] = first \o names
    BY <1>4
  <2>6. Along(p \o q)[N + (n + 1)] = first \o Along(q)[n + 1]
    <3> HIDE DEF N, M, first, S
    <3>1. QED
      BY <2>2, <2>4, <2>5
  <2>7. QED
    BY <2>1, <2>6
<1>5. 0..M \subseteq S
  <2> HIDE DEF S
  <2>1. QED
    BY <1>1, <1>3, <1>4, BoundedInduction
<1>6. k \in S
  BY <1>5
<1>7. QED
  BY <1>6

LEMMA NamesJoin ==
    ASSUME NEW C, NEW p \in Seq(C), NEW q \in Seq(C), Meets(p, q)
    PROVE  Names(p \o q) = Names(p) \o Names(q)
<1>1. Len(p \o q) = Len(p) + Len(q) /\ Len(q) \in 0..Len(q)
  BY ConcatProperties, LenProperties
<1>2. Along(p \o q)[Len(p) + Len(q)] = Names(p) \o Along(q)[Len(q)]
  BY <1>1, AlongJoin
<1>3. QED
  BY <1>1, <1>2 DEF Names

\* Two parts of a path, as offsets divide it.
LEMMA Slices ==
    ASSUME NEW C, NEW path \in Seq(C), NEW k \in 0..Len(path)
    PROVE  /\ Slice(path, 0, k) \in Seq(C) /\ Len(Slice(path, 0, k)) = k
           /\ \A i \in 0..(k - 1) : Char(Slice(path, 0, k), i) = Char(path, i)
           /\ Slice(path, k, Len(path)) \in Seq(C)
           /\ Len(Slice(path, k, Len(path))) = Len(path) - k
           /\ \A i \in 0..(Len(path) - k - 1) :
                 Char(Slice(path, k, Len(path)), i) = Char(path, k + i)
           /\ path = Slice(path, 0, k) \o Slice(path, k, Len(path))
<1>1. Len(path) \in Nat /\ k \in Nat /\ k <= Len(path)
  BY LenProperties
<1>2. Slice(path, 0, k) = SubSeq(path, 1, k) /\ Slice(path, k, Len(path)) = SubSeq(path, k + 1, Len(path))
  BY <1>1 DEF Slice
<1>3. /\ SubSeq(path, 1, k) \in Seq(C) /\ Len(SubSeq(path, 1, k)) = k
      /\ \A i \in 1..k : SubSeq(path, 1, k)[i] = path[i]
  <2>1. \A i \in 1..k : path[i] \in C
    BY <1>1, ElementOfSeq
  <2>2. /\ SubSeq(path, 1, k) \in Seq(C) /\ Len(SubSeq(path, 1, k)) = IF 1 <= k THEN k - 1 + 1 ELSE 0
        /\ \A i \in 1..(k - 1 + 1) : SubSeq(path, 1, k)[i] = path[1 + i - 1]
    BY <1>1, <2>1, SubSeqProperties
  <2>3. QED
    BY <1>1, <2>2
<1>4. /\ SubSeq(path, k + 1, Len(path)) \in Seq(C) /\ Len(SubSeq(path, k + 1, Len(path))) = Len(path) - k
      /\ \A i \in 1..(Len(path) - k) : SubSeq(path, k + 1, Len(path))[i] = path[k + i]
  <2>1. \A i \in (k + 1)..Len(path) : path[i] \in C
    BY <1>1, ElementOfSeq
  <2> DEFINE m == k + 1
             n == Len(path)
  <2>2. m \in Int /\ n \in Int /\ \A i \in m..n : path[i] \in C
    BY <1>1, <2>1
  <2> HIDE DEF m, n
  <2>3. /\ SubSeq(path, m, n) \in Seq(C) /\ Len(SubSeq(path, m, n)) = IF m <= n THEN n - m + 1 ELSE 0
        /\ \A i \in 1..(n - m + 1) : SubSeq(path, m, n)[i] = path[m + i - 1]
    BY <2>2, SubSeqProperties
  <2>4. n - m + 1 = Len(path) - k /\ (m <= n <=> k < Len(path))
    BY <1>1 DEF m, n
  <2>5. ASSUME NEW i \in 1..(Len(path) - k) PROVE SubSeq(path, m, n)[i] = path[k + i]
    <3>1. m + i - 1 = k + i
      BY <1>1 DEF m
    <3>2. SubSeq(path, m, n)[i] = path[m + i - 1]
      BY <2>3, <2>4
    <3>3. QED
      BY <3>1, <3>2
  <2>6. Len(SubSeq(path, m, n)) = Len(path) - k
    BY <1>1, <2>3, <2>4
  <2>7. QED
    BY <2>3, <2>5, <2>6 DEF m, n
<1>5. SubSeq(path, 1, k) \o SubSeq(path, k + 1, Len(path)) = path
  <2>1. SubSeq(path, 1, k) \o SubSeq(path, k + 1, Len(path)) = SubSeq(path, 1, Len(path))
    <3>1. 1 \in 1..(Len(path) + 1) /\ k \in (1 - 1)..Len(path) /\ Len(path) \in k..Len(path)
      BY <1>1
    <3>2. QED
      BY <3>1, ConcatAdjacentSubSeq
  <2>2. QED
    BY <2>1, SubSeqFull
<1>6. ASSUME NEW i \in 0..(k - 1) PROVE Char(Slice(path, 0, k), i) = Char(path, i)
  <2>1. i + 1 \in 1..k
    BY <1>1
  <2>2. QED
    BY <1>2, <1>3, <2>1 DEF Char
<1>7. ASSUME NEW i \in 0..(Len(path) - k - 1)
      PROVE  Char(Slice(path, k, Len(path)), i) = Char(path, k + i)
  <2>1. i + 1 \in 1..(Len(path) - k) /\ k + (i + 1) = k + i + 1
    BY <1>1
  <2> HIDE DEF Slice
  <2>2. SubSeq(path, k + 1, Len(path))[i + 1] = path[k + (i + 1)]
    BY <1>4, <2>1
  <2>3. QED
    BY <1>2, <2>1, <2>2 DEF Char
<1>8. QED
  BY <1>2, <1>3, <1>4, <1>5, <1>6, <1>7

-----------------------------------------------------------------------------
(* The characters, the names and the places there may be.                  *)

Chars == {Sep} \cup Range(Ext) \cup UNION {Range(path) : path \in Args \cup Cwds}
Placed == Shared \cup UNION {t.dirs \cup DOMAIN t.files : t \in InitialTrees}
AName == Seq(Chars) \cup UNION {Range(place) : place \in Placed}
Path  == Seq(Chars)
Place == Seq(AName)

LEMMA ArgsArePaths ==
    /\ \A path \in Args \cup Cwds : path \in Path
    /\ <<>> \in Path /\ Ext \in Path /\ <<Sep>> \in Path /\ Sep \in Chars
<1>1. ASSUME NEW path \in Args \cup Cwds PROVE path \in Path
  <2>1. path \in Seq(Range(path)) /\ Range(path) \subseteq Chars
    BY ArgsAssumption, CwdsAssumption DEF Chars
  <2>2. QED
    BY <2>1, SeqMonotonic DEF Path
<1>2. Ext \in Path
  <2>1. Ext \in Seq(Range(Ext)) /\ Range(Ext) \subseteq Chars
    BY ExtAssumption DEF Chars
  <2>2. QED
    BY <2>1, SeqMonotonic DEF Path
<1>3. Sep \in Chars
  BY DEF Chars
<1>4. QED
  BY <1>1, <1>2, <1>3 DEF Path

LEMMA PlacesThere ==
    /\ \A place \in Shared : place \in Place /\ place # <<>>
    /\ \A t \in InitialTrees : t.dirs \cup DOMAIN t.files \subseteq Place
<1>1. ASSUME NEW place \in Placed, place \in Seq(Range(place)) PROVE place \in Place
  <2>1. Range(place) \subseteq AName
    BY DEF AName
  <2>2. QED
    BY <1>1, <2>1, SeqMonotonic DEF Place
<1>2. QED
  BY <1>1, SharedAssumption, TreesAssumption DEF Placed

LEMMA NamesArePlaces ==
    ASSUME NEW path \in Path
    PROVE  Names(path) \in Place /\ Names(path) \in Seq(Path)
<1>1. Names(path) \in Seq(Path)
  BY NamesType DEF Path
<1>2. Path \subseteq AName
  BY DEF Path, AName
<1>3. QED
  BY <1>1, <1>2, SeqMonotonic DEF Place

-----------------------------------------------------------------------------
(* Trees: what is below what.                                              *)

LEMMA FrontOf ==
    ASSUME NEW S, NEW s \in Seq(S), s # <<>>
    PROVE  /\ Len(s) \in Nat \ {0} /\ Front(s) \in Seq(S) /\ Len(Front(s)) = Len(s) - 1
           /\ \A i \in 1..(Len(s) - 1) : Front(s)[i] = s[i]
           /\ Last(s) \in S
<1>1. Len(s) \in Nat \ {0}
  BY EmptySeq
<1> DEFINE n == Len(s) - 1
<1>2. n \in Nat /\ \A i \in 1..n : s[i] \in S
  BY <1>1, ElementOfSeq
<1> HIDE DEF n
<1>3. /\ SubSeq(s, 1, n) \in Seq(S) /\ Len(SubSeq(s, 1, n)) = IF 1 <= n THEN n - 1 + 1 ELSE 0
      /\ \A i \in 1..(n - 1 + 1) : SubSeq(s, 1, n)[i] = s[1 + i - 1]
  BY <1>2, SubSeqProperties
<1>4. SubSeq(s, 1, n) \in Seq(S) /\ Len(SubSeq(s, 1, n)) = n /\ \A i \in 1..n : SubSeq(s, 1, n)[i] = s[i]
  BY <1>2, <1>3
<1>5. Last(s) \in S
  BY <1>1, ElementOfSeq DEF Last
<1>6. QED
  BY <1>1, <1>4, <1>5 DEF n, Front

\* A prefix, element by element.
LEMMA PrefixIs ==
    ASSUME NEW S, NEW s \in Seq(S), NEW t \in Seq(S)
    PROVE  IsPrefix(s, t) <=> Len(s) <= Len(t) /\ \A i \in 1..Len(s) : s[i] = t[i]
<1> DEFINE n == Len(s)
<1>1. n \in Nat /\ Len(t) \in Nat /\ SubSeq(s, 1, n) = s
  BY LenProperties, SubSeqFull
<1>2. ASSUME n <= Len(t)
      PROVE  /\ SubSeq(t, 1, n) \in Seq(S) /\ Len(SubSeq(t, 1, n)) = n
             /\ \A i \in 1..n : SubSeq(t, 1, n)[i] = t[i]
  <2>1. \A i \in 1..n : t[i] \in S
    BY <1>1, <1>2, ElementOfSeq
  <2> HIDE DEF n
  <2>2. /\ SubSeq(t, 1, n) \in Seq(S) /\ Len(SubSeq(t, 1, n)) = IF 1 <= n THEN n - 1 + 1 ELSE 0
        /\ \A i \in 1..(n - 1 + 1) : SubSeq(t, 1, n)[i] = t[1 + i - 1]
    BY <1>1, <2>1, SubSeqProperties
  <2>3. QED
    BY <1>1, <2>2
<1>3. ASSUME n <= Len(t), \A i \in 1..n : s[i] = t[i] PROVE s = SubSeq(t, 1, n)
  <2> DEFINE u == SubSeq(t, 1, n)
  <2>1. u \in Seq(S) /\ Len(s) = Len(u) /\ \A i \in 1..Len(s) : s[i] = u[i]
    BY <1>2, <1>3
  <2> HIDE DEF u
  <2>2. s = u
    BY <2>1, SeqEqual
  <2>3. QED
    BY <2>2 DEF u
<1>4. ASSUME IsPrefix(s, t) PROVE n <= Len(t) /\ \A i \in 1..n : s[i] = t[i]
  <2>1. n <= Len(t) /\ s = SubSeq(t, 1, n)
    BY <1>1, <1>4 DEF IsPrefix
  <2>2. QED
    BY <1>2, <2>1
<1>5. QED
  BY <1>1, <1>3, <1>4 DEF IsPrefix

LEMMA PrefixTransitive ==
    ASSUME NEW s \in Place, NEW t \in Place, NEW u \in Place, IsPrefix(s, t), IsPrefix(t, u)
    PROVE  IsPrefix(s, u)
<1>1. /\ Len(s) <= Len(t) /\ \A i \in 1..Len(s) : s[i] = t[i]
      /\ Len(t) <= Len(u) /\ \A i \in 1..Len(t) : t[i] = u[i]
  BY PrefixIs DEF Place
<1>2. Len(s) \in Nat /\ Len(t) \in Nat /\ Len(u) \in Nat
  BY LenProperties DEF Place
<1>3. \A i \in 1..Len(s) : i \in 1..Len(t)
  BY <1>1, <1>2
<1>4. Len(s) <= Len(u) /\ \A i \in 1..Len(s) : s[i] = u[i]
  BY <1>1, <1>2, <1>3
<1>5. QED
  BY <1>4, PrefixIs DEF Place

\* A prefix is the sequence itself or a prefix of its front.
LEMMA PrefixOfFront ==
    ASSUME NEW s \in Place, NEW t \in Place, t # <<>>
    PROVE  /\ IsPrefix(Front(t), t) /\ Front(t) # t /\ Front(t) \in Place
           /\ IsPrefix(s, t) /\ s # t => IsPrefix(s, Front(t))
<1>1. /\ Len(t) \in Nat \ {0} /\ Front(t) \in Place /\ Len(Front(t)) = Len(t) - 1
      /\ \A i \in 1..(Len(t) - 1) : Front(t)[i] = t[i]
  BY FrontOf DEF Place
<1>2. IsPrefix(Front(t), t) /\ Front(t) # t
  <2>1. Len(Front(t)) <= Len(t) /\ \A i \in 1..Len(Front(t)) : Front(t)[i] = t[i]
    BY <1>1
  <2>2. Len(Front(t)) # Len(t)
    BY <1>1
  <2>3. QED
    BY <1>1, <2>1, <2>2, PrefixIs DEF Place
<1>3. ASSUME IsPrefix(s, t), s # t PROVE IsPrefix(s, Front(t))
  <2>1. Len(s) \in Nat /\ Len(s) <= Len(t) /\ \A i \in 1..Len(s) : s[i] = t[i]
    BY <1>3, PrefixIs, LenProperties DEF Place
  <2>2. Len(s) # Len(t)
    BY <1>3, <2>1, SeqEqual DEF Place
  <2>3. Len(s) <= Len(Front(t)) /\ \A i \in 1..Len(s) : s[i] = Front(t)[i]
    BY <1>1, <2>1, <2>2
  <2>4. QED
    BY <1>1, <2>3, PrefixIs DEF Place
<1>4. QED
  BY <1>1, <1>2, <1>3

\* Directories and files that are a tree.
Grown(D, F) == IsTree(D, F) /\ D \cup F \subseteq Place

\* Whatever is on the way to what is there is a directory that is there.
LEMMA WayIsThere ==
    ASSUME NEW D, NEW F, Grown(D, F), NEW s \in Place, NEW t \in D \cup F, IsPrefix(s, t), s # t
    PROVE  s \in D
<1> DEFINE N == Len(t)
           S == {n \in 0..N : \A u \in D \cup F : Len(u) = n /\ IsPrefix(s, u) /\ s # u => s \in D}
<1>1. t \in Place /\ N \in Nat /\ \A u \in D \cup F : u \in Place
  BY LenProperties DEF Grown, Place
<1>2. ASSUME NEW u \in D \cup F, IsPrefix(s, u), s # u, u = <<>> PROVE FALSE
  <2>1. Len(s) \in Nat /\ Len(s) <= Len(u) /\ Len(u) = 0
    BY <1>1, <1>2, PrefixIs, LenProperties, EmptySeq DEF Place
  <2>2. s = <<>>
    BY <2>1, EmptySeq DEF Place
  <2>3. QED
    BY <1>2, <2>2
<1>3. 0 \in S
  <2>1. \A u \in D \cup F : Len(u) = 0 => u = <<>>
    BY <1>1, EmptySeq DEF Place
  <2>2. QED
    BY <1>1, <1>2, <2>1
<1>4. ASSUME NEW n \in 0..(N - 1), n \in S PROVE n + 1 \in S
  <2>1. ASSUME NEW u \in D \cup F, Len(u) = n + 1, IsPrefix(s, u), s # u PROVE s \in D
    <3>1. u # <<>> /\ u \in Place
      BY <1>1, <1>2, <2>1
    <3>2. Front(u) \in D /\ Len(Front(u)) = n
      <4>1. Front(u) \in D
        BY <3>1 DEF Grown, IsTree
      <4>2. Len(Front(u)) = Len(u) - 1
        BY <3>1, FrontOf DEF Place
      <4>3. QED
        BY <2>1, <4>1, <4>2
    <3>3. IsPrefix(s, Front(u))
      BY <2>1, <3>1, PrefixOfFront
    <3>4. QED
      BY <1>4, <3>2, <3>3
  <2>2. n + 1 \in 0..N
    BY <1>1
  <2>3. QED
    BY <2>1, <2>2
<1>5. 0..N \subseteq S
  <2> HIDE DEF S
  <2>1. QED
    BY <1>1, <1>3, <1>4, BoundedInduction
<1>6. N \in S
  BY <1>1, <1>5
<1>7. QED
  BY <1>6

LEMMA WithRest ==
    ASSUME NEW a \in Place, NEW r \in Place
    PROVE  /\ a \o r \in Place /\ Len(a \o r) = Len(a) + Len(r)
           /\ \A i \in 1..(Len(a) + Len(r)) :
                 (a \o r)[i] = IF i <= Len(a) THEN a[i] ELSE r[i - Len(a)]
           /\ IsPrefix(a, a \o r) /\ (a \o r = a <=> r = <<>>)
           /\ SubSeq(a \o r, Len(a) + 1, Len(a \o r)) = r
<1>1. Len(a) \in Nat /\ Len(r) \in Nat /\ (r = <<>> <=> Len(r) = 0)
  BY LenProperties, EmptySeq DEF Place
<1>2. /\ a \o r \in Place /\ Len(a \o r) = Len(a) + Len(r)
      /\ \A i \in 1..(Len(a) + Len(r)) :
            (a \o r)[i] = IF i <= Len(a) THEN a[i] ELSE r[i - Len(a)]
  BY ConcatProperties DEF Place
<1>3. IsPrefix(a, a \o r)
  <2>1. Len(a) <= Len(a \o r) /\ \A i \in 1..Len(a) : a[i] = (a \o r)[i]
    BY <1>1, <1>2
  <2>2. QED
    BY <1>2, <2>1, PrefixIs DEF Place
<1>4. a \o r = a <=> r = <<>>
  BY ConcatEqualIffEmpty DEF Place
<1>5. SubSeq(a \o r, Len(a) + 1, Len(a \o r)) = r
  <2> DEFINE t == a \o r
             m == Len(a) + 1
             n == Len(a) + Len(r)
             u == SubSeq(t, m, n)
  <2>1. m \in Int /\ n \in Int /\ \A i \in m..n : t[i] \in AName
    <3>1. \A i \in m..n : i \in 1..Len(t)
      BY <1>1, <1>2
    <3>2. t \in Seq(AName)
      BY <1>2 DEF Place
    <3> HIDE DEF t
    <3>3. \A i \in 1..Len(t) : t[i] \in AName
      BY <3>2, ElementOfSeq
    <3>4. QED
      BY <1>1, <3>1, <3>3
  <2> HIDE DEF m, n, t
  <2>2. /\ u \in Seq(AName) /\ Len(u) = IF m <= n THEN n - m + 1 ELSE 0
        /\ \A i \in 1..(n - m + 1) : u[i] = t[m + i - 1]
    BY <2>1, SubSeqProperties
  <2>3. n - m + 1 = Len(r) /\ (~(m <= n) => Len(r) = 0)
    BY <1>1 DEF m, n
  <2> HIDE DEF u
  <2>4. Len(u) = Len(r)
    BY <2>2, <2>3
  <2>5. ASSUME NEW i \in 1..Len(r) PROVE u[i] = r[i]
    <3>1. u[i] = t[m + i - 1]
      BY <2>2, <2>3
    <3>2. m + i - 1 \in 1..n /\ ~(m + i - 1 <= Len(a)) /\ m + i - 1 - Len(a) = i
      BY <1>1 DEF m, n
    <3> DEFINE j == m + i - 1
    <3>3. j \in 1..(Len(a) + Len(r)) /\ ~(j <= Len(a))
      BY <3>2 DEF n
    <3> HIDE DEF j
    <3>4. t[j] = r[j - Len(a)]
      BY <1>2, <3>3 DEF t
    <3>5. u[i] = t[j]
      BY <3>1 DEF j
    <3>6. j - Len(a) = i
      BY <1>1 DEF j, m
    <3>7. QED
      BY <3>4, <3>5, <3>6
  <2>6. u = r
    BY <2>2, <2>4, <2>5, SeqEqual DEF Place
  <2>7. QED
    BY <1>2, <2>6 DEF u, t, m, n
<1>6. QED
  BY <1>2, <1>3, <1>4, <1>5

\* What has a prefix has a rest.
LEMMA RestOf ==
    ASSUME NEW a \in Place, NEW t \in Place, IsPrefix(a, t)
    PROVE  \E r \in Place : t = a \o r
<1>1. /\ Len(a) \in Nat /\ Len(t) \in Nat /\ Len(a) <= Len(t)
      /\ SubSeq(a, 1, Len(a)) = SubSeq(t, 1, Len(a)) /\ SubSeq(a, 1, Len(a)) = a
  BY LenProperties, SubSeqFull DEF Place, IsPrefix
<1>2. 1 \in 1..(Len(t) + 1) /\ Len(a) \in (1 - 1)..Len(t) /\ Len(t) \in Len(a)..Len(t)
  BY <1>1
<1>3. SubSeq(t, 1, Len(a)) \o SubSeq(t, Len(a) + 1, Len(t)) = SubSeq(t, 1, Len(t))
  BY <1>2, ConcatAdjacentSubSeq DEF Place
<1>4. SubSeq(t, 1, Len(t)) = t
  BY SubSeqFull DEF Place
<1>5. SubSeq(t, Len(a) + 1, Len(t)) \in Place
  <2> DEFINE m == Len(a) + 1
             n == Len(t)
  <2>1. m \in Int /\ n \in Int /\ \A i \in m..n : t[i] \in AName
    BY <1>1, ElementOfSeq DEF Place
  <2> HIDE DEF m, n
  <2>2. SubSeq(t, m, n) \in Seq(AName)
    BY <2>1, SubSeqProperties
  <2>3. QED
    BY <2>2 DEF m, n, Place
<1>6. QED
  BY <1>1, <1>3, <1>4, <1>5

-----------------------------------------------------------------------------
(* A rename moves all that is below one place below another: a tree stays  *)
(* a tree, and nothing that is there is covered.                           *)

LEMMA MovedRest ==
    ASSUME NEW a \in Place, NEW b \in Place, NEW r \in Place
    PROVE  Moved(a \o r, a, b) = b \o r
  BY WithRest DEF Moved

LEMMA MovedElse ==
    ASSUME NEW a, NEW b, NEW place, ~IsPrefix(a, place)
    PROVE  Moved(place, a, b) = place
  BY DEF Moved

LEMMA FrontOfRest ==
    ASSUME NEW a \in Place, NEW r \in Place, r # <<>>
    PROVE  Front(a \o r) = a \o Front(r) /\ a \o r # <<>> /\ Front(r) \in Place
<1> DEFINE t == a \o r
           u == a \o Front(r)
<1>1. /\ Len(r) \in Nat \ {0} /\ Front(r) \in Place /\ Len(Front(r)) = Len(r) - 1
      /\ \A i \in 1..(Len(r) - 1) : Front(r)[i] = r[i]
      /\ Len(a) \in Nat
  BY FrontOf, LenProperties DEF Place
<1>2. /\ t \in Place /\ Len(t) = Len(a) + Len(r)
      /\ \A i \in 1..(Len(a) + Len(r)) : t[i] = IF i <= Len(a) THEN a[i] ELSE r[i - Len(a)]
  BY WithRest
<1>3. /\ u \in Place /\ Len(u) = Len(a) + Len(Front(r))
      /\ \A i \in 1..(Len(a) + Len(Front(r))) :
            u[i] = IF i <= Len(a) THEN a[i] ELSE Front(r)[i - Len(a)]
  BY <1>1, WithRest
<1> HIDE DEF t, u
<1>4. t # <<>>
  BY <1>1, <1>2, EmptySeq
<1>5. /\ Front(t) \in Place /\ Len(Front(t)) = Len(t) - 1
      /\ \A i \in 1..(Len(t) - 1) : Front(t)[i] = t[i]
  BY <1>2, <1>4, FrontOf DEF Place
<1>6. Len(Front(t)) = Len(u)
  BY <1>1, <1>2, <1>3, <1>5
<1>7. ASSUME NEW i \in 1..Len(u) PROVE Front(t)[i] = u[i]
  <2>1. /\ i \in 1..(Len(t) - 1) /\ i \in 1..(Len(a) + Len(r))
        /\ ~(i <= Len(a)) => i - Len(a) \in 1..(Len(r) - 1)
    BY <1>1, <1>2, <1>3
  <2>2. Front(t)[i] = IF i <= Len(a) THEN a[i] ELSE r[i - Len(a)]
    BY <1>2, <1>5, <2>1
  <2>3. u[i] = IF i <= Len(a) THEN a[i] ELSE r[i - Len(a)]
    BY <1>1, <1>3, <2>1
  <2>4. QED
    BY <2>2, <2>3
<1>8. Front(t) = u
  BY <1>3, <1>5, <1>6, <1>7, SeqEqual DEF Place
<1>9. QED
  BY <1>1, <1>4, <1>8 DEF t, u

\* Below a place with nothing right below it there is nothing.
LEMMA NothingBelow ==
    ASSUME NEW D, NEW F, Grown(D, F), NEW b \in Place, NEW r \in Place, r # <<>>,
           \A q \in D \cup F : q # <<>> => Front(q) # b
    PROVE  b \o r \notin D \cup F
<1>1. SUFFICES ASSUME b \o r \in D \cup F PROVE FALSE
  OBVIOUS
<1> DEFINE N == Len(r)
           S == {n \in 0..N : \A x \in Place : Len(x) = n /\ x # <<>> => b \o x \notin D \cup F}
<1>2. N \in Nat
  BY LenProperties DEF Place
<1>3. 0 \in S
  BY <1>2, EmptySeq DEF Place
<1>4. ASSUME NEW n \in 0..(N - 1), n \in S PROVE n + 1 \in S
  <2>1. ASSUME NEW x \in Place, Len(x) = n + 1, x # <<>>, b \o x \in D \cup F PROVE FALSE
    <3>1. /\ Front(b \o x) = b \o Front(x) /\ b \o x # <<>> /\ Front(x) \in Place
          /\ Len(Front(x)) = n
      <4>1. Len(Front(x)) = Len(x) - 1
        BY <2>1, FrontOf DEF Place
      <4>2. QED
        BY <2>1, <4>1, FrontOfRest
    <3>2. b \o Front(x) \in D
      BY <2>1, <3>1 DEF Grown, IsTree
    <3>3. CASE Front(x) = <<>>
      <4>1. b \o Front(x) = b
        BY <3>1, <3>3, WithRest
      <4>2. QED
        BY <2>1, <3>1, <4>1
    <3>4. CASE Front(x) # <<>>
      BY <1>4, <3>1, <3>2, <3>4
    <3>5. QED
      BY <3>3, <3>4
  <2>2. n + 1 \in 0..N
    BY <1>2
  <2>3. QED
    BY <2>1, <2>2
<1>5. 0..N \subseteq S
  <2> HIDE DEF S
  <2>1. QED
    BY <1>2, <1>3, <1>4, BoundedInduction
<1>6. N \in S
  BY <1>2, <1>5
<1>7. QED
  BY <1>1, <1>6

\* The places a and b of a rename that can succeed, and what there is.
MayMove(D, F, a, b) ==
    /\ a \in D \cup F /\ a # <<>> /\ b \in Place /\ b # <<>> /\ Front(b) \in D
    /\ a \in F => b \notin D
    /\ a \in D => /\ b \notin F /\ ~IsStrictPrefix(a, b)
                  /\ (\A q \in D \cup F : q # <<>> => Front(q) # b) \/ a = b

LEMMA MovedAlone ==
    ASSUME NEW D, NEW F, Grown(D, F), NEW a, MayMove(D, F, a, a), NEW place \in D \cup F
    PROVE  Moved(place, a, a) = place
<1>1. a \in Place /\ place \in Place
  BY DEF Grown, MayMove
<1>2. CASE IsPrefix(a, place)
  <2>1. PICK r \in Place : place = a \o r
    BY <1>1, <1>2, RestOf
  <2>2. QED
    BY <1>1, <2>1, MovedRest
<1>3. QED
  BY <1>2, MovedElse

\* Whence a place is reached after the rename: what lies below a goes below b,
\* and the way to b is not below a.
LEMMA WayToTarget ==
    ASSUME NEW D, NEW F, Grown(D, F), NEW a, NEW b, MayMove(D, F, a, b), a # b
    PROVE  ~IsPrefix(a, b) /\ ~IsPrefix(a, Front(b))
<1>1. a \in Place /\ b \in Place /\ b # <<>> /\ Front(b) \in D /\ Front(b) \in Place
  BY DEF Grown, MayMove
<1>2. ASSUME IsPrefix(a, Front(b)) PROVE FALSE
  <2>1. IsPrefix(a, b)
    BY <1>1, <1>2, PrefixOfFront, PrefixTransitive
  <2>2. a \notin D
    BY <2>1 DEF MayMove, IsStrictPrefix
  <2>3. a \in F /\ a # Front(b)
    BY <1>1, <2>2 DEF MayMove
  <2>4. QED
    BY <1>1, <1>2, <2>2, <2>3, WayIsThere
<1>3. IsPrefix(a, b) => IsPrefix(a, Front(b))
  BY <1>1, PrefixOfFront
<1>4. QED
  BY <1>2, <1>3

LEMMA RestsAreOwn ==
    ASSUME NEW b \in Place, NEW r \in Place, NEW s \in Place, b \o r = b \o s
    PROVE  r = s
<1>1. r = SubSeq(b \o r, Len(b) + 1, Len(b \o r))
  BY WithRest
<1>2. s = SubSeq(b \o s, Len(b) + 1, Len(b \o s))
  BY WithRest
<1>3. QED
  BY <1>1, <1>2

LEMMA MovedApart ==
    ASSUME NEW D, NEW F, Grown(D, F), NEW a, NEW b, MayMove(D, F, a, b),
           NEW d \in D, NEW f \in F
    PROVE  Moved(d, a, b) # Moved(f, a, b)
<1>1. a \in Place /\ b \in Place /\ d \in Place /\ f \in Place /\ d # f
  BY DEF Grown, MayMove, IsTree
<1>2. SUFFICES ASSUME a # b, Moved(d, a, b) = Moved(f, a, b) PROVE FALSE
  BY <1>1, MovedAlone
<1>3. ASSUME IsPrefix(a, d) PROVE a \in D
  BY <1>1, <1>3, WayIsThere
<1>4. ASSUME a \in D, NEW r \in Place, r # <<>> PROVE b \o r \notin D \cup F
  BY <1>1, <1>2, <1>4, NothingBelow DEF MayMove
<1>5. CASE IsPrefix(a, d) /\ IsPrefix(a, f)
  <2>1. PICK r \in Place : d = a \o r
    BY <1>1, <1>5, RestOf
  <2>2. PICK s \in Place : f = a \o s
    BY <1>1, <1>5, RestOf
  <2>3. Moved(d, a, b) = b \o r
    BY <1>1, <2>1, MovedRest
  <2>4. Moved(f, a, b) = b \o s
    BY <1>1, <2>2, MovedRest
  <2>5. b \o r = b \o s
    BY <1>2, <2>3, <2>4
  <2>6. r = s
    BY <1>1, <2>5, RestsAreOwn
  <2>7. QED
    BY <1>1, <2>1, <2>2, <2>6
<1>6. CASE ~IsPrefix(a, d) /\ ~IsPrefix(a, f)
  BY <1>1, <1>2, <1>6, MovedElse
<1>7. CASE IsPrefix(a, d) /\ ~IsPrefix(a, f)
  <2>1. PICK r \in Place : d = a \o r
    BY <1>1, <1>7, RestOf
  <2>2. f = b \o r
    <3>1. Moved(d, a, b) = b \o r
      BY <1>1, <2>1, MovedRest
    <3>2. QED
      BY <1>2, <1>7, <3>1, MovedElse
  <2>3. a \in D
    BY <1>3, <1>7
  <2>4. r = <<>>
    BY <1>4, <2>2, <2>3
  <2>5. f = b
    BY <1>1, <2>2, <2>4, WithRest
  <2>6. QED
    BY <2>3, <2>5 DEF MayMove
<1>8. CASE ~IsPrefix(a, d) /\ IsPrefix(a, f)
  <2>1. PICK r \in Place : f = a \o r
    BY <1>1, <1>8, RestOf
  <2>2. d = b \o r
    <3>1. Moved(f, a, b) = b \o r
      BY <1>1, <2>1, MovedRest
    <3>2. QED
      BY <1>2, <1>8, <3>1, MovedElse
  <2>3. CASE r = <<>>
    <3>1. f = a /\ d = b
      BY <1>1, <2>1, <2>2, <2>3, WithRest
    <3>2. QED
      BY <3>1 DEF MayMove
  <2>4. CASE r # <<>>
    <3>1. f # a
      BY <1>1, <2>1, <2>4, WithRest
    <3>2. a \in D
      BY <1>1, <1>8, <3>1, WayIsThere
    <3>3. QED
      BY <1>4, <2>2, <2>4, <3>2
  <2>5. QED
    BY <2>3, <2>4
<1>9. QED
  BY <1>5, <1>6, <1>7, <1>8

LEMMA MovedFront ==
    ASSUME NEW D, NEW F, Grown(D, F), NEW a, NEW b, MayMove(D, F, a, b),
           NEW place \in D \cup F, Moved(place, a, b) # <<>>
    PROVE  \E d \in D : Front(Moved(place, a, b)) = Moved(d, a, b)
<1>1. a \in Place /\ a # <<>> /\ b \in Place /\ b # <<>> /\ place \in Place /\ Front(b) \in D
  BY DEF Grown, MayMove
<1>2. place # <<>> => Front(place) \in D
  BY DEF Grown, IsTree
<1>3. CASE a = b
  <2>1. Moved(place, a, b) = place
    BY <1>3, MovedAlone
  <2>2. Front(place) \in D /\ Moved(Front(place), a, b) = Front(place)
    BY <1>2, <1>3, <2>1, MovedAlone
  <2>3. QED
    BY <2>1, <2>2
<1>4. CASE a # b /\ ~IsPrefix(a, place)
  <2>1. Moved(place, a, b) = place
    BY <1>4, MovedElse
  <2>2. place # <<>> /\ Front(place) \in D
    BY <1>2, <2>1
  <2>3. ~IsPrefix(a, Front(place))
    BY <1>1, <1>4, <2>2, PrefixOfFront, PrefixTransitive
  <2>4. Moved(Front(place), a, b) = Front(place)
    BY <2>3, MovedElse
  <2>5. QED
    BY <2>1, <2>2, <2>4
<1>5. CASE a # b /\ IsPrefix(a, place)
  <2>1. PICK r \in Place : place = a \o r
    BY <1>1, <1>5, RestOf
  <2>2. Moved(place, a, b) = b \o r
    BY <1>1, <2>1, MovedRest
  <2>3. CASE r = <<>>
    <3>1. Moved(place, a, b) = b
      BY <1>1, <2>2, <2>3, WithRest
    <3>2. Moved(Front(b), a, b) = Front(b)
      BY <1>5, WayToTarget, MovedElse
    <3>3. QED
      BY <1>1, <3>1, <3>2
  <2>4. CASE r # <<>>
    <3>1. /\ Front(place) = a \o Front(r) /\ place # <<>> /\ Front(r) \in Place
          /\ Front(b \o r) = b \o Front(r)
      BY <1>1, <2>1, <2>4, FrontOfRest
    <3>2. Moved(Front(place), a, b) = b \o Front(r)
      BY <1>1, <3>1, MovedRest
    <3>3. QED
      BY <1>2, <2>2, <3>1, <3>2
  <2>5. QED
    BY <2>3, <2>4
<1>6. QED
  BY <1>3, <1>4, <1>5

LEMMA RenameKeepsTree ==
    ASSUME NEW D, NEW F, Grown(D, F), NEW a, NEW b, MayMove(D, F, a, b)
    PROVE  Grown({Moved(d, a, b) : d \in D}, {Moved(f, a, b) : f \in F})
<1> DEFINE D2 == {Moved(d, a, b) : d \in D}
           F2 == {Moved(f, a, b) : f \in F}
<1>1. a \in Place /\ a # <<>> /\ b \in Place /\ D \cup F \subseteq Place /\ <<>> \in D
  BY DEF Grown, MayMove, IsTree
<1>2. <<>> \in D2
  <2>1. ~IsPrefix(a, <<>>)
    <3>1. Len(a) \in Nat \ {0} /\ Len(<<>>) = 0
      BY <1>1, EmptySeq DEF Place
    <3>2. QED
      BY <3>1 DEF IsPrefix
  <2>2. Moved(<<>>, a, b) = <<>>
    BY <2>1, MovedElse
  <2>3. QED
    BY <1>1, <2>2
<1>3. D2 \cap F2 = {}
  BY MovedApart
<1>4. ASSUME NEW place \in D2 \cup F2, place # <<>> PROVE Front(place) \in D2
  <2>1. PICK q \in D \cup F : place = Moved(q, a, b)
    OBVIOUS
  <2>2. QED
    BY <1>4, <2>1, MovedFront
<1>5. ASSUME NEW place \in D2 \cup F2 PROVE place \in Place
  <2>1. PICK q \in D \cup F : place = Moved(q, a, b)
    OBVIOUS
  <2>2. CASE IsPrefix(a, q)
    <3>1. PICK r \in Place : q = a \o r
      BY <1>1, <2>2, RestOf
    <3>2. Moved(q, a, b) = b \o r
      BY <1>1, <3>1, MovedRest
    <3>3. b \o r \in Place
      BY <1>1, WithRest
    <3>4. QED
      BY <2>1, <3>2, <3>3
  <2>3. QED
    BY <1>1, <2>1, <2>2, MovedElse
<1>6. QED
  BY <1>2, <1>3, <1>4, <1>5 DEF Grown, IsTree

-----------------------------------------------------------------------------
(* Offsets: the first and the last of a set of them.                       *)

LEMMA LeastIs ==
    ASSUME NEW N \in Int, NEW S, S # {}, \A x \in S : x \in Int /\ N <= x
    PROVE  Least(S) \in S /\ \A j \in S : Least(S) <= j
<1> DEFINE T == {x - N : x \in S}
<1>1. T \subseteq Nat /\ T # {}
  OBVIOUS
<1>2. PICK t \in T : \A y \in T : t <= y
  <2> HIDE DEF T
  <2>1. QED
    BY <1>1, LeastNumber
<1>3. PICK x \in S : t = x - N
  BY <1>2
<1>4. \A y \in S : x <= y
  BY <1>2, <1>3
<1>5. QED
  BY <1>4 DEF Least

LEMMA GreatestIs ==
    ASSUME NEW N \in Int, NEW S, S # {}, \A x \in S : x \in Int /\ x <= N
    PROVE  Greatest(S) \in S /\ \A j \in S : j <= Greatest(S)
<1> DEFINE T == {N - x : x \in S}
<1>1. T \subseteq Nat /\ T # {}
  OBVIOUS
<1>2. PICK t \in T : \A y \in T : t <= y
  <2> HIDE DEF T
  <2>1. QED
    BY <1>1, LeastNumber
<1>3. PICK x \in S : t = N - x
  BY <1>2
<1>4. \A y \in S : y <= x
  BY <1>2, <1>3
<1>5. QED
  BY <1>4 DEF Greatest

LEMMA NextSepIs ==
    ASSUME NEW path \in Path, NEW i \in 0..Len(path)
    PROVE  /\ NextSep(path, i) \in i..Len(path)
           /\ NextSep(path, i) < Len(path) => IsSep(path, NextSep(path, i))
           /\ \A j \in i..(NextSep(path, i) - 1) : ~IsSep(path, j)
<1> DEFINE S == {Len(path)} \cup {j \in i..(Len(path) - 1) : IsSep(path, j)}
<1>1. Len(path) \in Nat
  BY LenProperties DEF Path
<1>2. S # {} /\ \A x \in S : x \in Int /\ i <= x /\ x \in i..Len(path)
  BY <1>1
<1>3. Least(S) \in S /\ \A j \in S : Least(S) <= j
  <2> HIDE DEF S
  <2>1. QED
    BY <1>2, LeastIs
<1>4. NextSep(path, i) = Least(S)
  BY DEF NextSep
<1> DEFINE n == Least(S)
<1> HIDE DEF n
<1>5. n \in S /\ \A j \in S : n <= j
  BY <1>3 DEF n
<1>6. n \in i..Len(path) /\ (n < Len(path) => IsSep(path, n))
  BY <1>1, <1>2, <1>5
<1>7. \A j \in i..(n - 1) : j \in i..(Len(path) - 1) /\ ~(n <= j)
  BY <1>1, <1>6
<1>8. \A j \in i..(n - 1) : ~IsSep(path, j)
  BY <1>5, <1>7
<1>9. QED
  BY <1>4, <1>6, <1>8 DEF n

LEMMA OnwardIs ==
    ASSUME NEW path \in Path, NEW i \in 0..Len(path), i < Len(path)
    PROVE  Onward(path, i) \in (i + 1)..Len(path)
<1>1. Len(path) \in Nat
  BY LenProperties DEF Path
<1>2. QED
  BY <1>1, NextSepIs DEF Onward

\* What a slice holds.
LEMMA SliceIs ==
    ASSUME NEW path \in Path, NEW i \in Nat, NEW end \in i..Len(path)
    PROVE  /\ Slice(path, i, end) \in Path /\ Len(Slice(path, i, end)) = end - i
           /\ \A j \in 0..(end - i - 1) : Char(Slice(path, i, end), j) = Char(path, i + j)
<1>1. Len(path) \in Nat
  BY LenProperties DEF Path
<1> DEFINE m == i + 1
           s == SubSeq(path, m, end)
<1>2. Slice(path, i, end) = s
  BY <1>1 DEF Slice
<1>3. m \in Int /\ end \in Int /\ \A j \in m..end : path[j] \in Chars
  BY <1>1, ElementOfSeq DEF Path
<1> HIDE DEF m
<1>4. /\ s \in Seq(Chars) /\ Len(s) = IF m <= end THEN end - m + 1 ELSE 0
      /\ \A j \in 1..(end - m + 1) : s[j] = path[m + j - 1]
  BY <1>3, SubSeqProperties
<1>5. Len(s) = end - i
  BY <1>1, <1>4 DEF m
<1> HIDE DEF s
<1>6. ASSUME NEW j \in 0..(end - i - 1) PROVE s[j + 1] = path[i + j + 1]
  <2>1. j + 1 \in 1..(end - m + 1) /\ m + (j + 1) - 1 = i + j + 1
    BY <1>1 DEF m
  <2>2. s[j + 1] = path[m + (j + 1) - 1]
    BY <1>4, <2>1
  <2>3. QED
    BY <2>1, <2>2
<1>7. QED
  BY <1>2, <1>4, <1>5, <1>6 DEF Path, Char

LEMMA StoredIs ==
    ASSUME NEW path \in Path, NEW size \in Nat
    PROVE  /\ Stored(path, size) \in Path
           /\ Len(Stored(path, size)) <= Len(path)
           /\ Len(Stored(path, size)) < size \/ size = 0
           /\ Len(path) < size => Stored(path, size) = path
<1>1. Len(path) \in Nat
  BY LenProperties DEF Path
<1> DEFINE room == IF size > 0 THEN size - 1 ELSE 0
           end == IF room <= Len(path) THEN room ELSE Len(path)
<1>2. end \in 0..Len(path) /\ room \in Nat
  BY <1>1
<1>3. Stored(path, size) = Slice(path, 0, end)
  BY <1>1, <1>2 DEF Stored, Slice
<1> HIDE DEF end
<1>4. Slice(path, 0, end) \in Path /\ Len(Slice(path, 0, end)) = end - 0
  BY <1>2, SliceIs
<1>5. ASSUME Len(path) < size PROVE Slice(path, 0, end) = path
  <2>1. end = Len(path)
    BY <1>1, <1>2, <1>5 DEF end
  <2>2. QED
    BY <1>1, <2>1, SubSeqFull DEF Slice, Path
<1>6. end <= Len(path) /\ (end < size \/ size = 0)
  BY <1>1 DEF end
<1>7. QED
  BY <1>1, <1>2, <1>3, <1>4, <1>5, <1>6

-----------------------------------------------------------------------------
(* Trimming and joining paths: the names stay.                             *)

LEMMA OnlySeparators ==
    ASSUME NEW path \in Path, \A i \in 0..(Len(path) - 1) : IsSep(path, i)
    PROVE  Names(path) = <<>>
<1> DEFINE N == Len(path)
           S == {n \in 0..N : Along(path)[n] = <<>>}
<1>1. N \in Nat
  BY LenProperties DEF Path
<1>2. 0 \in S
  BY <1>1, AlongGrows DEF Path
<1>3. ASSUME NEW n \in 0..(N - 1), n \in S PROVE n + 1 \in S
  <2>1. n + 1 \in 1..N /\ n + 1 \in 0..N /\ (n + 1) - 1 = n
    BY <1>1
  <2>2. Along(path)[n + 1] = Longer(path, n + 1, Along(path)[n])
    BY <2>1, AlongGrows DEF Path
  <2>3. IsSep(path, n)
    BY <1>1
  <2>4. QED
    BY <1>3, <2>1, <2>2, <2>3 DEF Longer
<1>4. 0..N \subseteq S
  <2> HIDE DEF S
  <2>1. QED
    BY <1>1, <1>2, <1>3, BoundedInduction
<1>5. N \in S
  BY <1>1, <1>4
<1>6. QED
  BY <1>5 DEF Names

\* Separators before and behind add no names.
LEMMA MiddleNames ==
    ASSUME NEW path \in Path, NEW i \in 0..Len(path), NEW k \in i..Len(path),
           \A j \in 0..(i - 1) : IsSep(path, j), \A j \in k..(Len(path) - 1) : IsSep(path, j)
    PROVE  Names(Slice(path, i, k)) = Names(path)
<1> DEFINE first  == Slice(path, 0, i)
           rest   == Slice(path, i, Len(path))
           middle == Slice(path, i, k)
           m      == k - i
           end    == Slice(rest, m, Len(rest))
<1>1. Len(path) \in Nat /\ i \in Nat /\ k \in Nat /\ k <= Len(path) /\ i <= k /\ m \in Nat
  BY LenProperties DEF Path
<1>2. /\ first \in Path /\ Len(first) = i /\ rest \in Path /\ Len(rest) = Len(path) - i
      /\ \A j \in 0..(i - 1) : Char(first, j) = Char(path, j)
      /\ \A j \in 0..(Len(path) - i - 1) : Char(rest, j) = Char(path, i + j)
      /\ path = first \o rest
  BY Slices DEF Path
<1>3. /\ middle \in Path /\ Len(middle) = m
      /\ \A j \in 0..(m - 1) : Char(middle, j) = Char(path, i + j)
  BY <1>1, SliceIs
<1> HIDE DEF first, rest, middle
<1>4. /\ m \in 0..Len(rest) /\ Slice(rest, 0, m) \in Path /\ Len(Slice(rest, 0, m)) = m
      /\ \A j \in 0..(m - 1) : Char(Slice(rest, 0, m), j) = Char(rest, j)
      /\ end \in Path /\ Len(end) = Len(rest) - m
      /\ \A j \in 0..(Len(rest) - m - 1) : Char(end, j) = Char(rest, m + j)
      /\ rest = Slice(rest, 0, m) \o end
  <2>1. m \in 0..Len(rest)
    BY <1>1, <1>2
  <2> HIDE DEF m
  <2>2. /\ Slice(rest, 0, m) \in Path /\ Len(Slice(rest, 0, m)) = m
        /\ \A j \in 0..(m - 1) : Char(Slice(rest, 0, m), j) = Char(rest, j)
    BY <1>2, <2>1, Slices DEF Path
  <2>3. /\ end \in Path /\ Len(end) = Len(rest) - m
        /\ \A j \in 0..(Len(rest) - m - 1) : Char(end, j) = Char(rest, m + j)
    <3>1. rest \in Seq(Chars)
      BY <1>2 DEF Path
    <3>2. end \in Seq(Chars) /\ Len(end) = Len(rest) - m
      BY <2>1, <3>1, Slices
    <3>3. \A j \in 0..(Len(rest) - m - 1) : Char(Slice(rest, m, Len(rest)), j) = Char(rest, m + j)
      BY <2>1, <3>1, Slices
    <3>4. QED
      BY <3>2, <3>3 DEF Path
  <2>4. rest = Slice(rest, 0, m) \o end
    BY <1>2, <2>1, Slices DEF Path
  <2> HIDE DEF end
  <2>5. QED
    BY <2>1, <2>2, <2>3, <2>4
<1>5. Slice(rest, 0, m) = middle
  <2> DEFINE s == Slice(rest, 0, m)
  <2>1. ASSUME NEW j \in 1..m PROVE s[j] = middle[j]
    <3>1. j - 1 \in 0..(m - 1) /\ j - 1 \in 0..(Len(path) - i - 1) /\ j - 1 + 1 = j
      BY <1>1
    <3>2. Char(s, j - 1) = Char(middle, j - 1)
      BY <1>2, <1>3, <1>4, <3>1
    <3>3. QED
      BY <3>1, <3>2 DEF Char
  <2>2. s \in Path /\ Len(s) = m
    BY <1>4
  <2> HIDE DEF s, m
  <2>3. QED
    BY <1>3, <2>1, <2>2, SeqEqual DEF Path, s
<1> HIDE DEF end, m
<1>6. Names(first) = <<>> /\ Meets(first, rest)
  <2>1. \A j \in 0..(i - 1) : IsSep(first, j)
    BY <1>1, <1>2 DEF IsSep
  <2>2. Names(first) = <<>>
    BY <1>2, <2>1, OnlySeparators
  <2>3. CASE i = 0
    BY <1>2, <2>2, <2>3, EmptySeq DEF Meets, Path
  <2>4. CASE i # 0
    <3>1. i - 1 \in 0..(i - 1) /\ i - 1 + 1 = i
      BY <1>1, <2>4
    <3>2. first[i] = Sep
      BY <2>1, <3>1 DEF IsSep, Char
    <3>3. QED
      BY <1>2, <2>2, <3>2 DEF Meets, Last
  <2>5. QED
    BY <2>3, <2>4
<1>7. Names(end) = <<>> /\ Meets(middle, end)
  <2>1. \A j \in 0..(Len(end) - 1) : IsSep(end, j)
    <3>1. ASSUME NEW j \in 0..(Len(end) - 1) PROVE IsSep(end, j)
      <4>1. /\ j \in 0..(Len(rest) - m - 1) /\ m + j \in 0..(Len(path) - i - 1)
            /\ k + j \in k..(Len(path) - 1) /\ i + (m + j) = k + j
        BY <1>1, <1>2, <1>4 DEF m
      <4>2. Char(end, j) = Char(path, k + j)
        BY <1>2, <1>4, <4>1
      <4>3. IsSep(path, k + j)
        BY <4>1
      <4>4. j < Len(end)
        BY <1>1, <1>2, <1>4
      <4>5. QED
        BY <4>2, <4>3, <4>4 DEF IsSep
    <3>2. QED
      BY <3>1
  <2>2. Names(end) = <<>>
    BY <1>4, <2>1, OnlySeparators
  <2>3. CASE end = <<>>
    BY <2>2, <2>3 DEF Meets
  <2>4. CASE end # <<>>
    <3>1. 0 \in 0..(Len(end) - 1)
      BY <1>4, <2>4, EmptySeq DEF Path
    <3>2. IsSep(end, 0)
      BY <2>1, <3>1
    <3>3. end[1] = Sep
      BY <3>2 DEF IsSep, Char
    <3>4. QED
      BY <2>2, <3>3 DEF Meets
  <2>5. QED
    BY <2>3, <2>4
<1>8. Names(path) = Names(first) \o Names(rest)
  BY <1>2, <1>6, NamesJoin DEF Path
<1>9. Names(rest) = Names(middle) \o Names(end)
  BY <1>3, <1>4, <1>5, <1>7, NamesJoin DEF Path
<1>10. Names(rest) \in Seq(Path) /\ Names(middle) \in Seq(Path)
  BY <1>2, <1>3, NamesArePlaces
<1>11. <<>> \o Names(rest) = Names(rest) /\ Names(middle) \o <<>> = Names(middle)
  BY <1>10, ConcatEmptySeq
<1>12. QED
  BY <1>6, <1>7, <1>8, <1>9, <1>11 DEF middle

LEMMA TrimIs ==
    ASSUME NEW path \in Path
    PROVE  /\ TrimEnd(path) \in Nat /\ FirstName(path) \in 0..TrimEnd(path)
           /\ TrimStart(path) \in 0..TrimEnd(path)
           /\ path # <<>> => TrimEnd(path) < Len(path)
           /\ path = <<>> => TrimEnd(path) = 0
           /\ \A j \in (TrimEnd(path) + 1)..(Len(path) - 1) : IsSep(path, j)
           /\ \A j \in 0..(FirstName(path) - 1) : IsSep(path, j)
           /\ FirstName(path) > 0 => FirstName(path) = TrimStart(path) + 1
           /\ FirstName(path) = 0 => TrimStart(path) = 0
<1> DEFINE N == Len(path)
           S == {0} \cup {i \in 0..(N - 1) : ~IsSep(path, i)}
           e == TrimEnd(path)
           T == {e} \cup {i \in 0..e : ~IsSep(path, i)}
           f == FirstName(path)
<1>1. N \in Nat /\ (path = <<>> <=> N = 0)
  BY LenProperties, EmptySeq DEF Path
<1>2. e \in S /\ \A j \in S : j <= e
  <2>1. S # {} /\ \A x \in S : x \in Int /\ x <= N
    BY <1>1
  <2>2. e = Greatest(S)
    BY DEF TrimEnd
  <2> HIDE DEF S, e
  <2>3. QED
    BY <1>1, <2>1, <2>2, GreatestIs
<1>3. /\ e \in Nat /\ (path # <<>> => e < N) /\ (path = <<>> => e = 0)
      /\ \A j \in (e + 1)..(N - 1) : IsSep(path, j)
  <2> HIDE DEF e
  <2>1. e \in Nat /\ (path # <<>> => e < N) /\ (path = <<>> => e = 0)
    BY <1>1, <1>2
  <2>2. \A j \in (e + 1)..(N - 1) : j \in 0..(N - 1) /\ ~(j <= e)
    BY <1>1, <2>1
  <2>3. QED
    BY <1>2, <2>1, <2>2
<1>4. f \in T /\ \A j \in T : f <= j
  <2>1. T # {} /\ \A x \in T : x \in Int /\ 0 <= x
    BY <1>3
  <2>2. f = Least(T)
    BY DEF FirstName
  <2> HIDE DEF T, f
  <2>3. QED
    BY <2>1, <2>2, LeastIs
<1>5. f \in 0..e /\ \A j \in 0..(f - 1) : IsSep(path, j)
  <2> HIDE DEF e, f
  <2>1. f \in 0..e
    BY <1>3, <1>4
  <2>2. \A j \in 0..(f - 1) : j \in 0..e /\ ~(f <= j)
    BY <1>3, <2>1
  <2>3. QED
    BY <1>4, <2>1, <2>2
<1> HIDE DEF e, f
<1>6. TrimStart(path) = IF f > 0 THEN f - 1 ELSE 0
  BY DEF TrimStart, f
<1>7. QED
  BY <1>3, <1>5, <1>6 DEF e, f

\* What is kept of a path that is trimmed.
LEMMA LeftIs ==
    ASSUME NEW path \in Path
    PROVE  /\ Left(path) \in Path /\ Names(Left(path)) = Names(path)
           /\ path # <<>> => Left(path) # <<>> /\ (Absolute(Left(path)) <=> Absolute(path))
<1> DEFINE e == TrimEnd(path)
           t == TrimStart(path)
           f == FirstName(path)
<1>1. /\ e \in Nat /\ f \in 0..e /\ t \in 0..e
      /\ path # <<>> => e < Len(path)
      /\ path = <<>> => e = 0
      /\ \A j \in (e + 1)..(Len(path) - 1) : IsSep(path, j)
      /\ \A j \in 0..(f - 1) : IsSep(path, j)
      /\ f > 0 => f = t + 1
      /\ f = 0 => t = 0
  BY TrimIs
<1>2. Left(path) = Slice(path, t, e + 1)
  BY DEF Left
<1> HIDE DEF e, t, f
<1>3. Len(path) \in Nat /\ (path = <<>> <=> Len(path) = 0)
  BY LenProperties, EmptySeq DEF Path
<1>4. CASE path = <<>>
  <2>1. Slice(path, t, e + 1) = SubSeq(path, 1, 0)
    BY <1>1, <1>3, <1>4 DEF Slice
  <2>2. SubSeq(path, 1, 0) = <<>>
    BY SubSeqEmpty
  <2>3. QED
    BY <1>2, <1>4, <2>1, <2>2
<1>5. CASE path # <<>>
  <2>1. /\ t \in Nat /\ t \in 0..Len(path) /\ e + 1 \in t..Len(path)
        /\ \A j \in 0..(t - 1) : j \in 0..(f - 1)
    BY <1>1, <1>3, <1>5
  <2>2. /\ Left(path) \in Path /\ Len(Left(path)) = e + 1 - t
        /\ \A j \in 0..(e + 1 - t - 1) : Char(Left(path), j) = Char(path, t + j)
    <3> DEFINE n == e + 1
    <3> HIDE DEF n
    <3>1. t \in Nat /\ n \in t..Len(path) /\ Left(path) = Slice(path, t, n)
      BY <1>2, <2>1 DEF n
    <3>2. /\ Left(path) \in Path /\ Len(Left(path)) = n - t
          /\ \A j \in 0..(n - t - 1) : Char(Left(path), j) = Char(path, t + j)
      BY <3>1, SliceIs
    <3>3. QED
      BY <1>1, <2>1, <3>2 DEF n
  <2>3. Names(Left(path)) = Names(path)
    BY <1>1, <1>2, <2>1, MiddleNames
  <2>4. Left(path) # <<>> /\ 0 < Len(Left(path))
    BY <1>1, <2>2, EmptySeq
  <2>5. Char(Left(path), 0) = Char(path, t)
    BY <1>1, <2>2
  <2>6. CASE f > 0
    <3>1. 0 \in 0..(f - 1) /\ t \in 0..(f - 1)
      BY <1>1, <2>6
    <3>2. IsSep(path, 0) /\ IsSep(path, t)
      BY <1>1, <3>1
    <3>3. QED
      BY <2>2, <2>3, <2>4, <2>5, <3>2 DEF Absolute, IsSep
  <2>7. CASE f = 0
    <3>1. t = 0 /\ 0 < Len(path)
      BY <1>1, <1>3, <1>5, <2>7
    <3>2. QED
      BY <2>2, <2>3, <2>4, <2>5, <3>1 DEF Absolute, IsSep
  <2>8. QED
    BY <1>1, <2>6, <2>7
<1>6. QED
  BY <1>4, <1>5

LEMMA RightIs ==
    ASSUME NEW path \in Path
    PROVE  /\ Right(path) \in Path /\ Names(Right(path)) = Names(path)
           /\ ~(Skipped(path) < Len(path)) => Right(path) = <<>>
<1> DEFINE e == TrimEnd(path)
           t == TrimStart(path)
           f == FirstName(path)
           s == Skipped(path)
<1>1. /\ e \in Nat /\ f \in 0..e /\ t \in 0..e
      /\ path # <<>> => e < Len(path)
      /\ path = <<>> => e = 0
      /\ \A j \in (e + 1)..(Len(path) - 1) : IsSep(path, j)
      /\ \A j \in 0..(f - 1) : IsSep(path, j)
      /\ f > 0 => f = t + 1
      /\ f = 0 => t = 0
  BY TrimIs
<1>2. Right(path) = Slice(path, s, e + 1)
  BY DEF Right
<1>3. s = IF IsSep(path, t) THEN t + 1 ELSE t
  BY DEF Skipped
<1> HIDE DEF e, t, f, s
<1>4. Len(path) \in Nat /\ (path = <<>> <=> Len(path) = 0)
  BY LenProperties, EmptySeq DEF Path
<1>5. CASE path = <<>>
  <2>1. s = 0 /\ Slice(path, s, e + 1) = SubSeq(path, 1, 0)
    BY <1>1, <1>3, <1>4, <1>5 DEF Slice, IsSep
  <2>2. SubSeq(path, 1, 0) = <<>>
    BY SubSeqEmpty
  <2>3. QED
    BY <1>2, <1>5, <2>1, <2>2
<1>6. CASE path # <<>>
  <2>1. s \in Nat /\ s \in 0..Len(path) /\ e + 1 \in s..Len(path)
    BY <1>1, <1>3, <1>4, <1>6
  <2>2. ASSUME NEW j \in 0..(s - 1) PROVE IsSep(path, j)
    <3>1. j \in 0..(f - 1) \/ (j = t /\ s = t + 1)
      BY <1>1, <1>3
    <3>2. QED
      BY <1>1, <1>3, <3>1
  <2>3. Right(path) \in Path /\ Len(Right(path)) = e + 1 - s
    <3> DEFINE n == e + 1
    <3> HIDE DEF n
    <3>1. s \in Nat /\ n \in s..Len(path) /\ Right(path) = Slice(path, s, n)
      BY <1>2, <2>1 DEF n
    <3>2. Right(path) \in Path /\ Len(Right(path)) = n - s
      BY <3>1, SliceIs
    <3>3. QED
      BY <1>1, <2>1, <3>2 DEF n
  <2>4. Names(Right(path)) = Names(path)
    BY <1>1, <1>2, <2>1, <2>2, MiddleNames
  <2>5. ASSUME ~(s < Len(path)) PROVE Right(path) = <<>>
    <3>1. Len(Right(path)) = 0
      <4>1. e + 1 = s
        BY <1>1, <1>4, <2>1, <2>5
      <4>2. QED
        BY <1>1, <2>1, <2>3, <4>1
    <3>2. QED
      BY <2>3, <3>1, EmptySeq DEF Path
  <2>6. QED
    BY <2>3, <2>4, <2>5 DEF s
<1>7. QED
  BY <1>5, <1>6

\* A joined path leads along the names of both, from where the first begins.
LEMMA ConcatIs ==
    ASSUME NEW p \in Path, NEW q \in Path
    PROVE  /\ Concat(p, q) \in Path /\ Names(Concat(p, q)) = Names(p) \o Names(q)
           /\ p # <<>> => (Absolute(Concat(p, q)) <=> Absolute(p))
<1> DEFINE L == Left(p)
           J == Joint(p, q)
           R == Right(q)
           K == L \o J
<1>1. /\ L \in Path /\ Names(L) = Names(p) /\ R \in Path /\ Names(R) = Names(q)
      /\ J \in Path /\ Names(p) \in Seq(Path)
  BY LeftIs, RightIs, ArgsArePaths, NamesArePlaces DEF Joint
<1>2. Concat(p, q) = K \o R
  BY DEF Concat
<1>3. /\ K \in Path /\ Len(K) = Len(L) + Len(J)
      /\ \A i \in 1..(Len(L) + Len(J)) : K[i] = IF i <= Len(L) THEN L[i] ELSE J[i - Len(L)]
  <2> HIDE DEF L, J
  <2>1. QED
    BY <1>1, ConcatProperties DEF Path
<1>4. /\ K \o R \in Path /\ Len(K \o R) = Len(K) + Len(R)
      /\ \A i \in 1..(Len(K) + Len(R)) : (K \o R)[i] = IF i <= Len(K) THEN K[i] ELSE R[i - Len(K)]
  <2>1. K \in Seq(Chars) /\ R \in Seq(Chars)
    BY <1>1, <1>3 DEF Path
  <2> HIDE DEF K, R
  <2>2. QED
    BY <2>1, ConcatProperties DEF Path
<1>5. Names(K) = Names(p) /\ Meets(K, R)
  <2>1. CASE J = <<>>
    <3>1. K = L
      <4> HIDE DEF L, J
      <4>1. L \o <<>> = L
        BY <1>1, ConcatEmptySeq DEF Path
      <4>2. QED
        BY <2>1, <4>1
    <3>2. <<Sep>> # <<>>
      OBVIOUS
    <3>3. ~(L # <<>> /\ Last(L) # Sep /\ Skipped(q) < Len(q))
      BY <2>1, <3>2 DEF Joint
    <3>4. Meets(L, R)
      BY <3>3, RightIs DEF Meets
    <3>5. QED
      BY <1>1, <3>1, <3>4
  <2>2. CASE J # <<>>
    <3>1. J = <<Sep>>
      BY <2>2 DEF Joint
    <3>2. Len(J) = 1 /\ J[1] = Sep
      BY <3>1
    <3>3. Names(J) = <<>>
      <4>1. \A i \in 0..(Len(J) - 1) : IsSep(J, i)
        BY <3>2 DEF IsSep, Char
      <4> HIDE DEF J
      <4>2. QED
        BY <1>1, <4>1, OnlySeparators
    <3>4. Meets(L, J)
      BY <3>2 DEF Meets
    <3> HIDE DEF L, J
    <3>5. Names(K) = Names(L) \o Names(J)
      BY <1>1, <3>4, NamesJoin DEF Path
    <3>6. Names(p) \o <<>> = Names(p)
      BY <1>1, ConcatEmptySeq
    <3>7. Len(L) \in Nat
      BY <1>1, LenProperties DEF Path
    <3>8. Last(K) = Sep
      BY <1>3, <3>2, <3>7 DEF Last
    <3>9. QED
      BY <1>1, <3>3, <3>5, <3>6, <3>8 DEF Meets
  <2>3. QED
    BY <2>1, <2>2
<1>6. Names(K \o R) = Names(p) \o Names(q)
  <2> HIDE DEF K, R
  <2>1. QED
    BY <1>1, <1>3, <1>5, NamesJoin DEF Path
<1>7. ASSUME p # <<>> PROVE Absolute(K \o R) <=> Absolute(p)
  <2>1. L # <<>> /\ (Absolute(L) <=> Absolute(p))
    BY <1>7, LeftIs
  <2> HIDE DEF L, J, R
  <2>2. Len(L) \in Nat \ {0} /\ Len(J) \in Nat /\ Len(R) \in Nat
    BY <1>1, <2>1, LenProperties, EmptySeq DEF Path
  <2>3. K[1] = L[1] /\ Len(K) > 0
    BY <1>3, <2>2
  <2> HIDE DEF K
  <2>4. (K \o R)[1] = L[1] /\ Len(K \o R) > 0
    BY <1>3, <1>4, <2>2, <2>3
  <2>5. QED
    BY <2>1, <2>2, <2>4 DEF Absolute, IsSep, Char
<1>8. QED
  BY <1>2, <1>4, <1>6, <1>7

-----------------------------------------------------------------------------
(* The name of a place from the top, and climbing: what they return.       *)

LEMMA WholeGrows ==
    ASSUME NEW names \in Seq(Path)
    PROVE  /\ Whole(names) \in [0..Len(names) -> Path]
           /\ Whole(names)[0] = <<>>
           /\ \A n \in 1..Len(names) : Whole(names)[n] = Whole(names)[n - 1] \o <<Sep>> \o names[n]
<1> DEFINE N == Len(names)
           Good(u) == u = [n \in 0..N |-> IF n = 0 THEN <<>> ELSE u[n - 1] \o <<Sep>> \o names[n]]
           step == [pair \in (1..N) \X Path |-> pair[2] \o <<Sep>> \o names[pair[1]]]
           whole == Whole(names)
<1>1. N \in Nat /\ <<>> \in Path
  BY LenProperties, ArgsArePaths
<1>2. ASSUME NEW n \in 1..N, NEW p \in Path PROVE p \o <<Sep>> \o names[n] \in Path
  <2>1. names[n] \in Path /\ <<Sep>> \in Path
    BY ElementOfSeq, ArgsArePaths
  <2>2. p \o <<Sep>> \in Path
    BY <2>1, ConcatProperties DEF Path
  <2>3. QED
    BY <2>1, <2>2, ConcatProperties DEF Path
<1>3. step \in [(1..N) \X Path -> Path]
  BY <1>2
<1>4. PICK f \in Steps(N, Path, <<>>, step) : TRUE
  <2> HIDE DEF step
  <2>1. QED
    BY <1>1, <1>3, StepsExist
<1>5. /\ f \in [0..N -> Path] /\ f[0] = <<>>
      /\ \A n \in 1..N : f[n] = step[<<n, f[n - 1]>>]
  BY <1>4 DEF Steps
<1>6. ASSUME NEW n \in 1..N PROVE f[n] = f[n - 1] \o <<Sep>> \o names[n]
  <2>1. n - 1 \in 0..N
    BY <1>1
  <2>2. <<n, f[n - 1]>> \in (1..N) \X Path
    BY <1>5, <2>1
  <2>3. QED
    BY <1>5, <2>2
<1> HIDE DEF step
<1>7. Good(f)
  <2>1. \A n \in 0..N : n # 0 => n \in 1..N
    BY <1>1
  <2>2. QED
    BY <1>5, <1>6, <2>1
<1>8. whole = CHOOSE u : Good(u)
  BY DEF Whole
<1>9. Good(whole)
  <2> HIDE DEF whole
  <2>1. QED
    BY <1>7, <1>8
<1> HIDE DEF whole
<1> DEFINE S == {n \in 0..N : whole[n] = f[n]}
<1>10. 0 \in S
  BY <1>1, <1>5, <1>9
<1>11. ASSUME NEW n \in 0..(N - 1), n \in S PROVE n + 1 \in S
  <2>1. n + 1 \in 1..N /\ n + 1 \in 0..N /\ n + 1 # 0 /\ (n + 1) - 1 = n /\ whole[n] = f[n]
    BY <1>1, <1>11
  <2>2. f[n + 1] = f[n] \o <<Sep>> \o names[n + 1]
    BY <1>6, <2>1
  <2>3. whole[n + 1] = whole[n] \o <<Sep>> \o names[n + 1]
    BY <1>9, <2>1
  <2>4. QED
    BY <2>1, <2>2, <2>3
<1>12. 0..N \subseteq S
  <2> HIDE DEF S
  <2>1. QED
    BY <1>1, <1>10, <1>11, BoundedInduction
<1>13. whole = f
  BY <1>5, <1>9, <1>12
<1>14. QED
  BY <1>5, <1>6, <1>13 DEF whole

LEMMA RealIsPath ==
    ASSUME NEW path \in Path
    PROVE  Real(path) \in Path
<1>1. Names(path) \in Seq(Path) /\ Len(Names(path)) \in 0..Len(Names(path))
  BY NamesArePlaces, LenProperties
<1>2. Whole(Names(path))[Len(Names(path))] \in Path
  BY <1>1, WholeGrows
<1>3. QED
  BY <1>2, ArgsArePaths DEF Real

LEMMA CardPathIs ==
    ASSUME NEW deck \in Path, NEW card \in Path, NEW size \in Nat
    PROVE  LET o == CardPath(deck, card, Ext, size)
           IN  o.needed \in Nat /\ o.text \in Path
<1>1. Concat(deck, card) \in Path /\ Ext \in Path
  BY ConcatIs, ArgsArePaths
<1>2. Stored(Concat(deck, card), size) \in Path
  BY <1>1, StoredIs
<1>3. Concat(deck, card) \o Ext \in Path
  <2> DEFINE c == Concat(deck, card)
  <2> HIDE DEF c
  <2>1. c \in Seq(Chars) /\ Ext \in Seq(Chars)
    BY <1>1 DEF c, Path
  <2>2. c \o Ext \in Seq(Chars)
    BY <2>1, ConcatProperties
  <2>3. QED
    BY <2>2 DEF c, Path
<1>4. Len(Concat(deck, card) \o Ext) \in Nat
  BY <1>3, LenProperties DEF Path
<1>5. QED
  BY <1>2, <1>3, <1>4 DEF CardPath

LEMMA FullIs ==
    ASSUME NEW path \in Path, NEW cwd \in Path, NEW size \in Nat
    PROVE  LET o == GetFull(cwd, path, size, Real(Asked(cwd, path, size)))
           IN  o.needed \in Nat /\ o.text \in Path
<1>1. Concat(cwd, path) \in Path
  BY ConcatIs, ArgsArePaths
<1>2. Asked(cwd, path, size) \in Path /\ Stored(Concat(cwd, path), size) \in Path
  BY <1>1, StoredIs DEF Asked
<1>3. Real(Asked(cwd, path, size)) \in Path
  BY <1>2, RealIsPath
<1>4. /\ Len(Concat(cwd, path)) \in Nat /\ Len(Real(Asked(cwd, path, size))) \in Nat
  BY <1>1, <1>3, LenProperties DEF Path
<1>5. QED
  BY <1>2, <1>3, <1>4, ArgsArePaths DEF GetFull

LEMMA BackIs ==
    ASSUME NEW path \in Path, NEW i \in -1..(Len(path) - 1)
    PROVE  /\ BackToName(path, i) \in -1..i
           /\ BackToName(path, i) >= 0 => ~IsSep(path, BackToName(path, i))
           /\ \A j \in 0..i : j > BackToName(path, i) => IsSep(path, j)
           /\ BackToSep(path, i) \in -1..i
           /\ BackToSep(path, i) >= 0 => IsSep(path, BackToSep(path, i))
           /\ \A j \in 0..i : j > BackToSep(path, i) => ~IsSep(path, j)
<1> DEFINE S == {-1} \cup {j \in 0..i : ~IsSep(path, j)}
           T == {-1} \cup {j \in 0..i : IsSep(path, j)}
<1>1. Len(path) \in Nat
  BY LenProperties DEF Path
<1>2. S # {} /\ (\A x \in S : x \in Int /\ x <= i) /\ T # {} /\ (\A x \in T : x \in Int /\ x <= i)
  BY <1>1
<1>3. Greatest(S) \in S /\ (\A j \in S : j <= Greatest(S))
  <2> HIDE DEF S
  <2>1. QED
    BY <1>1, <1>2, GreatestIs
<1>4. Greatest(T) \in T /\ (\A j \in T : j <= Greatest(T))
  <2> HIDE DEF T
  <2>1. QED
    BY <1>1, <1>2, GreatestIs
<1>5. BackToName(path, i) = Greatest(S) /\ BackToSep(path, i) = Greatest(T)
  BY DEF BackToName, BackToSep
<1> DEFINE g == Greatest(S)
           h == Greatest(T)
<1>6. g \in S /\ (\A j \in S : j <= g) /\ h \in T /\ (\A j \in T : j <= h)
  BY <1>3, <1>4
<1> HIDE DEF g, h
<1>7. g \in -1..i /\ (g >= 0 => ~IsSep(path, g)) /\ h \in -1..i /\ (h >= 0 => IsSep(path, h))
  BY <1>1, <1>6
<1>8. ASSUME NEW j \in 0..i PROVE (j > g => IsSep(path, j)) /\ (j > h => ~IsSep(path, j))
  BY <1>1, <1>6, <1>7
<1>9. QED
  BY <1>5, <1>7, <1>8 DEF g, h

-----------------------------------------------------------------------------
(* The inductive invariant.                                                *)

Creates == {"dir_create", "file_create"}
AllAlong(path) == Prefixes(Names(path)) \subseteq dirs
Behind(path, i) == i = 0 \/ i = Len(path) \/ IsSep(path, i - 1)

FilesTypes ==
    /\ Grown(dirs, DOMAIN files)
    /\ op.path \in Path /\ op.size \in Nat /\ making \in Path /\ at \in Int
    /\ op.kind # "set_content" => op.other \in Path
    /\ fpc \in {"component", "mkdir"} => at \in 0..Len(making) /\ Behind(making, at)
    /\ fpc = "mkdir" => at < Len(making)
    /\ fpc = "climb" => /\ op.path # <<>> /\ at \in 0..Len(op.path)
                        /\ at = Len(op.path) \/ IsSep(op.path, at)
    /\ ok \in BOOLEAN /\ result \in BOOLEAN /\ faulty \in BOOLEAN
    /\ alive \in {"running", "aborted", "crashed"}
    /\ out.needed \in Nat /\ ops \in 0..MaxOps /\ changes \in 0..MaxChanges
    /\ before.changes \in Nat /\ before.changes <= changes

\* Which call is at which of its steps.
InCall ==
    /\ fpc \in {"idle", "component", "mkdir", "verify", "open", "write", "read", "length",
                "rmdir", "unlink", "rename", "climb"}
    /\ fpc \in {"component", "mkdir", "verify"} => op.kind \in Creates
    /\ fpc = "open" => op.kind = "file_create"
    /\ fpc = "write" => op.kind = "set_content"
    /\ fpc = "read" => op.kind = "get_content"
    /\ fpc = "length" => op.kind = "get_length"
    /\ fpc \in {"rmdir", "unlink"} => op.kind = "remove"
    /\ fpc = "rename" => op.kind = "move"
    /\ fpc = "climb" => op.kind = "climb"
    /\ fpc # "idle" /\ op.kind = "dir_create" => making = op.path
    /\ fpc # "idle" /\ op.kind = "file_create" =>
          /\ op.path # <<>> /\ Last(op.path) # Sep /\ making = ParentOf(op.path)
          /\ ~Was(Names(op.path))

\* The directory that is to be reported as made is there, and the file that
\* is to be opened.
JustMade ==
    /\ (fpc = "component" /\ at = Len(making) /\ ok) \/ fpc = "verify" =>
          making # <<>> /\ (Quiet => Names(making) \in dirs)
    /\ fpc = "length" /\ Quiet =>
          op.path # <<>> /\ Names(op.path) \in DOMAIN files /\ Last(op.path) # Sep

\* As far as a creation has come, if nothing has gone wrong.
Undisturbed == Quiet /\ ~faulty /\ op.kind \in Creates
MadeSoFar(path) == /\ dirs = before.dirs \cup Prefixes(Names(path)) /\ files = before.files
                   /\ AllAlong(path)
Exactly == ok = (making # <<>> /\ ~EndsTwice(making) /\ ~Was(Names(making)))
SoFar ==
    Undisturbed =>
        /\ fpc \in {"component", "mkdir"} => MadeSoFar(Slice(making, 0, at))
        /\ fpc = "mkdir" => Names(Component) \notin DOMAIN files
        /\ fpc = "component" /\ at = Len(making) => Exactly
        /\ fpc = "verify" => MadeSoFar(making) /\ Exactly /\ ok
        /\ fpc = "open" => /\ MadeSoFar(making) \/ FileInTheWay(making)
                           /\ files = before.files

FilesIInv == FilesTypes /\ InCall /\ JustMade /\ EndedByOthers

\* What is reported as made was not there.
NotThere == (fpc = "component" /\ at = Len(making) /\ ok) \/ fpc = "verify" =>
               (Quiet => ~Was(Names(making)))

\* The top directory was there.
TopWas == <<>> \in before.dirs

CreatesIInv == /\ TopWas /\ NotThere /\ SoFar
               /\ OnlyThePathAdded /\ DirCreateAnswers /\ FileCreateAnswers

-----------------------------------------------------------------------------
(* What the system calls leave is a tree.                                  *)

LEMMA AddDir ==
    ASSUME NEW D, NEW F, Grown(D, F), NEW place \in Place, place \notin D \cup F, Front(place) \in D
    PROVE  Grown(D \cup {place}, F)
  BY DEF Grown, IsTree

LEMMA AddFile ==
    ASSUME NEW D, NEW F, Grown(D, F), NEW place \in Place, place \notin D, Front(place) \in D
    PROVE  Grown(D, F \cup {place})
  BY DEF Grown, IsTree

LEMMA TakeAway ==
    ASSUME NEW D, NEW F, Grown(D, F), NEW place, place # <<>>,
           \A q \in D \cup F : q # <<>> => Front(q) # place
    PROVE  Grown(D \ {place}, F \ {place})
  BY DEF Grown, IsTree

\* What a path leads to.
LEMMA KindIs ==
    ASSUME Grown(dirs, DOMAIN files), NEW path
    PROVE  /\ Kind(path) \in {"none", "dir", "file"}
           /\ Kind(path) = "dir" <=> path # <<>> /\ Names(path) \in dirs
           /\ Kind(path) = "file" <=> path # <<>> /\ Names(path) \in DOMAIN files /\ Last(path) # Sep
<1>1. dirs \cap DOMAIN files = {}
  BY DEF Grown, IsTree
<1> DEFINE n == Names(path)
           l == Last(path)
<1>2. Kind(path) = CASE path = <<>> -> "none"
                     [] path # <<>> /\ n \in dirs -> "dir"
                     [] path # <<>> /\ n \in DOMAIN files /\ l # Sep -> "file"
                     [] OTHER -> "none"
  BY DEF Kind
<1> HIDE DEF n, l
<1>3. /\ Kind(path) \in {"none", "dir", "file"}
      /\ Kind(path) = "dir" <=> path # <<>> /\ n \in dirs
      /\ Kind(path) = "file" <=> path # <<>> /\ n \in DOMAIN files /\ l # Sep
  <2>1. CASE path = <<>>
    BY <2>1, <1>1, <1>2
  <2>2. CASE path # <<>> /\ n \in dirs
    BY <2>2, <1>1, <1>2
  <2>3. CASE path # <<>> /\ n \in DOMAIN files /\ l # Sep
    BY <2>3, <1>1, <1>2
  <2>4. CASE ~(path = <<>>) /\ ~(n \in dirs) /\ ~(n \in DOMAIN files /\ l # Sep)
    BY <2>4, <1>1, <1>2
  <2> QED BY <2>1, <2>2, <2>3, <2>4
<1> QED BY <1>3 DEF n, l

\* A parent, and a path's beginning that ends where a name does.
LEMMA ParentIs ==
    ASSUME NEW path \in Path
    PROVE  \E k \in 0..Len(path) : /\ ParentOf(path) = Slice(path, 0, k)
                                   /\ k = 0 \/ IsSep(path, k)
                                   /\ \A j \in (k + 1)..(Len(path) - 1) : ~IsSep(path, j)
<1> DEFINE N == Len(path)
           S == {0} \cup {j \in 0..(N - 1) : IsSep(path, j)}
           k == Greatest(S)
<1>1. N \in Nat
  BY DEF Path
<1>2. S # {} /\ N \in Int /\ \A x \in S : x \in Int /\ x <= N
  BY <1>1
<1>3. k \in S /\ \A j \in S : j <= k
  <2> HIDE DEF S
  <2> QED BY <1>2, GreatestIs
<1>4. ParentOf(path) = Slice(path, 0, k)
  BY DEF ParentOf
<1> HIDE DEF k
<1>5. k \in 0..N /\ (k = 0 \/ IsSep(path, k))
  BY <1>1, <1>3
<1>6. \A j \in (k + 1)..(N - 1) : ~IsSep(path, j)
  BY <1>1, <1>3, <1>5
<1> QED BY <1>4, <1>5, <1>6

-----------------------------------------------------------------------------
(* The tree, the offsets and the survival of the program.                  *)

LEMMA FilesBegin == FilesInit => FilesIInv
<1> SUFFICES ASSUME FilesInit PROVE FilesIInv
  OBVIOUS
<1>1. <<>> \in Path
  BY ArgsArePaths
<1>2. PICK t \in InitialTrees : dirs = t.dirs /\ files = t.files
  BY DEF FilesInit
<1>3. Grown(dirs, DOMAIN files)
  <2>1. IsTree(dirs, DOMAIN files)
    BY <1>2, TreesAssumption
  <2>2. dirs \cup DOMAIN files \subseteq Place
    BY <1>2, PlacesThere
  <2> QED BY <2>1, <2>2 DEF Grown
<1>4. FilesTypes
  <2>1. /\ op.path = <<>> /\ op.size = 0 /\ op.other = <<>> /\ fpc = "idle" /\ making = <<>>
        /\ at = 0 /\ ok = FALSE /\ result = FALSE /\ out.needed = 0 /\ alive = "running"
        /\ ops = 0 /\ changes = 0 /\ faulty = FALSE /\ before.changes = 0
    BY DEF FilesInit, NoOp, NoOut
  <2>2. 0 \in 0..MaxOps /\ 0 \in 0..MaxChanges /\ 0 \in Nat /\ 0 <= 0 /\ 0 \in Int
    BY BoundsAssumption
  <2> QED BY <1>1, <1>3, <2>1, <2>2 DEF FilesTypes
<1>5. InCall /\ JustMade /\ EndedByOthers
  BY DEF FilesInit, InCall, JustMade, EndedByOthers, NoOp, Creates
<1> QED BY <1>4, <1>5 DEF FilesIInv

\* What every call keeps.
LEMMA EntersIs ==
    ASSUME FilesTypes, NEW kind, NEW path \in Path, NEW other, NEW size \in Nat,
           kind # "set_content" => other \in Path, Enters(kind, path, other, size)
    PROVE  /\ fpc = "idle" /\ alive = "running" /\ alive' = "running"
           /\ Grown(dirs, DOMAIN files)' /\ dirs' = dirs /\ files' = files
           /\ op'.kind = kind /\ op'.path = path /\ op'.other = other /\ op'.size = size
           /\ ok' = FALSE /\ faulty' = faulty /\ faulty' \in BOOLEAN
           /\ changes' = changes /\ changes' \in 0..MaxChanges
           /\ before' = [dirs |-> dirs, files |-> files, changes |-> changes]
           /\ before'.changes \in Nat /\ before'.changes <= changes'
           /\ ops \in 0..MaxOps /\ ops < MaxOps
<1>1. fpc = "idle" /\ alive = "running" /\ alive' = "running" /\ dirs' = dirs /\ files' = files
  BY DEF Enters, Running, tree
<1>2. /\ op' = [kind |-> kind, path |-> path, other |-> other, size |-> size]
      /\ ok' = FALSE /\ faulty' = faulty /\ changes' = changes
      /\ before' = [dirs |-> dirs, files |-> files, changes |-> changes] /\ ops < MaxOps
  BY DEF Enters
<1>3. /\ Grown(dirs, DOMAIN files) /\ faulty \in BOOLEAN /\ changes \in 0..MaxChanges
      /\ ops \in 0..MaxOps
  BY DEF FilesTypes
<1>4. Grown(dirs, DOMAIN files)'
  BY <1>1, <1>3 DEF Grown, IsTree
<1> QED BY <1>1, <1>2, <1>3, <1>4, BoundsAssumption

\* The step of every call that is refused, or is done at once, or goes on at
\* one of the system calls that need nothing but its kind.
LEMMA SimpleCall ==
    ASSUME FilesIInv, NEW kind, NEW path \in Path, NEW other, NEW size \in Nat,
           kind # "set_content" => other \in Path, Enters(kind, path, other, size),
           kind \notin Creates, ops' \in 0..MaxOps, out'.needed \in Nat, result' \in BOOLEAN,
           making' = making, at' = at,
           \/ fpc' = "idle"
           \/ fpc' = "write" /\ kind = "set_content"
           \/ fpc' = "read" /\ kind = "get_content"
           \/ fpc' = "length" /\ kind = "get_length" /\ Kind(path) = "file"
           \/ fpc' \in {"rmdir", "unlink"} /\ kind = "remove"
           \/ fpc' = "rename" /\ kind = "move"
    PROVE  FilesIInv'
<1>1. FilesTypes /\ making \in Path /\ at \in Int
  BY DEF FilesIInv, FilesTypes
<1> DEFINE Simple == /\ fpc' \in {"idle", "write", "read", "length", "rmdir", "unlink", "rename"}
                     /\ fpc' = "write" => kind = "set_content"
                     /\ fpc' = "read" => kind = "get_content"
                     /\ fpc' = "length" => kind = "get_length" /\ Kind(path) = "file"
                     /\ fpc' \in {"rmdir", "unlink"} => kind = "remove"
                     /\ fpc' = "rename" => kind = "move"
<1>2. Simple
  OBVIOUS
<1>3. /\ alive' = "running"
      /\ Grown(dirs, DOMAIN files)' /\ dirs' = dirs /\ files' = files
      /\ op'.kind = kind /\ op'.path = path /\ op'.other = other /\ op'.size = size
      /\ ok' = FALSE /\ faulty' \in BOOLEAN
      /\ changes' \in 0..MaxChanges
      /\ before'.changes \in Nat /\ before'.changes <= changes'
  BY <1>1, EntersIs
<1>4. FilesTypes'
  BY <1>1, <1>2, <1>3 DEF FilesTypes
<1>5. InCall'
  BY <1>2, <1>3 DEF InCall, Creates
<1>6. Kind(path) = "file" => path # <<>> /\ Names(path) \in DOMAIN files /\ Last(path) # Sep
  BY <1>1, KindIs DEF FilesTypes
<1>7. JustMade'
  BY <1>2, <1>3, <1>6 DEF JustMade
<1>8. EndedByOthers'
  BY <1>3 DEF EndedByOthers
<1> QED BY <1>4, <1>5, <1>7, <1>8 DEF FilesIInv

LEMMA CreationsKeep ==
    ASSUME FilesIInv, NEW path \in Path, DirCreate(path) \/ FileCreate(path)
    PROVE  FilesIInv'
<1>1. FilesTypes /\ <<>> \in Path
  BY ArgsArePaths DEF FilesIInv
<1>2. PICK kind : /\ Begins(kind, path, <<>>, 0)
                  /\ \/ kind = "dir_create" /\ Makes(path)
                     \/ /\ kind = "file_create"
                        /\ IF Creatable(path) THEN Makes(ParentOf(path)) ELSE Refuse
  <2>1. CASE DirCreate(path)
    BY <2>1, Zenon DEF DirCreate
  <2>2. CASE FileCreate(path)
    BY <2>2, Zenon DEF FileCreate
  <2> QED BY <2>1, <2>2
<1>3. Enters(kind, path, <<>>, 0) /\ ops' = ops + 1
  BY <1>2 DEF Begins
<1>4. kind \in {"dir_create", "file_create"}
  BY <1>2
<1>5. /\ fpc = "idle" /\ alive' = "running"
      /\ Grown(dirs, DOMAIN files)' /\ dirs' = dirs /\ files' = files
      /\ op'.kind = kind /\ op'.path = path /\ op'.other = <<>> /\ op'.size = 0
      /\ ok' = FALSE /\ faulty' \in BOOLEAN
      /\ changes' \in 0..MaxChanges
      /\ before' = [dirs |-> dirs, files |-> files, changes |-> changes]
      /\ before'.changes \in Nat /\ before'.changes <= changes'
      /\ ops \in 0..MaxOps /\ ops < MaxOps
  <2> QED BY <1>1, <1>3, EntersIs
<1>6. ops' \in 0..MaxOps
  BY <1>3, <1>5, BoundsAssumption
<1>7. EndedByOthers'
  BY <1>5 DEF EndedByOthers
<1>8. CASE fpc' = "idle" /\ Refuse
  <2>1. making' = making /\ at' = at /\ out'.needed = 0 /\ result' = FALSE /\ making \in Path /\ at \in Int
    BY <1>1, <1>8 DEF Refuse, NoOut, FilesTypes
  <2>4. /\ op'.size \in Nat /\ out'.needed \in Nat /\ ok' \in BOOLEAN /\ result' \in BOOLEAN
        /\ op'.other \in Path /\ op'.path \in Path /\ making' \in Path /\ at' \in Int
    <3>1. op'.size \in Nat
      BY <1>5
    <3>2. out'.needed \in Nat
      BY <2>1
    <3>3. ok' \in BOOLEAN /\ result' \in BOOLEAN
      BY <1>5, <2>1
    <3>4. op'.other \in Path
      BY <1>1, <1>5
    <3>5. op'.path \in Path /\ making' \in Path /\ at' \in Int
      BY <1>1, <1>5, <2>1
    <3> QED BY <3>1, <3>2, <3>3, <3>4, <3>5
  <2>2. FilesTypes'
    BY <1>5, <1>6, <1>8, <2>4 DEF FilesTypes
  <2>3. InCall' /\ JustMade'
    BY <1>5, <1>8 DEF InCall, JustMade, Creates
  <2> QED BY <1>7, <2>2, <2>3 DEF FilesIInv
<1>9. ASSUME NEW made \in Path, Makes(made), kind = "dir_create" => made = path,
             kind = "file_create" => made = ParentOf(path) /\ Creatable(path)
      PROVE  FilesIInv'
  <2>1. making' = made /\ at' = 0 /\ fpc' = "component" /\ out'.needed = 0 /\ result' = result
    BY <1>9 DEF Makes, NoOut
  <2>2. Len(made) \in Nat /\ 0 \in 0..Len(made) /\ result \in BOOLEAN
    BY <1>1, <1>9 DEF Path, FilesTypes
  <2>7. /\ op'.size \in Nat /\ out'.needed \in Nat /\ ok' \in BOOLEAN /\ result' \in BOOLEAN
        /\ op'.other \in Path /\ op'.path \in Path /\ making' \in Path /\ at' \in Int
        /\ at' \in 0..Len(making') /\ at' = 0
    <3>1. op'.size \in Nat
      BY <1>5
    <3>2. out'.needed \in Nat
      BY <2>1
    <3>3. ok' \in BOOLEAN /\ result' \in BOOLEAN
      BY <1>5, <2>1, <2>2
    <3>4. op'.other \in Path
      BY <1>1, <1>5
    <3>5. op'.path \in Path /\ making' \in Path /\ at' \in Int
      BY <1>5, <1>9, <2>1
    <3>6. at' \in 0..Len(making') /\ at' = 0
      BY <2>1, <2>2
    <3> QED BY <3>1, <3>2, <3>3, <3>4, <3>5, <3>6
  <2>3. FilesTypes'
    BY <1>5, <1>6, <2>1, <2>7 DEF FilesTypes, Behind
  <2>4. kind = "file_create" => path # <<>> /\ Last(path) # Sep /\ ~Was(Names(path))'
    <3>1. Names(path)' = Names(path)
      OBVIOUS
    <3>2. Creatable(path) => /\ path # <<>> /\ Last(path) # Sep
                             /\ Names(path) \notin dirs /\ Names(path) \notin DOMAIN files
      BY <1>1, KindIs DEF FilesTypes, Creatable
    <3> QED BY <1>5, <1>9, <3>2 DEF Was
  <2>5. InCall'
    BY <1>4, <1>5, <1>9, <2>1, <2>4 DEF InCall, Creates, Was
  <2>6. JustMade'
    BY <1>5, <2>1 DEF JustMade
  <2> QED BY <1>7, <2>3, <2>5, <2>6 DEF FilesIInv
<1>10. CASE kind = "dir_create" /\ Makes(path)
  BY <1>9, <1>10
<1>11. CASE kind = "file_create" /\ (IF Creatable(path) THEN Makes(ParentOf(path)) ELSE Refuse)
  <2>1. kind = "file_create" /\ (IF Creatable(path) THEN Makes(ParentOf(path)) ELSE Refuse)
    BY <1>11
  <2>2. CASE Creatable(path)
    <3>1. ParentOf(path) \in Path
      <4>1. PICK k \in 0..Len(path) : ParentOf(path) = Slice(path, 0, k)
        BY ParentIs
      <4> QED BY <4>1, Slices DEF Path
    <3> QED BY <1>9, <2>1, <2>2, <3>1
  <2>3. CASE ~Creatable(path)
    <3>1. fpc' = "idle" /\ Refuse
      BY <2>1, <2>3 DEF Refuse
    <3> QED BY <1>8, <3>1
  <2> QED BY <2>2, <2>3
<1> QED BY <1>2, <1>10, <1>11

LEMMA CallsKeep == FilesIInv /\ Calls => FilesIInv'
<1> SUFFICES ASSUME FilesIInv, Calls PROVE FilesIInv'
  OBVIOUS
<1>1. FilesTypes /\ <<>> \in Path /\ 0 \in Nat /\ NoOut.needed = 0
  BY ArgsArePaths DEF FilesIInv, NoOut
<1>2. ops \in 0..MaxOps /\ making \in Path /\ result \in BOOLEAN
  BY <1>1 DEF FilesTypes
<1>3. ASSUME NEW kind, NEW path, NEW other, NEW size, Begins(kind, path, other, size)
      PROVE  Enters(kind, path, other, size) /\ ops' \in 0..MaxOps
  <2>1. Enters(kind, path, other, size) /\ ops' = ops + 1 /\ ops < MaxOps
    BY <1>3 DEF Begins, Enters
  <2> QED BY <1>2, <2>1, BoundsAssumption
<1>4. ASSUME NEW kind, NEW path, NEW other, NEW size, Alone(kind, path, other, size)
      PROVE  Enters(kind, path, other, size) /\ ops' \in 0..MaxOps
  BY <1>4, BoundsAssumption DEF Alone
<1>5. PICK path \in Args :
         \/ DirCreate(path) \/ FileCreate(path)
         \/ \E text \in Texts : SetContent(path, text)
         \/ GetContent(path) \/ GetLength(path) \/ PathRemove(path)
         \/ \E new \in Args : PathMove(path, new)
         \/ \E other \in Args, size \in Sizes :
              Joins(path, other, size) \/ CardPaths(path, other, size)
         \/ \E cwd \in Cwds, size \in Sizes : FullPath(path, cwd, size)
         \/ Climbs(path)
  BY DEF Calls
<1>6. path \in Path
  BY ArgsArePaths
<1>7. CASE DirCreate(path) \/ FileCreate(path)
  BY <1>6, <1>7, CreationsKeep
<1>8. ASSUME NEW kind, NEW text, NEW next, OnFile(kind, path, text, next),
             kind # "set_content" => text = <<>>, kind \notin Creates,
             \/ kind = "set_content" /\ next = "write"
             \/ kind = "get_content" /\ next = "read"
             \/ kind = "get_length" /\ next = "length"
      PROVE  FilesIInv'
  <2>1. Enters(kind, path, text, 0) /\ ops' \in 0..MaxOps
    BY <1>3, <1>8 DEF OnFile
  <2>2. (Kind(path) = "file" /\ Goes(next)) \/ Refuse
    BY <1>8 DEF OnFile
  <2>3. /\ fpc' = "idle" \/ (fpc' = next /\ Kind(path) = "file")
        /\ out' = NoOut /\ making' = making /\ at' = at /\ result' \in BOOLEAN
    BY <1>2, <2>2 DEF Goes, Refuse
  <2> QED BY <1>1, <1>6, <1>8, <2>1, <2>3, SimpleCall
<1>9. CASE \E text \in Texts : SetContent(path, text)
  BY <1>8, <1>9 DEF SetContent, Creates
<1>10. CASE GetContent(path) \/ GetLength(path)
  BY <1>8, <1>10 DEF GetContent, GetLength, Creates
<1>11. CASE PathRemove(path)
  <2>1. Enters("remove", path, <<>>, 0) /\ ops' \in 0..MaxOps
    BY <1>3, <1>11 DEF PathRemove
  <2>2. Refuse \/ Goes("rmdir") \/ Goes("unlink")
    <3>1. Kind(path) \in {"none", "dir", "file"}
      BY <1>1, KindIs DEF FilesTypes
    <3>2. CASE Kind(path) = "none" /\ Kind(path) # "dir"
      BY <1>11, <3>2, Zenon DEF PathRemove
    <3>3. CASE Kind(path) = "dir" /\ Kind(path) # "none"
      BY <1>11, <3>3, Zenon DEF PathRemove
    <3>4. CASE Kind(path) # "none" /\ Kind(path) # "dir"
      BY <1>11, <3>4, Zenon DEF PathRemove
    <3> QED BY <3>1, <3>2, <3>3, <3>4
  <2>3. /\ fpc' \in {"idle", "rmdir", "unlink"}
        /\ out' = NoOut /\ making' = making /\ at' = at /\ result' \in BOOLEAN
    BY <1>2, <2>2 DEF Goes, Refuse
  <2> QED BY <1>1, <1>6, <2>1, <2>3, SimpleCall DEF Creates
<1>12. CASE \E new \in Args : PathMove(path, new)
  <2>1. PICK new \in Args : PathMove(path, new)
    BY <1>12
  <2>2. Enters("move", path, new, 0) /\ ops' \in 0..MaxOps /\ Goes("rename") /\ new \in Path
    BY <1>3, <2>1, ArgsArePaths DEF PathMove
  <2>3. fpc' = "rename" /\ out' = NoOut /\ making' = making /\ at' = at /\ result' \in BOOLEAN
    BY <1>2, <2>2 DEF Goes
  <2> QED BY <1>1, <1>6, <2>2, <2>3, SimpleCall DEF Creates
<1>13. ASSUME NEW kind \in {"concat", "card_path", "full"}, NEW other \in Path, NEW size \in Nat, NEW o,
              Alone(kind, path, other, size), Computes(o), o.needed \in Nat
       PROVE  FilesIInv'
  <2>1. Enters(kind, path, other, size) /\ ops' \in 0..MaxOps
    BY <1>4, <1>13
  <2>2. fpc' = "idle" /\ out' = o /\ making' = making /\ at' = at /\ result' \in BOOLEAN
    BY <1>13 DEF Computes
  <2> QED BY <1>6, <1>13, <2>1, <2>2, SimpleCall DEF Creates
<1>14. CASE \E other \in Args, size \in Sizes : Joins(path, other, size) \/ CardPaths(path, other, size)
  <2>1. PICK other \in Args, size \in Sizes : Joins(path, other, size) \/ CardPaths(path, other, size)
    BY <1>14
  <2>2. other \in Path /\ size \in Nat
    BY ArgsArePaths, BoundsAssumption
  <2>3. CASE Joins(path, other, size)
    <3> DEFINE o == [needed |-> Len(Concat(path, other)), text |-> Stored(Concat(path, other), size)]
    <3>1. Concat(path, other) \in Path
      BY <1>6, <2>2, ConcatIs
    <3>2. o.needed \in Nat
      BY <3>1 DEF Path
    <3>3. Alone("concat", path, other, size) /\ Computes(o)
      BY <2>3 DEF Joins
    <3> HIDE DEF o
    <3> QED BY <1>13, <2>2, <3>2, <3>3
  <2>4. CASE CardPaths(path, other, size)
    <3> DEFINE o == CardPath(path, other, Ext, size)
    <3>1. Alone("card_path", path, other, size) /\ Computes(o)
      BY <2>4 DEF CardPaths
    <3>2. o.needed \in Nat
      BY <1>6, <2>2, CardPathIs
    <3> HIDE DEF o
    <3> QED BY <1>13, <2>2, <3>1, <3>2
  <2> QED BY <2>1, <2>3, <2>4
<1>15. CASE \E cwd \in Cwds, size \in Sizes : FullPath(path, cwd, size)
  <2>1. PICK cwd \in Cwds, size \in Sizes : FullPath(path, cwd, size)
    BY <1>15
  <2>2. cwd \in Path /\ size \in Nat
    BY ArgsArePaths, BoundsAssumption
  <2> DEFINE o == GetFull(cwd, path, size, Real(Asked(cwd, path, size)))
  <2>3. Alone("full", path, cwd, size) /\ Computes(o)
    BY <2>1 DEF FullPath
  <2>4. o.needed \in Nat
    BY <1>6, <2>2, FullIs
  <2> HIDE DEF o
  <2> QED BY <1>1, <1>13, <2>2, <2>3, <2>4
<1>16. CASE Climbs(path)
  <2>1. Enters("climb", path, <<>>, 0) /\ ops' \in 0..MaxOps
    BY <1>4, <1>16 DEF Climbs
  <2>2. /\ path # <<>> /\ fpc' = "climb" /\ at' = Len(path) /\ out' = NoOut
        /\ making' = making /\ result' = result
    BY <1>16 DEF Climbs
  <2>3. /\ alive' = "running"
        /\ Grown(dirs, DOMAIN files)' /\ dirs' = dirs /\ files' = files
        /\ op'.kind = "climb" /\ op'.path = path /\ op'.other = <<>> /\ op'.size = 0
        /\ ok' = FALSE /\ faulty' \in BOOLEAN
        /\ changes' \in 0..MaxChanges
        /\ before'.changes \in Nat /\ before'.changes <= changes'
    BY <1>1, <1>6, <2>1, EntersIs
  <2>4. Len(path) \in Nat /\ at' \in 0..Len(path)
    BY <1>6, <2>2 DEF Path
  <2>7. /\ op'.size \in Nat /\ out'.needed \in Nat /\ ok' \in BOOLEAN /\ result' \in BOOLEAN
        /\ op'.other \in Path /\ op'.path \in Path /\ making' \in Path /\ at' \in Int
        /\ at' = Len(op'.path) /\ at' \in 0..Len(op'.path) /\ op'.path # <<>>
    <3>1. op'.size \in Nat
      BY <2>3
    <3>2. out'.needed \in Nat
      BY <1>1, <2>2
    <3>3. ok' \in BOOLEAN /\ result' \in BOOLEAN
      BY <1>2, <2>2, <2>3
    <3>4. op'.other \in Path
      BY <1>1, <2>3
    <3>5. op'.path \in Path /\ making' \in Path /\ at' \in Int
      BY <1>2, <1>6, <2>2, <2>3, <2>4
    <3>6. at' = Len(op'.path) /\ at' \in 0..Len(op'.path) /\ op'.path # <<>>
      BY <2>2, <2>3, <2>4
    <3> QED BY <3>1, <3>2, <3>3, <3>4, <3>5, <3>6
  <2>5. FilesTypes'
    BY <2>1, <2>2, <2>3, <2>7 DEF FilesTypes
  <2>6. InCall' /\ JustMade' /\ EndedByOthers'
    BY <2>2, <2>3 DEF InCall, JustMade, EndedByOthers, Creates
  <2> QED BY <2>5, <2>6 DEF FilesIInv
<1> QED BY <1>5, <1>7, <1>9, <1>10, <1>11, <1>12, <1>14, <1>15, <1>16

-----------------------------------------------------------------------------
(* The components of a path.                                               *)

LEMMA SamePath ==
    ASSUME NEW p \in Path, NEW q \in Path, Len(p) = Len(q),
           \A j \in 0..(Len(p) - 1) : Char(p, j) = Char(q, j)
    PROVE  p = q
<1>1. Len(p) \in Nat
  BY LenProperties DEF Path
<1>2. ASSUME NEW j \in 1..Len(p) PROVE p[j] = q[j]
  <2>1. j - 1 \in 0..(Len(p) - 1) /\ j - 1 + 1 = j
    BY <1>1
  <2>2. Char(p, j - 1) = Char(q, j - 1)
    BY <2>1
  <2> QED BY <2>1, <2>2 DEF Char
<1> QED BY <1>2, SeqEqual DEF Path

LEMMA WholeSlice ==
    ASSUME NEW path \in Path
    PROVE  Slice(path, 0, Len(path)) = path /\ Slice(path, 0, 0) = <<>>
<1>1. Len(path) \in Nat
  BY LenProperties DEF Path
<1>2. /\ Slice(path, 0, Len(path)) \in Path /\ Len(Slice(path, 0, Len(path))) = Len(path)
      /\ \A j \in 0..(Len(path) - 1) : Char(Slice(path, 0, Len(path)), j) = Char(path, j)
  BY <1>1, Slices DEF Path
<1>3. Slice(path, 0, 0) \in Path /\ Len(Slice(path, 0, 0)) = 0
  BY <1>1, Slices DEF Path
<1> QED BY <1>2, <1>3, SamePath, EmptySeq DEF Path

LEMMA SliceOfSlice ==
    ASSUME NEW path \in Path, NEW n \in 0..Len(path), NEW k \in 0..n
    PROVE  Slice(Slice(path, 0, n), 0, k) = Slice(path, 0, k)
<1>1. Len(path) \in Nat
  BY LenProperties DEF Path
<1> DEFINE P == Slice(path, 0, n)
           p == Slice(P, 0, k)
           q == Slice(path, 0, k)
<1>2. P \in Path /\ Len(P) = n /\ \A j \in 0..(n - 1) : Char(P, j) = Char(path, j)
  BY <1>1, Slices DEF Path
<1>3. q \in Path /\ Len(q) = k /\ \A j \in 0..(k - 1) : Char(q, j) = Char(path, j)
  <2>1. k \in 0..Len(path)
    BY <1>1
  <2> QED BY <2>1, Slices DEF Path
<1> HIDE DEF P
<1>4. p \in Path /\ Len(p) = k /\ \A j \in 0..(k - 1) : Char(p, j) = Char(P, j)
  BY <1>2, Slices DEF Path
<1> HIDE DEF p, q
<1>5. p = q
  <2>1. ASSUME NEW j \in 0..(Len(p) - 1) PROVE Char(p, j) = Char(q, j)
    <3>1. j \in 0..(k - 1) /\ j \in 0..(n - 1)
      BY <1>1, <1>4
    <3> QED BY <1>2, <1>3, <1>4, <3>1
  <2> QED BY <1>3, <1>4, <2>1, SamePath
<1> QED BY <1>5 DEF p, q, P

\* A path divided where a name ends or begins.
LEMMA SplitAt ==
    ASSUME NEW path \in Path, NEW k \in 0..Len(path), Behind(path, k) \/ IsSep(path, k)
    PROVE  /\ Names(path) = Names(Slice(path, 0, k)) \o Names(Slice(path, k, Len(path)))
           /\ Names(path) \in Place /\ Names(Slice(path, 0, k)) \in Place
           /\ IsPrefix(Names(Slice(path, 0, k)), Names(path))
<1> DEFINE p == Slice(path, 0, k)
           q == Slice(path, k, Len(path))
<1>1. Len(path) \in Nat
  BY LenProperties DEF Path
<1>2. /\ p \in Path /\ Len(p) = k /\ \A j \in 0..(k - 1) : Char(p, j) = Char(path, j)
      /\ q \in Path /\ Len(q) = Len(path) - k
      /\ \A j \in 0..(Len(path) - k - 1) : Char(q, j) = Char(path, k + j)
      /\ path = p \o q
  BY Slices DEF Path
<1> HIDE DEF p, q
<1>3. Meets(p, q)
  <2>1. CASE k = 0 \/ k = Len(path)
    BY <1>1, <1>2, <2>1, EmptySeq DEF Meets, Path
  <2>2. CASE k # 0 /\ IsSep(path, k - 1)
    <3>1. k - 1 \in 0..(k - 1) /\ k - 1 + 1 = k
      BY <1>1, <2>2
    <3>2. p[k] = Sep
      BY <1>2, <2>2, <3>1 DEF IsSep, Char
    <3> QED BY <1>2, <3>2 DEF Meets, Last
  <2>3. CASE IsSep(path, k)
    <3>1. 0 \in 0..(Len(path) - k - 1) /\ k + 0 = k
      BY <1>1, <2>3 DEF IsSep
    <3>2. Char(q, 0) = Sep
      BY <1>2, <2>3, <3>1 DEF IsSep
    <3> QED BY <3>2 DEF Meets, Char
  <2> QED BY <2>1, <2>2, <2>3 DEF Behind
<1>4. Names(path) = Names(p) \o Names(q)
  BY <1>2, <1>3, NamesJoin DEF Path
<1>5. Names(p) \in Place /\ Names(q) \in Place
  BY <1>2, NamesArePlaces
<1>6. Names(path) \in Place /\ IsPrefix(Names(p), Names(path))
  BY <1>4, <1>5, WithRest
<1> QED BY <1>4, <1>5, <1>6 DEF p, q

\* A path without a separator is one name.
LEMMA OneName ==
    ASSUME NEW w \in Path, \A j \in 0..(Len(w) - 1) : ~IsSep(w, j), w # <<>>
    PROVE  Names(w) = <<w>>
<1> DEFINE N == Len(w)
           start(n) == Slice(w, 0, n)
           S == {n \in 0..N : n > 0 => Along(w)[n] = <<start(n)>>}
<1>1. N \in Nat \ {0} /\ w \in Seq(Chars)
  BY EmptySeq DEF Path
<1>2. \A n \in 0..N : /\ start(n) \in Path /\ Len(start(n)) = n
                      /\ \A j \in 0..(n - 1) : Char(start(n), j) = Char(w, j)
  BY <1>1, Slices DEF Path
<1>3. ASSUME NEW n \in 1..N PROVE Along(w)[n] = Longer(w, n, Along(w)[n - 1])
  BY <1>1, AlongGrows
<1>4. 0 \in S
  BY <1>1
<1>5. ASSUME NEW n \in 0..(N - 1), n \in S PROVE n + 1 \in S
  <2>1. n + 1 \in 1..N /\ n + 1 - 1 = n /\ n \in 0..N /\ n + 1 \in 0..N /\ n \in 0..(N - 1)
    BY <1>1
  <2>2. Along(w)[n + 1] = Longer(w, n + 1, Along(w)[n])
    BY <1>3, <2>1
  <2>3. ~IsSep(w, n) /\ (n > 0 => ~IsSep(w, n - 1))
    BY <1>1
  <2> DEFINE c == Char(w, n)
  <2>4. c \in Chars
    BY <1>1, <2>1, ElementOfSeq DEF Char
  <2>5. start(n + 1) = Append(start(n), c)
    <3> DEFINE p == start(n + 1)
               r == start(n)
               q == Append(r, c)
    <3>1. /\ p \in Path /\ Len(p) = n + 1 /\ r \in Path /\ Len(r) = n
          /\ \A j \in 0..(n + 1 - 1) : Char(p, j) = Char(w, j)
          /\ \A j \in 0..(n - 1) : Char(r, j) = Char(w, j)
      BY <1>2, <2>1
    <3> HIDE DEF p, r, c
    <3>2. q \in Path /\ Len(q) = n + 1 /\ q[n + 1] = c /\ \A i \in 1..n : q[i] = r[i]
      BY <2>4, <3>1, AppendProperties DEF Path
    <3>3. ASSUME NEW j \in 0..(Len(p) - 1) PROVE Char(p, j) = Char(q, j)
      <4>1. j \in 0..n /\ j + 1 \in 1..(n + 1)
        BY <2>1, <3>1
      <4>2. Char(p, j) = Char(w, j)
        BY <2>1, <3>1, <4>1
      <4>3. CASE j = n
        BY <3>2, <4>2, <4>3 DEF Char, c
      <4>4. CASE j # n
        <5>1. j \in 0..(n - 1) /\ j + 1 \in 1..n
          BY <2>1, <4>1, <4>4
        <5>2. Char(r, j) = Char(w, j) /\ q[j + 1] = r[j + 1]
          BY <3>1, <3>2, <5>1
        <5> QED BY <4>2, <5>2 DEF Char
      <4> QED BY <4>3, <4>4
    <3> HIDE DEF q
    <3>4. p = q
      BY <3>1, <3>2, <3>3, SamePath
    <3> QED BY <3>4 DEF p, q, r
  <2>6. CASE n = 0
    <3>1. Along(w)[n] = <<>> /\ n + 1 = 1
      BY <1>1, <2>6, AlongGrows
    <3>2. Longer(w, n + 1, <<>>) = Append(<<>>, <<c>>)
      BY <2>1, <2>3, <3>1 DEF Longer
    <3>3. start(n) = <<>>
      BY <1>2, <2>1, <2>6, EmptySeq DEF Path
    <3>4. start(n + 1) = <<c>>
      <4> HIDE DEF start, c
      <4>1. Append(<<>>, c) = <<c>>
        OBVIOUS
      <4> QED BY <2>5, <3>3, <4>1
    <3>5. Append(<<>>, <<c>>) = << <<c>> >>
      <4> DEFINE e == <<c>>
      <4> HIDE DEF e
      <4>1. Append(<<>>, e) = <<e>>
        OBVIOUS
      <4> QED BY <4>1 DEF e
    <3>6. Along(w)[n + 1] = <<start(n + 1)>>
      <4> HIDE DEF start, c
      <4> QED BY <2>2, <3>1, <3>2, <3>4, <3>5
    <3> HIDE DEF start
    <3> QED BY <2>1, <3>6
  <2>7. CASE n # 0
    <3>1. Along(w)[n] = <<start(n)>> /\ n + 1 # 1 /\ n - 1 = n + 1 - 2 /\ n > 0
      BY <1>5, <2>1, <2>7
    <3> DEFINE r == start(n)
               u == <<r>>
    <3>2. Longer(w, n + 1, u) = [u EXCEPT ![Len(u)] = Append(@, c)]
      <4>1. ~IsSep(w, n + 1 - 1) /\ ~(n + 1 = 1 \/ IsSep(w, n + 1 - 2))
        BY <2>1, <2>3, <3>1
      <4> HIDE DEF u
      <4> QED BY <2>1, <4>1 DEF Longer
    <3> HIDE DEF r, c
    <3>3. [u EXCEPT ![Len(u)] = Append(@, c)] = <<Append(r, c)>>
      <4>1. Len(u) = 1 /\ u[1] = r
        OBVIOUS
      <4> DEFINE e == Append(r, c)
      <4>2. [u EXCEPT ![1] = e] = <<e>>
        <5> HIDE DEF e
        <5> QED OBVIOUS
      <4> QED BY <4>1, <4>2
    <3>4. Along(w)[n + 1] = <<Append(r, c)>>
      <4>1. Along(w)[n] = u
        BY <3>1 DEF r
      <4> HIDE DEF u
      <4> QED BY <2>2, <3>2, <3>3, <4>1
    <3>5. Append(r, c) = start(n + 1)
      BY <2>5 DEF r
    <3> HIDE DEF start
    <3> QED BY <2>1, <3>4, <3>5
  <2> QED BY <2>6, <2>7
<1>6. 0..N \subseteq S
  <2> HIDE DEF S
  <2> QED BY <1>1, <1>4, <1>5, BoundedInduction
<1>7. Along(w)[N] = <<start(N)>>
  BY <1>1, <1>6
<1>8. start(N) = w
  BY WholeSlice
<1> HIDE DEF start
<1> QED BY <1>7, <1>8 DEF Names

\* The component that is made next, and how far the path then is.
LEMMA ComponentIs ==
    ASSUME FilesTypes, fpc \in {"component", "mkdir"}, at < Len(making)
    PROVE  LET i == NextSep(making, at)
               soFar == Names(Slice(making, 0, at))
               n == Names(Component)
           IN  /\ Component \in Path /\ n \in Place /\ soFar \in Place
               /\ IsPrefix(n, Names(making))
               /\ i = at => Component = Slice(making, 0, at)
               /\ i # at => n # <<>> /\ Front(n) = soFar /\ Last(Component) # Sep
               /\ i \in at..Len(making) /\ (i = at => IsSep(making, i))
               /\ Onward(making, at) \in 0..Len(making) /\ Behind(making, Onward(making, at))
               /\ Names(Slice(making, 0, Onward(making, at))) = n
<1> DEFINE N == Len(making)
           i == NextSep(making, at)
           o == Onward(making, at)
           c == Slice(making, 0, i)
           p == Slice(making, 0, at)
           w == Slice(c, at, Len(c))
<1>1. making \in Path /\ N \in Nat /\ at \in 0..N /\ at < N /\ Behind(making, at)
  BY LenProperties DEF FilesTypes, Path
<1>2. /\ i \in at..N /\ (i < N => IsSep(making, i))
      /\ \A j \in at..(i - 1) : ~IsSep(making, j)
  BY <1>1, NextSepIs
<1>3. o = IF i < N THEN i + 1 ELSE N
  BY DEF Onward
<1>4. Component = c
  BY DEF Component
<1> HIDE DEF i, o
<1>5. i \in 0..N /\ at \in 0..i /\ (i = at => i < N)
  BY <1>1, <1>2
<1>6. c \in Path /\ Len(c) = i /\ \A j \in 0..(i - 1) : Char(c, j) = Char(making, j)
  BY <1>1, <1>5, Slices DEF Path
<1>7. Slice(c, 0, at) = p
  BY <1>1, <1>5, SliceOfSlice
<1>8. p \in Path /\ w \in Path /\ Len(w) = i - at /\ \A j \in 0..(i - at - 1) : Char(w, j) = Char(c, at + j)
  <2>1. p \in Path
    BY <1>1, Slices DEF Path
  <2> HIDE DEF c, p
  <2>2. at \in 0..Len(c)
    BY <1>5, <1>6
  <2>3. w \in Path /\ Len(w) = Len(c) - at /\ \A j \in 0..(Len(c) - at - 1) : Char(w, j) = Char(c, at + j)
    BY <1>6, <2>2, Slices DEF Path
  <2> QED BY <1>6, <2>1, <2>3
<1>9. o \in 0..N /\ Behind(making, o)
  <2>1. CASE i < N
    <3>1. o = i + 1 /\ o - 1 = i
      BY <1>1, <1>3, <1>5, <2>1
    <3> QED BY <1>1, <1>2, <1>5, <2>1, <3>1 DEF Behind
  <2>2. CASE ~(i < N)
    BY <1>1, <1>3, <2>2 DEF Behind
  <2> QED BY <2>1, <2>2
<1>10. Names(Slice(making, 0, o)) = Names(c)
  <2>1. CASE i < N
    <3> DEFINE P == Slice(making, 0, o)
    <3>1. o = i + 1 /\ i \in 0..o
      BY <1>1, <1>3, <1>5, <2>1
    <3>2. P \in Path /\ Len(P) = o /\ \A j \in 0..(o - 1) : Char(P, j) = Char(making, j)
      BY <1>1, <1>9, Slices DEF Path
    <3>3. Slice(P, 0, i) = c
      BY <1>1, <1>9, <3>1, SliceOfSlice
    <3> HIDE DEF P, c
    <3>4. \A j \in i..(Len(P) - 1) : IsSep(P, j)
      <4>1. ASSUME NEW j \in i..(Len(P) - 1) PROVE IsSep(P, j)
        <5>1. j = i /\ j \in 0..(o - 1) /\ j < Len(P)
          BY <1>5, <3>1, <3>2
        <5>2. Char(P, j) = Char(making, j) /\ Char(making, i) = Sep
          BY <1>2, <2>1, <3>2, <5>1 DEF IsSep
        <5> QED BY <5>1, <5>2 DEF IsSep
      <4> QED BY <4>1
    <3>5. 0 \in 0..Len(P) /\ i \in 0..Len(P) /\ \A j \in 0..(0 - 1) : IsSep(P, j)
      BY <1>5, <3>1, <3>2
    <3>6. Names(Slice(P, 0, i)) = Names(P)
      BY <3>2, <3>4, <3>5, MiddleNames
    <3> QED BY <3>3, <3>6 DEF P
  <2>2. CASE ~(i < N)
    BY <1>1, <1>3, <1>5, <2>2
  <2> QED BY <2>1, <2>2
<1>11. IsPrefix(Names(c), Names(making)) /\ Names(c) \in Place
  <2>1. Behind(making, i) \/ IsSep(making, i)
    BY <1>2, <1>5 DEF Behind
  <2> QED BY <1>1, <1>5, <2>1, SplitAt
<1>12. Names(p) \in Place /\ Names(c) = Names(p) \o Names(w)
  <2>1. Behind(c, at)
    <3>1. CASE at = 0 \/ at = i
      BY <1>6, <3>1 DEF Behind
    <3>2. CASE at # 0 /\ at # i
      <4>1. IsSep(making, at - 1)
        BY <1>1, <3>2 DEF Behind
      <4>2. at - 1 \in 0..(i - 1) /\ at - 1 < i
        BY <1>1, <1>5, <3>2
      <4>3. IsSep(c, at - 1)
        BY <1>6, <4>1, <4>2 DEF IsSep
      <4> QED BY <4>3 DEF Behind
    <3> QED BY <3>1, <3>2
  <2> HIDE DEF c, p
  <2>2. at \in 0..Len(c)
    BY <1>5, <1>6
  <2> QED BY <1>6, <1>7, <2>1, <2>2, SplitAt
<1>13. i = at => c = p
  OBVIOUS
<1>14. ASSUME i # at PROVE Names(c) # <<>> /\ Front(Names(c)) = Names(p) /\ Last(c) # Sep
  <2>1. i > at /\ i > 0 /\ i - 1 \in at..(i - 1) /\ i - 1 \in 0..(i - 1) /\ i - 1 + 1 = i
    BY <1>5, <1>14
  <2>2. \A j \in 0..(Len(w) - 1) : ~IsSep(w, j)
    <3>1. ASSUME NEW j \in 0..(Len(w) - 1) PROVE ~IsSep(w, j)
      <4>1. j \in 0..(i - at - 1) /\ at + j \in at..(i - 1) /\ at + j \in 0..(i - 1) /\ j < Len(w)
            /\ at + j < N
        BY <1>5, <1>8
      <4>2. Char(w, j) = Char(making, at + j) /\ ~IsSep(making, at + j)
        BY <1>2, <1>6, <1>8, <4>1
      <4> QED BY <4>1, <4>2 DEF IsSep
    <3> QED BY <3>1
  <2>3. w # <<>>
    BY <1>5, <1>8, <2>1, EmptySeq DEF Path
  <2> HIDE DEF w, c, p
  <2>4. Names(w) = <<w>>
    BY <1>8, <2>2, <2>3, OneName
  <2>5. Names(w) \in Place /\ Names(w) # <<>> /\ Front(Names(w)) = <<>>
    <3>1. Names(w) \in Place
      BY <1>8, NamesArePlaces
    <3> DEFINE u == <<w>>
    <3>2. u # <<>> /\ Len(u) = 1
      OBVIOUS
    <3>3. u \in Place
      BY <2>4, <3>1
    <3> HIDE DEF u
    <3>4. Front(u) \in Place /\ Len(Front(u)) = 0
      BY <3>2, <3>3, FrontOf DEF Place
    <3>5. Front(u) = <<>>
      BY <3>4, EmptySeq DEF Place
    <3> QED BY <2>4, <3>1, <3>2, <3>5 DEF u
  <2> DEFINE r == Names(w)
             a == Names(p)
  <2>6. Front(a \o r) = a \o Front(r) /\ a \o r # <<>>
    <3>1. r \in Place /\ r # <<>> /\ a \in Place
      BY <1>12, <2>5
    <3> HIDE DEF r, a
    <3> QED BY <3>1, FrontOfRest
  <2>7. a \o <<>> = a
    BY <1>12, ConcatEmptySeq DEF Place
  <2>8. Last(c) # Sep
    <3>1. ~IsSep(making, i - 1) /\ i - 1 < N
      BY <1>1, <1>2, <1>5, <2>1
    <3>2. Char(c, i - 1) = Char(making, i - 1)
      BY <1>6, <2>1
    <3> QED BY <1>6, <2>1, <3>1, <3>2 DEF IsSep, Char, Last
  <2> QED BY <1>12, <2>5, <2>6, <2>7, <2>8
<1> QED BY <1>2, <1>4, <1>5, <1>6, <1>9, <1>10, <1>11, <1>12, <1>13, <1>14 DEF i, o

-----------------------------------------------------------------------------
(* Every step keeps the tree, the offsets and the program alive.           *)

LEMMA GivesKeeps ==
    ASSUME FilesIInv, fpc' = "idle", result' \in BOOLEAN, op' = op, making' = making, at' = at,
           ok' = ok, out'.needed \in Nat, alive' = "running", changes' = changes, ops' = ops,
           before' = before, faulty' \in BOOLEAN, Grown(dirs, DOMAIN files)'
    PROVE  FilesIInv'
<1>1. FilesTypes
  BY DEF FilesIInv
<1>2. FilesTypes'
  BY <1>1 DEF FilesTypes
<1>3. InCall' /\ JustMade' /\ EndedByOthers'
  BY DEF InCall, JustMade, EndedByOthers, Creates
<1> QED BY <1>2, <1>3 DEF FilesIInv

LEMMA CreatedKeeps ==
    ASSUME FilesIInv, fpc \in {"component", "verify"}, alive' = "running", NEW made \in BOOLEAN,
           DirCreated(made), UNCHANGED <<tree, op, making, at, out, histories, faulty>>
    PROVE  FilesIInv'
<1>1. FilesTypes /\ InCall
  BY DEF FilesIInv
<1>2. op.kind \in {"dir_create", "file_create"}
  BY <1>1 DEF InCall, Creates
<1>3. /\ dirs' = dirs /\ files' = files /\ op' = op /\ making' = making /\ at' = at /\ out' = out
      /\ ops' = ops /\ changes' = changes /\ before' = before /\ faulty' = faulty
  BY DEF tree, histories
<1>4. /\ ok' = made /\ result' \in BOOLEAN
      /\ \/ fpc' = "idle"
         \/ fpc' = "open" /\ op.kind = "file_create"
  BY <1>1, <1>2 DEF DirCreated, FilesTypes
<1>5. Grown(dirs, DOMAIN files)'
  BY <1>1, <1>3 DEF FilesTypes, Grown, IsTree
<1>6. FilesTypes'
  BY <1>1, <1>3, <1>4, <1>5 DEF FilesTypes
<1>7. InCall'
  BY <1>1, <1>2, <1>3, <1>4 DEF InCall, Creates, Was
<1>8. JustMade' /\ EndedByOthers'
  BY <1>4 DEF JustMade, EndedByOthers
<1> QED BY <1>6, <1>7, <1>8 DEF FilesIInv

LEMMA CheckKeeps == FilesIInv /\ CheckComponent => FilesIInv'
<1> SUFFICES ASSUME FilesIInv, CheckComponent PROVE FilesIInv'
  OBVIOUS
<1>1. FilesTypes /\ InCall /\ JustMade
  BY DEF FilesIInv
<1>2. /\ alive = "running" /\ fpc = "component"
      /\ dirs' = dirs /\ files' = files /\ op' = op /\ making' = making /\ at' = at /\ out' = out
      /\ ops' = ops /\ changes' = changes /\ before' = before /\ faulty' = faulty
      /\ alive' = alive
  BY DEF CheckComponent, Running, tree, histories
<1>3. \/ DirCreated(FALSE)
      \/ fpc' = "mkdir" /\ at < Len(making) /\ ok' = ok /\ result' = result
      \/ fpc' = "verify" /\ ~(at < Len(making)) /\ ok /\ ok' = ok /\ result' = result
  BY Zenon DEF CheckComponent
<1>4. CASE DirCreated(FALSE)
  BY <1>2, <1>4, CreatedKeeps DEF CheckComponent, tree, histories
<1>5. CASE fpc' \in {"mkdir", "verify"} /\ ok' = ok /\ result' = result
           /\ (fpc' = "mkdir" => at < Len(making))
           /\ (fpc' = "verify" => ~(at < Len(making)) /\ ok)
  <2>1. Grown(dirs, DOMAIN files)'
    BY <1>1, <1>2 DEF FilesTypes, Grown, IsTree
  <2>2. FilesTypes'
    BY <1>1, <1>2, <1>5, <2>1 DEF FilesTypes, Behind, IsSep, Char
  <2>3. op.kind \in {"dir_create", "file_create"}
    BY <1>1, <1>2 DEF InCall, Creates
  <2>4. InCall'
    BY <1>1, <1>2, <1>5, <2>3 DEF InCall, Creates, Was
  <2>5. at \in 0..Len(making) /\ Len(making) \in Nat
    BY <1>1, <1>2 DEF FilesTypes, Path
  <2>6. fpc' = "verify" => at = Len(making)
    BY <1>5, <2>5
  <2>7. JustMade'
    BY <1>1, <1>2, <1>5, <2>6 DEF JustMade, Quiet
  <2>8. EndedByOthers'
    BY <1>2 DEF EndedByOthers
  <2> QED BY <2>2, <2>4, <2>7, <2>8 DEF FilesIInv
<1> QED BY <1>3, <1>4, <1>5

LEMMA MakeKeeps == FilesIInv /\ MakeComponent => FilesIInv'
<1> SUFFICES ASSUME FilesIInv, MakeComponent PROVE FilesIInv'
  OBVIOUS
<1>1. FilesTypes /\ InCall /\ JustMade
  BY DEF FilesIInv
<1>2. /\ alive = "running" /\ fpc = "mkdir" /\ at' = Onward(making, at) /\ fpc' = "component"
      /\ files' = files /\ op' = op /\ making' = making /\ out' = out /\ result' = result
      /\ ops' = ops /\ changes' = changes /\ before' = before /\ alive' = alive
  BY DEF MakeComponent, Running, histories
<1>3. PICK done \in BOOLEAN : /\ done => CanMake(Component)
                              /\ ok' = done
                              /\ dirs' = IF done THEN dirs \cup {Names(Component)} ELSE dirs
                              /\ Attempt(done \/ ~CanMake(Component))
  <2>1. PICK done \in (IF CanMake(Component) THEN Outcome ELSE {FALSE}) :
                              /\ ok' = done
                              /\ dirs' = IF done THEN dirs \cup {Names(Component)} ELSE dirs
                              /\ Attempt(done \/ ~CanMake(Component))
    BY DEF MakeComponent
  <2>2. done \in BOOLEAN /\ (done => CanMake(Component))
    BY <2>1, OutcomeAssumption
  <2> QED BY <2>1, <2>2
<1>4. at < Len(making) /\ at \in 0..Len(making) /\ making \in Path /\ faulty \in BOOLEAN
  BY <1>1, <1>2 DEF FilesTypes
<1>5. /\ Names(Component) \in Place
      /\ at' \in 0..Len(making) /\ Behind(making, at')
      /\ Names(Slice(making, 0, at')) = Names(Component)
  <2>1. fpc \in {"component", "mkdir"}
    BY <1>2
  <2>2. /\ Names(Component) \in Place
        /\ Onward(making, at) \in 0..Len(making) /\ Behind(making, Onward(making, at))
        /\ Names(Slice(making, 0, Onward(making, at))) = Names(Component)
    BY <1>1, <1>4, <2>1, ComponentIs
  <2> QED BY <1>2, <2>2
<1>6. Grown(dirs, DOMAIN files)'
  <2>1. Grown(dirs, DOMAIN files)
    BY <1>1 DEF FilesTypes
  <2>2. CASE done
    <3>1. Names(Component) \notin dirs \cup DOMAIN files /\ Front(Names(Component)) \in dirs
      BY <1>3, <2>2 DEF CanMake, Free
    <3>2. Grown(dirs \cup {Names(Component)}, DOMAIN files)
      BY <1>5, <2>1, <3>1, AddDir
    <3>3. dirs' = dirs \cup {Names(Component)}
      BY <1>3, <2>2
    <3> QED BY <1>2, <3>2, <3>3 DEF Grown, IsTree
  <2>3. CASE ~done
    BY <1>2, <1>3, <2>1, <2>3 DEF Grown, IsTree
  <2> QED BY <2>2, <2>3
<1>7. faulty' \in BOOLEAN
  BY <1>4 DEF MakeComponent, Attempt
<1>8. FilesTypes'
  <2>1. at' \in Int /\ Behind(making, at)'
    BY <1>2, <1>5 DEF Behind, IsSep, Char
  <2> QED BY <1>1, <1>2, <1>3, <1>5, <1>6, <1>7, <2>1 DEF FilesTypes
<1>9. InCall'
  <2>1. op.kind \in {"dir_create", "file_create"}
    BY <1>1, <1>2 DEF InCall, Creates
  <2> QED BY <1>1, <1>2, <2>1 DEF InCall, Creates, Was
<1>10. JustMade'
  <2>1. ASSUME at' = Len(making'), ok' PROVE making # <<>> /\ Names(making) \in dirs'
    <3>1. making # <<>>
      BY <1>4, LenProperties, EmptySeq DEF Path
    <3>2. Names(Component) = Names(making)
      BY <1>2, <1>4, <1>5, <2>1, WholeSlice
    <3> QED BY <1>3, <2>1, <3>1, <3>2
  <2> QED BY <1>2, <2>1 DEF JustMade
<1>11. EndedByOthers'
  BY <1>2 DEF EndedByOthers
<1> QED BY <1>8, <1>9, <1>10, <1>11 DEF FilesIInv

LEMMA VerifyKeeps == FilesIInv /\ VerifyDir => FilesIInv'
<1> SUFFICES ASSUME FilesIInv, VerifyDir PROVE FilesIInv'
  OBVIOUS
<1>1. FilesTypes /\ InCall /\ JustMade
  BY DEF FilesIInv
<1>2. /\ alive = "running" /\ fpc = "verify"
      /\ dirs' = dirs /\ files' = files /\ op' = op /\ making' = making /\ at' = at /\ out' = out
      /\ ops' = ops /\ changes' = changes /\ before' = before /\ faulty' = faulty
  BY DEF VerifyDir, Running, tree, histories
<1>3. CASE Kind(making) = "dir"
  <2>1. DirCreated(TRUE) /\ alive' = "running"
    BY <1>2, <1>3 DEF VerifyDir
  <2> QED BY <1>2, <2>1, CreatedKeeps DEF tree, histories
<1>4. CASE Kind(making) # "dir"
  <2>1. alive' = "aborted" /\ fpc' = fpc /\ ok' = ok /\ result' = result
    BY <1>4 DEF VerifyDir
  <2>2. Grown(dirs, DOMAIN files)'
    BY <1>1, <1>2 DEF FilesTypes, Grown, IsTree
  <2>3. FilesTypes'
    BY <1>1, <1>2, <2>1, <2>2 DEF FilesTypes
  <2>4. op.kind \in {"dir_create", "file_create"}
    BY <1>1, <1>2 DEF InCall, Creates
  <2>5. InCall'
    BY <1>1, <1>2, <2>1, <2>4 DEF InCall, Creates, Was
  <2>6. JustMade'
    BY <1>1, <1>2, <2>1 DEF JustMade, Quiet
  <2>7. ~Quiet
    <3>1. ~(making # <<>> /\ Names(making) \in dirs)
      BY <1>1, <1>4, KindIs DEF FilesTypes
    <3> QED BY <1>1, <1>2, <3>1 DEF JustMade
  <2>8. EndedByOthers'
    BY <1>2, <2>7 DEF EndedByOthers, Quiet
  <2> QED BY <2>3, <2>5, <2>6, <2>8 DEF FilesIInv
<1> QED BY <1>3, <1>4

LEMMA FilePut ==
    ASSUME FilesTypes, NEW path \in Path, NEW opened \in BOOLEAN, opened => CanWrite(path), NEW content,
           dirs' = dirs, files' = IF opened THEN Put(Names(path), content) ELSE files
    PROVE  Grown(dirs, DOMAIN files)'
<1>1. Grown(dirs, DOMAIN files) /\ Names(path) \in Place
  BY NamesArePlaces DEF FilesTypes
<1>2. CASE opened
  <2>1. Names(path) \notin dirs /\ Front(Names(path)) \in dirs
    BY <1>2 DEF CanWrite
  <2>2. Grown(dirs, DOMAIN files \cup {Names(path)})
    BY <1>1, <2>1, AddFile
  <2>3. DOMAIN files' = DOMAIN files \cup {Names(path)}
    BY <1>2 DEF Put
  <2> QED BY <2>2, <2>3 DEF Grown, IsTree
<1>3. CASE ~opened
  BY <1>1, <1>3 DEF Grown, IsTree
<1> QED BY <1>2, <1>3

LEMMA WritesKeep == FilesIInv /\ (OpenNew \/ WriteContent) => FilesIInv'
<1> SUFFICES ASSUME FilesIInv, OpenNew \/ WriteContent PROVE FilesIInv'
  OBVIOUS
<1>1. FilesTypes /\ op.path \in Path /\ out.needed \in Nat /\ faulty \in BOOLEAN
  BY DEF FilesIInv, FilesTypes
<1>2. /\ alive = "running" /\ dirs' = dirs /\ changes' = changes /\ ops' = ops /\ before' = before
      /\ alive' = alive
  BY DEF OpenNew, WriteContent, Running, histories
<1>3. ASSUME NEW opened \in BOOLEAN, NEW content, NEW given \in BOOLEAN,
             opened => CanWrite(op.path),
             files' = IF opened THEN Put(Names(op.path), content) ELSE files,
             faulty' \in BOOLEAN, Gives(given)
      PROVE  FilesIInv'
  <2>1. Grown(dirs, DOMAIN files)'
    BY <1>1, <1>2, <1>3, FilePut
  <2>2. /\ fpc' = "idle" /\ result' = given /\ op' = op /\ making' = making /\ at' = at /\ ok' = ok
        /\ out' = out
    BY <1>3 DEF Gives, local
  <2> QED BY <1>1, <1>2, <1>3, <2>1, <2>2, GivesKeeps
<1>4. CASE OpenNew
  <2>1. PICK opened \in (IF CanWrite(op.path) THEN Outcome ELSE {FALSE}), closed \in Outcome :
          /\ files' = IF opened THEN Put(Names(op.path), <<>>) ELSE files
          /\ Attempt((opened \/ ~CanWrite(op.path)) /\ closed)
          /\ Gives(opened /\ closed)
    BY <1>4 DEF OpenNew
  <2> DEFINE given == opened /\ closed
  <2>2. opened \in BOOLEAN /\ (opened => CanWrite(op.path)) /\ given \in BOOLEAN
    BY OutcomeAssumption
  <2>3. faulty' \in BOOLEAN
    BY <2>1 DEF Attempt
  <2>4. Gives(given)
    BY <2>1
  <2> HIDE DEF given
  <2> QED BY <1>3, <2>1, <2>2, <2>3, <2>4
<1>5. CASE WriteContent
  <2>1. PICK opened \in (IF CanWrite(op.path) THEN Outcome ELSE {FALSE}), put \in Outcome, closed \in Outcome :
          /\ files' = IF opened THEN Put(Names(op.path), IF put /\ closed THEN op.other ELSE <<>>) ELSE files
          /\ Attempt((opened \/ ~CanWrite(op.path)) /\ put /\ closed)
          /\ Gives(opened /\ put)
    BY <1>5 DEF WriteContent
  <2> DEFINE content == IF put /\ closed THEN op.other ELSE <<>>
             given == opened /\ put
  <2>2. opened \in BOOLEAN /\ (opened => CanWrite(op.path)) /\ given \in BOOLEAN
    BY OutcomeAssumption
  <2>3. faulty' \in BOOLEAN
    BY <2>1 DEF Attempt
  <2>4. Gives(given) /\ files' = IF opened THEN Put(Names(op.path), content) ELSE files
    BY <2>1
  <2> HIDE DEF content, given
  <2> QED BY <1>3, <2>2, <2>3, <2>4
<1> QED BY <1>4, <1>5

LEMMA ReadKeeps == FilesIInv /\ ReadContent => FilesIInv'
<1> SUFFICES ASSUME FilesIInv, ReadContent PROVE FilesIInv'
  OBVIOUS
<1>1. /\ FilesTypes /\ alive = "running" /\ alive' = alive
      /\ dirs' = dirs /\ files' = files /\ op' = op /\ making' = making /\ at' = at /\ ok' = ok
      /\ ops' = ops /\ changes' = changes /\ before' = before
  BY DEF FilesIInv, ReadContent, Running, tree, histories, local
<1>2. fpc' = "idle" /\ result' \in BOOLEAN /\ faulty' \in BOOLEAN /\ out'.needed = 0
  BY <1>1 DEF ReadContent, Attempt, NoOut
<1>3. Grown(dirs, DOMAIN files)'
  BY <1>1 DEF FilesTypes, Grown, IsTree
<1>4. out'.needed \in Nat
  BY <1>2
<1> QED BY <1>1, <1>2, <1>3, <1>4, GivesKeeps

LEMMA LengthKeeps == FilesIInv /\ ReadLength => FilesIInv'
<1> SUFFICES ASSUME FilesIInv, ReadLength PROVE FilesIInv'
  OBVIOUS
<1>1. /\ FilesTypes /\ InCall /\ JustMade /\ alive = "running" /\ fpc = "length"
      /\ dirs' = dirs /\ files' = files
      /\ ops' = ops /\ changes' = changes /\ before' = before
  BY DEF FilesIInv, ReadLength, Running, tree, histories
<1>2. PICK opened \in (IF Kind(op.path) = "none" THEN {FALSE} ELSE Outcome) :
       /\ Attempt(opened \/ Kind(op.path) = "none")
       /\ IF opened THEN Gives(TRUE) /\ UNCHANGED alive
          ELSE alive' = "crashed" /\ UNCHANGED <<fpc, local, result, out>>
  BY DEF ReadLength
<1>3. faulty' \in BOOLEAN /\ opened \in BOOLEAN
  BY <1>2, OutcomeAssumption DEF Attempt
<1>4. Grown(dirs, DOMAIN files)'
  BY <1>1 DEF FilesTypes, Grown, IsTree
<1>5. CASE opened
  <2>1. fpc' = "idle" /\ result' = TRUE /\ op' = op /\ making' = making /\ at' = at /\ ok' = ok /\ out' = out
        /\ alive' = alive
    BY <1>2, <1>5 DEF Gives, local
  <2>2. out.needed \in Nat
    BY <1>1 DEF FilesTypes
  <2> QED BY <1>1, <1>3, <1>4, <2>1, <2>2, GivesKeeps
<1>6. CASE ~opened
  <2>1. alive' = "crashed" /\ fpc' = fpc /\ op' = op /\ making' = making /\ at' = at /\ ok' = ok
        /\ result' = result /\ out' = out
    BY <1>2, <1>6 DEF local
  <2>2. FilesTypes'
    BY <1>1, <1>3, <1>4, <2>1 DEF FilesTypes
  <2>3. InCall'
    BY <1>1, <2>1 DEF InCall, Creates
  <2>4. JustMade'
    BY <1>1, <2>1 DEF JustMade, Quiet
  <2>5. ~Quiet \/ faulty'
    <3>1. SUFFICES ASSUME Quiet PROVE faulty'
      OBVIOUS
    <3>2. Kind(op.path) = "file"
      BY <1>1, <3>1, KindIs DEF JustMade, FilesTypes
    <3> QED BY <1>2, <1>6, <3>2 DEF Attempt
  <2>6. EndedByOthers'
    BY <1>1, <2>5 DEF EndedByOthers, Quiet
  <2> QED BY <2>2, <2>3, <2>4, <2>6 DEF FilesIInv
<1> QED BY <1>3, <1>5, <1>6

LEMMA RemovesKeep ==
    ASSUME FilesIInv, NEW p, NEW kinds, RemoveIt(p, kinds)
    PROVE  FilesIInv'
<1> DEFINE place == Names(op.path)
           can   == Kind(op.path) \in kinds /\ place # <<>> /\ ~HasChild(place)
<1>1. /\ FilesTypes /\ alive = "running" /\ alive' = alive
      /\ ops' = ops /\ changes' = changes /\ before' = before
  BY DEF FilesIInv, RemoveIt, Running, histories
<1>2. PICK done \in (IF can THEN Outcome ELSE {FALSE}) :
           /\ dirs'  = IF done THEN dirs \ {place} ELSE dirs
           /\ files' = IF done THEN [f \in DOMAIN files \ {place} |-> files[f]] ELSE files
           /\ Attempt(done \/ ~can)
           /\ Gives(done)
  BY DEF RemoveIt
<1>3. done \in BOOLEAN /\ (done => place # <<>> /\ ~HasChild(place))
  BY OutcomeAssumption
<1>4. faulty' \in BOOLEAN
  BY <1>2 DEF Attempt
<1>5. fpc' = "idle" /\ result' = done /\ op' = op /\ making' = making /\ at' = at /\ ok' = ok /\ out' = out
  BY <1>2 DEF Gives, local
<1>6. out.needed \in Nat /\ Grown(dirs, DOMAIN files)
  BY <1>1 DEF FilesTypes
<1> HIDE DEF place, can
<1>7. Grown(dirs, DOMAIN files)'
  <2>1. CASE done
    <3>1. \A q \in dirs \cup DOMAIN files : q # <<>> => Front(q) # place
      BY <1>3, <2>1 DEF HasChild
    <3>2. Grown(dirs \ {place}, DOMAIN files \ {place})
      BY <1>3, <1>6, <2>1, <3>1, TakeAway
    <3>3. dirs' = dirs \ {place} /\ DOMAIN files' = DOMAIN files \ {place}
      BY <1>2, <2>1
    <3> QED BY <3>2, <3>3 DEF Grown, IsTree
  <2>2. CASE ~done
    BY <1>2, <1>6, <2>2 DEF Grown, IsTree
  <2> QED BY <2>1, <2>2
<1> QED BY <1>1, <1>3, <1>4, <1>5, <1>6, <1>7, GivesKeeps

LEMMA RenameKeeps == FilesIInv /\ Rename => FilesIInv'
<1> SUFFICES ASSUME FilesIInv, Rename PROVE FilesIInv'
  OBVIOUS
<1> DEFINE a   == Names(op.path)
           b   == Names(op.other)
           can == CanMove(op.path, op.other)
<1>1. /\ FilesTypes /\ InCall /\ alive = "running" /\ alive' = alive /\ fpc = "rename"
      /\ ops' = ops /\ changes' = changes /\ before' = before
  BY DEF FilesIInv, Rename, Running, histories
<1>2. PICK done \in (IF can THEN Outcome ELSE {FALSE}) :
           /\ done => /\ dirs' = {Moved(d, a, b) : d \in dirs}
                      /\ files' = [f \in {Moved(g, a, b) : g \in DOMAIN files} |->
                                     files[CHOOSE g \in DOMAIN files : /\ Moved(g, a, b) = f
                                                                       /\ g = b => a = b]]
           /\ ~done => UNCHANGED tree
           /\ Attempt(done \/ ~can)
           /\ Gives(done)
  BY DEF Rename
<1>3. done \in BOOLEAN /\ (done => can)
  BY OutcomeAssumption
<1>4. faulty' \in BOOLEAN
  BY <1>2 DEF Attempt
<1>5. fpc' = "idle" /\ result' = done /\ op' = op /\ making' = making /\ at' = at /\ ok' = ok /\ out' = out
  BY <1>2 DEF Gives, local
<1>6. out.needed \in Nat /\ Grown(dirs, DOMAIN files)
  BY <1>1 DEF FilesTypes
<1>7. op.other \in Path
  BY <1>1 DEF InCall, FilesTypes
<1>8. done => MayMove(dirs, DOMAIN files, a, b)
  <2>1. b \in Place
    BY <1>7, NamesArePlaces
  <2>2. SUFFICES ASSUME can PROVE MayMove(dirs, DOMAIN files, a, b)
    BY <1>3
  <2>3. /\ Kind(op.path) # "none" /\ a # <<>> /\ b # <<>> /\ Front(b) \in dirs
        /\ Kind(op.path) = "file" => b \notin dirs
        /\ Kind(op.path) = "dir" => /\ b \notin DOMAIN files /\ (~HasChild(b) \/ a = b)
                                    /\ ~IsStrictPrefix(a, b)
    BY <2>2 DEF CanMove
  <2>4. /\ Kind(op.path) \in {"none", "dir", "file"}
        /\ Kind(op.path) = "dir" <=> op.path # <<>> /\ a \in dirs
        /\ Kind(op.path) = "file" <=> op.path # <<>> /\ a \in DOMAIN files /\ Last(op.path) # Sep
    BY <1>6, KindIs
  <2>5. op.path # <<>> /\ a \in dirs \cup DOMAIN files
    BY <2>3, <2>4
  <2> HIDE DEF a, b
  <2>6. a \in DOMAIN files => b \notin dirs
    <3>1. a \in DOMAIN files => a \notin dirs
      BY <1>6 DEF Grown, IsTree
    <3> QED BY <2>3, <2>4, <2>5, <3>1
  <2>7. a \in dirs => /\ b \notin DOMAIN files /\ ~IsStrictPrefix(a, b)
                      /\ (\A q \in dirs \cup DOMAIN files : q # <<>> => Front(q) # b) \/ a = b
    BY <2>3, <2>4, <2>5 DEF HasChild
  <2> QED BY <2>1, <2>3, <2>5, <2>6, <2>7 DEF MayMove
<1> HIDE DEF a, b, can
<1>9. Grown(dirs, DOMAIN files)'
  <2>1. CASE done
    <3>1. Grown({Moved(d, a, b) : d \in dirs}, {Moved(f, a, b) : f \in DOMAIN files})
      BY <1>6, <1>8, <2>1, RenameKeepsTree
    <3>2. dirs' = {Moved(d, a, b) : d \in dirs} /\ DOMAIN files' = {Moved(f, a, b) : f \in DOMAIN files}
      BY <1>2, <2>1
    <3> QED BY <3>1, <3>2 DEF Grown, IsTree
  <2>2. CASE ~done
    BY <1>2, <1>6, <2>2 DEF Grown, IsTree, tree
  <2> QED BY <2>1, <2>2
<1> QED BY <1>1, <1>3, <1>4, <1>5, <1>6, <1>9, GivesKeeps

-----------------------------------------------------------------------------
(* Climbing.                                                               *)

LEMMA AddName ==
    ASSUME NEW a \in Place, NEW w \in AName
    PROVE  /\ a \o <<w>> \in Place /\ Len(a \o <<w>>) = Len(a) + 1 /\ Front(a \o <<w>>) = a
           /\ Last(a \o <<w>>) = w
<1> DEFINE u == <<w>>
<1>1. u \in Place /\ Len(u) = 1 /\ u # <<>>
  BY DEF Place
<1> HIDE DEF u
<1>2. Front(u) \in Place /\ Len(Front(u)) = 0
  BY <1>1, FrontOf DEF Place
<1>3. Front(u) = <<>>
  BY <1>2, EmptySeq DEF Place
<1>4. Front(a \o u) = a \o Front(u)
  BY <1>1, FrontOfRest
<1>5. a \o <<>> = a
  BY ConcatEmptySeq DEF Place
<1>6. a \o u \in Place /\ Len(a \o u) = Len(a) + 1
  <2>1. u \in Place
    BY <1>1
  <2>2. a \o u \in Place /\ Len(a \o u) = Len(a) + Len(u)
    BY <2>1, WithRest
  <2> QED BY <1>1, <2>2
<1>7. Last(a \o u) = w
  <2>1. Len(a) \in Nat /\ u \in Place /\ u[1] = w
    BY LenProperties DEF Place, u
  <2>2. \A i \in 1..(Len(a) + Len(u)) : (a \o u)[i] = IF i <= Len(a) THEN a[i] ELSE u[i - Len(a)]
    BY <2>1, WithRest
  <2>3. Len(a) + 1 \in 1..(Len(a) + Len(u)) /\ ~(Len(a) + 1 <= Len(a)) /\ Len(a) + 1 - Len(a) = 1
    BY <1>1, <2>1
  <2>4. (a \o u)[Len(a) + 1] = w
    BY <2>1, <2>2, <2>3
  <2> QED BY <1>6, <2>4 DEF Last
<1> QED BY <1>3, <1>4, <1>5, <1>6, <1>7 DEF u

\* From the end of a path or a separator in it, to the separator before the
\* last name.
LEMMA UpIndexIs ==
    ASSUME NEW path \in Path, path # <<>>, NEW start \in 0..Len(path),
           start = Len(path) \/ IsSep(path, start)
    PROVE  LET up == PathUpIndex(path, start)
               names(i) == Names(Slice(path, 0, i))
           IN  /\ up \in -1..(start - 1) \/ (up = -1 /\ start = 0)
               /\ up >= 0 => IsSep(path, up) /\ names(up) = Front(names(start))
               /\ up = -1 <=> Len(names(start)) <= 1
<1> DEFINE N == Len(path)
           last == IF start < N THEN start ELSE N - 1
           n == BackToName(path, last)
           s == BackToSep(path, n)
           up == BackToName(path, s)
           u == PathUpIndex(path, start)
           names(i) == Names(Slice(path, 0, i))
           P == Slice(path, 0, start)
           Q == Slice(path, 0, n + 1)
           F == Slice(path, 0, s + 1)
<1>1. N \in Nat \ {0}
  BY EmptySeq DEF Path
<1>2. last \in -1..(N - 1) /\ last <= start /\ start - 1 <= last /\ (last = start => IsSep(path, start))
  BY <1>1
<1>3. u = IF up >= 0 THEN up + 1 ELSE -1
  BY DEF PathUpIndex
<1> HIDE DEF last
<1>4. n \in -1..last /\ (n >= 0 => ~IsSep(path, n)) /\ \A j \in 0..last : j > n => IsSep(path, j)
  BY <1>2, BackIs
<1> HIDE DEF n
<1>5. n \in -1..(N - 1) /\ (n < start \/ n = -1)
  BY <1>1, <1>2, <1>4
<1>6. n \in -1..(N - 1)
  BY <1>1, <1>2, <1>4
<1>7. s \in -1..n /\ (s >= 0 => IsSep(path, s)) /\ \A j \in 0..n : j > s => ~IsSep(path, j)
  BY <1>6, BackIs
<1> HIDE DEF s
<1>8. s \in -1..(N - 1) /\ (n >= 0 => s < n)
  BY <1>1, <1>4, <1>6, <1>7
<1>9. up \in -1..s /\ (up >= 0 => ~IsSep(path, up)) /\ \A j \in 0..s : j > up => IsSep(path, j)
  BY <1>8, BackIs
<1> HIDE DEF up, u
<1>10. up >= 0 => up < s
  BY <1>7, <1>8, <1>9
<1>11. /\ P \in Path /\ Len(P) = start /\ \A j \in 0..(start - 1) : Char(P, j) = Char(path, j)
  BY Slices DEF Path
<1>12. CASE n = -1
  <2>1. s = -1 /\ up = -1 /\ u = -1
    BY <1>3, <1>7, <1>9, <1>12
  <2>2. \A j \in 0..(Len(P) - 1) : IsSep(P, j)
    <3> HIDE DEF P
    <3>1. ASSUME NEW j \in 0..(Len(P) - 1) PROVE IsSep(P, j)
      <4>1. j \in 0..(start - 1) /\ j \in 0..last /\ j > n /\ j < Len(P)
        BY <1>2, <1>11, <1>12
      <4>2. IsSep(path, j)
        BY <1>4, <4>1
      <4> QED BY <1>11, <4>1, <4>2 DEF IsSep
    <3> QED BY <3>1
  <2>3. Names(P) = <<>>
    <3> HIDE DEF P
    <3> QED BY <1>11, <2>2, OnlySeparators
  <2>4. Len(Names(P)) <= 1
    BY <2>3
  <2>5. -1 \in -1..(start - 1)
    BY <1>1
  <2> QED BY <2>1, <2>4, <2>5 DEF u
<1>13. CASE n >= 0
  <2>1. /\ n < start /\ n + 1 \in 0..N /\ n + 1 \in 0..start /\ s + 1 \in 0..(n + 1) /\ s + 1 \in 0..N
        /\ n + 1 >= 1 /\ s < n /\ n < N /\ n - s >= 1
    BY <1>1, <1>5, <1>6, <1>7, <1>8, <1>13
  <2>2. Q \in Path /\ Len(Q) = n + 1 /\ \A j \in 0..n : Char(Q, j) = Char(path, j)
    <3> DEFINE m == n + 1
    <3>1. m \in 0..N /\ n = m - 1
      BY <1>6, <2>1
    <3> HIDE DEF m
    <3>2. Slice(path, 0, m) \in Path /\ Len(Slice(path, 0, m)) = m
          /\ \A j \in 0..(m - 1) : Char(Slice(path, 0, m), j) = Char(path, j)
      BY <3>1, Slices DEF Path
    <3> QED BY <3>1, <3>2 DEF m
  <2>3. F \in Path /\ Len(F) = s + 1 /\ \A j \in 0..s : Char(F, j) = Char(path, j)
    <3> DEFINE m == s + 1
    <3>1. m \in 0..N /\ s = m - 1
      BY <1>8, <2>1
    <3> HIDE DEF m
    <3>2. Slice(path, 0, m) \in Path /\ Len(Slice(path, 0, m)) = m
          /\ \A j \in 0..(m - 1) : Char(Slice(path, 0, m), j) = Char(path, j)
      BY <3>1, Slices DEF Path
    <3> QED BY <3>1, <3>2 DEF m
  <2>4. Names(P) = Names(Q)
    <3>1. Slice(P, 0, n + 1) = Q
      BY <2>1, SliceOfSlice
    <3> HIDE DEF P, Q
    <3>2. \A j \in (n + 1)..(Len(P) - 1) : IsSep(P, j)
      <4>1. ASSUME NEW j \in (n + 1)..(Len(P) - 1) PROVE IsSep(P, j)
        <5>1. j \in 0..(start - 1) /\ j \in 0..last /\ j > n /\ j < Len(P)
          BY <1>2, <1>6, <1>11, <2>1
        <5>2. IsSep(path, j)
          BY <1>4, <5>1
        <5> QED BY <1>11, <5>1, <5>2 DEF IsSep
      <4> QED BY <4>1
    <3>3. 0 \in 0..Len(P) /\ n + 1 \in 0..Len(P) /\ \A j \in 0..(0 - 1) : IsSep(P, j)
      BY <1>11, <2>1
    <3>4. Names(Slice(P, 0, n + 1)) = Names(P)
      <4> DEFINE m == n + 1
      <4>1. m \in 0..Len(P) /\ \A j \in m..(Len(P) - 1) : IsSep(P, j)
        BY <3>2, <3>3
      <4> HIDE DEF m
      <4>2. Names(Slice(P, 0, m)) = Names(P)
        BY <1>11, <3>3, <4>1, MiddleNames
      <4> QED BY <4>2 DEF m
    <3> QED BY <3>1, <3>4
  <2> DEFINE w == Slice(Q, s + 1, Len(Q))
  <2>5. Slice(Q, 0, s + 1) = F
    BY <2>1, SliceOfSlice
  <2>6. /\ w \in Path /\ Len(w) = n - s /\ \A j \in 0..(n - s - 1) : Char(w, j) = Char(Q, s + 1 + j)
        /\ Names(Q) = Names(Slice(Q, 0, s + 1)) \o Names(w)
    <3> HIDE DEF Q
    <3> DEFINE m == s + 1
    <3>1. m \in 0..Len(Q) /\ m - 1 = s
      BY <1>8, <2>1, <2>2
    <3>2. Behind(Q, m)
      <4>1. CASE s = -1
        BY <3>1, <4>1 DEF Behind
      <4>2. CASE s # -1
        <5>1. IsSep(path, s) /\ s \in 0..n /\ s < Len(Q)
          BY <1>7, <2>1, <2>2, <4>2
        <5>2. IsSep(Q, s)
          BY <2>2, <5>1 DEF IsSep
        <5> QED BY <3>1, <5>2 DEF Behind
      <4> QED BY <4>1, <4>2
    <3> DEFINE x == Slice(Q, m, Len(Q))
    <3>3. Len(Q) - m = n - s
      BY <1>6, <1>8, <2>1, <2>2
    <3> HIDE DEF m
    <3>4. /\ x \in Path /\ Len(x) = Len(Q) - m /\ \A j \in 0..(Len(Q) - m - 1) : Char(x, j) = Char(Q, m + j)
      BY <2>2, <3>1, Slices DEF Path
    <3>5. Names(Q) = Names(Slice(Q, 0, m)) \o Names(x)
      BY <2>2, <3>1, <3>2, SplitAt
    <3> QED BY <3>3, <3>4, <3>5 DEF m
  <2> HIDE DEF w
  <2>7. Names(w) = <<w>>
    <3>1. \A j \in 0..(Len(w) - 1) : ~IsSep(w, j)
      <4>1. ASSUME NEW j \in 0..(Len(w) - 1) PROVE ~IsSep(w, j)
        <5>1. j \in 0..(n - s - 1) /\ s + 1 + j \in 0..n /\ s + 1 + j > s /\ s + 1 + j < N
          BY <1>6, <1>8, <2>1, <2>6
        <5>2. ~IsSep(path, s + 1 + j) /\ Char(w, j) = Char(path, s + 1 + j)
          BY <1>7, <2>2, <2>6, <5>1
        <5> QED BY <5>1, <5>2 DEF IsSep
      <4> QED BY <4>1
    <3>2. w # <<>>
      BY <1>8, <2>1, <2>6, EmptySeq DEF Path
    <3> QED BY <2>6, <3>1, <3>2, OneName
  <2> HIDE DEF F, P, Q
  <2> DEFINE a == Names(F)
  <2>8. a \in Place /\ w \in AName
    BY <2>3, <2>6, NamesArePlaces DEF Path, AName
  <2>9. Names(P) = a \o <<w>>
    BY <2>4, <2>5, <2>6, <2>7
  <2> HIDE DEF a
  <2>10. Len(Names(P)) = Len(a) + 1 /\ Front(Names(P)) = a /\ Len(a) \in Nat
    BY <2>8, <2>9, AddName DEF Place
  <2>11. CASE up = -1
    <3>1. \A j \in 0..(Len(F) - 1) : IsSep(F, j)
      <4>1. ASSUME NEW j \in 0..(Len(F) - 1) PROVE IsSep(F, j)
        <5>1. j \in 0..s /\ j > up /\ j < Len(F)
          BY <1>8, <2>3, <2>11
        <5> QED BY <1>9, <2>3, <5>1 DEF IsSep
      <4> QED BY <4>1
    <3>2. a = <<>>
      BY <2>3, <3>1, OnlySeparators DEF a
    <3>3. u = -1 /\ Len(Names(P)) <= 1
      BY <1>3, <2>10, <2>11, <3>2
    <3>4. -1 \in -1..(start - 1)
      BY <2>1
    <3> QED BY <3>3, <3>4 DEF u, P
  <2>12. CASE up >= 0
    <3>1. u = up + 1 /\ u \in 0..s /\ u > up /\ u \in 0..(s + 1) /\ u \in 0..N /\ u >= 1 /\ u - 1 = up
          /\ u \in -1..(start - 1) /\ u >= 0 /\ u # -1
      BY <1>3, <1>8, <1>9, <1>10, <2>1, <2>12
    <3>2. IsSep(path, u)
      BY <1>9, <3>1
    <3>3. Names(Slice(path, 0, u)) = a
      <4>1. Slice(F, 0, u) = Slice(path, 0, u)
        <5>1. s + 1 \in 0..Len(path)
          BY <2>1
        <5>2. Slice(Slice(path, 0, s + 1), 0, u) = Slice(path, 0, u)
          BY <3>1, <5>1, SliceOfSlice
        <5> QED BY <5>2 DEF F
      <4>2. 0 \in 0..Len(F) /\ u \in 0..Len(F) /\ \A j \in 0..(0 - 1) : IsSep(F, j)
        BY <2>1, <2>3, <3>1
      <4>3. \A j \in u..(Len(F) - 1) : IsSep(F, j)
        <5>1. ASSUME NEW j \in u..(Len(F) - 1) PROVE IsSep(F, j)
          <6>1. j \in 0..s /\ j > up /\ j < Len(F)
            BY <1>8, <2>3, <3>1
          <6> QED BY <1>9, <2>3, <6>1 DEF IsSep
        <5> QED BY <5>1
      <4>4. Names(Slice(F, 0, u)) = Names(F)
        BY <2>3, <4>2, <4>3, MiddleNames
      <4> QED BY <4>1, <4>4 DEF a
    <3>4. a # <<>>
      <4> DEFINE p == Slice(path, 0, u)
      <4>1. p \in Path /\ Len(p) = u /\ \A j \in 0..(u - 1) : Char(p, j) = Char(path, j)
        BY <3>1, Slices DEF Path
      <4> HIDE DEF p
      <4>2. u - 1 \in 0..(u - 1) /\ u - 1 < N /\ u - 1 < Len(p) /\ u \in 1..Len(p)
        BY <1>8, <3>1, <4>1
      <4>3. ~IsSep(p, u - 1)
        BY <1>9, <2>12, <3>1, <4>1, <4>2 DEF IsSep
      <4>4. Along(p)[u] # <<>>
        BY <4>1, <4>2, <4>3, NameBegun DEF Path
      <4> QED BY <3>3, <4>1, <4>4 DEF Names, p
    <3>5. ~(Len(Names(P)) <= 1)
      <4>1. Len(a) # 0
        BY <2>8, <3>4, EmptySeq DEF Place
      <4> QED BY <2>10, <4>1
    <3> QED BY <2>10, <3>1, <3>2, <3>3, <3>5 DEF u, P
  <2> QED BY <1>8, <1>9, <2>11, <2>12
<1> QED BY <1>4, <1>12, <1>13

LEMMA ClimbIs ==
    ASSUME FilesIInv, ClimbOn
    PROVE  /\ fpc = "climb" /\ op.path \in Path /\ op.path # <<>> /\ at \in 0..Len(op.path)
           /\ at = Len(op.path) \/ IsSep(op.path, at)
           /\ at' = PathUpIndex(op.path, at)
           /\ fpc' = IF at' > -1 THEN "climb" ELSE "idle"
           /\ alive = "running" /\ alive' = alive
           /\ dirs' = dirs /\ files' = files /\ op' = op /\ making' = making /\ ok' = ok
           /\ result' = result /\ out' = out
           /\ ops' = ops /\ changes' = changes /\ before' = before /\ faulty' = faulty
  BY DEF FilesIInv, FilesTypes, ClimbOn, Running, tree, histories

LEMMA ClimbKeeps == FilesIInv /\ ClimbOn => FilesIInv'
<1> SUFFICES ASSUME FilesIInv, ClimbOn PROVE FilesIInv'
  OBVIOUS
<1> DEFINE up == PathUpIndex(op.path, at)
<1>1. /\ fpc = "climb" /\ op.path \in Path /\ op.path # <<>> /\ at \in 0..Len(op.path)
      /\ at = Len(op.path) \/ IsSep(op.path, at)
      /\ at' = up
      /\ fpc' = IF at' > -1 THEN "climb" ELSE "idle"
      /\ alive = "running" /\ alive' = alive
      /\ dirs' = dirs /\ files' = files /\ op' = op /\ making' = making /\ ok' = ok
      /\ result' = result /\ out' = out
      /\ ops' = ops /\ changes' = changes /\ before' = before /\ faulty' = faulty
  BY ClimbIs
<1>2. /\ up \in -1..(at - 1) \/ up = -1
      /\ up >= 0 => IsSep(op.path, up)
  BY <1>1, UpIndexIs
<1> HIDE DEF up
<1>3. Len(op.path) \in Nat /\ FilesTypes /\ InCall
  BY <1>1, LenProperties DEF FilesIInv, Path
<1>4. at' \in Int /\ (at' > -1 => at' \in 0..Len(op.path) /\ IsSep(op.path, at'))
  BY <1>1, <1>2, <1>3
<1>5. Grown(dirs, DOMAIN files)'
  BY <1>1, <1>3 DEF FilesTypes, Grown, IsTree
<1>6. fpc' \in {"climb", "idle"} /\ (fpc' = "climb" => at' > -1)
  BY <1>1
<1>7. FilesTypes'
  <2>1. fpc' = "climb" => op'.path # <<>> /\ at' \in 0..Len(op'.path) /\ IsSep(op'.path, at')
    BY <1>1, <1>4, <1>6
  <2> QED BY <1>1, <1>3, <1>4, <1>5, <1>6, <2>1 DEF FilesTypes, IsSep, Char
<1>8. op.kind = "climb"
  BY <1>1, <1>3 DEF InCall
<1>9. InCall' /\ JustMade' /\ EndedByOthers'
  BY <1>1, <1>6, <1>8 DEF InCall, JustMade, EndedByOthers, Creates
<1> QED BY <1>7, <1>9 DEF FilesIInv

LEMMA OthersKeep == FilesIInv /\ Others => FilesIInv'
<1> SUFFICES ASSUME FilesIInv, Others PROVE FilesIInv'
  OBVIOUS
<1>1. FilesTypes /\ InCall /\ JustMade /\ Grown(dirs, DOMAIN files)
  BY DEF FilesIInv, FilesTypes
<1>2. ASSUME NEW ds, NEW fs, Other(ds, fs), Grown(ds, DOMAIN fs) PROVE FilesIInv'
  <2>1. /\ alive = "running" /\ alive' = "running" /\ changes < MaxChanges /\ changes' = changes + 1
        /\ dirs' = ds /\ files' = fs /\ fpc' = fpc /\ op' = op /\ making' = making /\ at' = at
        /\ ok' = ok /\ result' = result /\ out' = out /\ ops' = ops /\ faulty' = faulty
        /\ before' = before
    BY <1>2 DEF Other, local
  <2>2. /\ changes' \in 0..MaxChanges /\ before.changes <= changes' /\ before.changes # changes'
    BY <1>1, <2>1, BoundsAssumption DEF FilesTypes
  <2>3. Grown(dirs, DOMAIN files)'
    BY <1>2, <2>1 DEF Grown, IsTree
  <2>4. FilesTypes'
    BY <1>1, <2>1, <2>2, <2>3 DEF FilesTypes, Behind, IsSep, Char
  <2>5. InCall'
    BY <1>1, <2>1 DEF InCall, Creates, Was
  <2>6. ~Quiet'
    BY <2>1, <2>2 DEF Quiet
  <2>7. JustMade' /\ EndedByOthers'
    BY <1>1, <2>1, <2>6 DEF JustMade, EndedByOthers
  <2> QED BY <2>4, <2>5, <2>7 DEF FilesIInv
<1>3. PICK place \in Shared :
          \/ OtherMakesDir(place) \/ OtherRemoves(place)
          \/ \E text \in Texts : OtherWrites(place, text)
  BY DEF Others
<1>4. place \in Place /\ place # <<>>
  BY PlacesThere
<1>5. CASE OtherMakesDir(place)
  <2>1. /\ place \notin dirs \cup DOMAIN files /\ Front(place) \in dirs
        /\ Other(dirs \cup {place}, files)
    BY <1>5 DEF OtherMakesDir, Free
  <2>2. Grown(dirs \cup {place}, DOMAIN files)
    BY <1>1, <1>4, <2>1, AddDir
  <2> QED BY <1>2, <2>1, <2>2
<1>6. CASE OtherRemoves(place)
  <2> DEFINE fs == [f \in DOMAIN files \ {place} |-> files[f]]
  <2>1. Other(dirs \ {place}, fs) /\ ~HasChild(place)
    BY <1>6 DEF OtherRemoves
  <2>2. Grown(dirs \ {place}, DOMAIN files \ {place})
    BY <1>1, <1>4, <2>1, TakeAway DEF HasChild
  <2>3. DOMAIN fs = DOMAIN files \ {place}
    OBVIOUS
  <2> HIDE DEF fs
  <2> QED BY <1>2, <2>1, <2>2, <2>3
<1>7. CASE \E text \in Texts : OtherWrites(place, text)
  <2>1. PICK text \in Texts : OtherWrites(place, text)
    BY <1>7
  <2> DEFINE fs == Put(place, text)
  <2>2. Front(place) \in dirs /\ place \notin dirs /\ Other(dirs, fs)
    BY <2>1 DEF OtherWrites
  <2>3. DOMAIN fs = DOMAIN files \cup {place}
    BY DEF Put
  <2>4. Grown(dirs, DOMAIN files \cup {place})
    BY <1>1, <1>4, <2>2, AddFile
  <2> HIDE DEF fs
  <2> QED BY <1>2, <2>2, <2>3, <2>4
<1> QED BY <1>3, <1>5, <1>6, <1>7

LEMMA NothingKeeps == FilesIInv /\ UNCHANGED fileVars => FilesIInv'
<1> SUFFICES ASSUME FilesIInv, UNCHANGED fileVars PROVE FilesIInv'
  OBVIOUS
<1>1. /\ dirs' = dirs /\ files' = files /\ op' = op /\ making' = making /\ at' = at /\ ok' = ok
      /\ result' = result /\ out' = out /\ fpc' = fpc /\ alive' = alive
      /\ ops' = ops /\ changes' = changes /\ before' = before /\ faulty' = faulty
  BY DEF fileVars, tree, local, histories
<1>2. FilesTypes /\ InCall /\ JustMade /\ EndedByOthers
  BY DEF FilesIInv
<1>3. FilesTypes'
  <2>1. Grown(dirs, DOMAIN files)'
    BY <1>1, <1>2 DEF FilesTypes, Grown, IsTree
  <2> QED BY <1>1, <1>2, <2>1 DEF FilesTypes, Behind, IsSep, Char
<1>4. InCall'
  BY <1>1, <1>2 DEF InCall, Creates, Was
<1>5. JustMade' /\ EndedByOthers'
  BY <1>1, <1>2 DEF JustMade, EndedByOthers, Quiet
<1> QED BY <1>3, <1>4, <1>5 DEF FilesIInv

LEMMA FilesStep == FilesIInv /\ [FilesNext]_fileVars => FilesIInv'
  BY CallsKeep, CheckKeeps, MakeKeeps, VerifyKeeps, WritesKeep, ReadKeeps, LengthKeeps, RemovesKeep,
     RenameKeeps, ClimbKeeps, OthersKeep, NothingKeeps
     DEF FilesNext, SystemCall, Rmdir, Unlink

LEMMA FilesAlways == FilesSpec => []FilesIInv
<1>1. FilesInit => FilesIInv
  BY FilesBegin
<1>2. FilesIInv /\ [FilesNext]_fileVars => FilesIInv'
  BY FilesStep
<1> QED BY <1>1, <1>2, PTL DEF FilesSpec

\* For all paths, trees and names, whatever calls are made, whichever system
\* calls fail and whatever other processes do: the directories and files stay
\* a tree (every rename, too, leaves what is below in place), the offset into
\* the path that is made or climbed stays in it, and only another process, or
\* a system call that fails without need, can end the program, by the
\* assertion of Dir_Create or the fclose of File_GetLength.
THEOREM FilesAreATree == FilesSpec => []FilesInv
<1>1. FilesIInv => FilesInv
  <2> SUFFICES ASSUME FilesIInv PROVE FilesInv
    OBVIOUS
  <2>1. FilesTypes /\ EndedByOthers
    BY DEF FilesIInv
  <2> QED BY <2>1 DEF FilesTypes, FilesInv, FilesTypeOK, Grown
<1> QED BY <1>1, FilesAlways, PTL

\* Climbing any path by PathUpIndex, from its end, always goes on to an offset
\* before the last name and no further than that name's parent, until one name
\* or none is left: every parent is visited once, the nearest first.
THEOREM ClimbingVisitsEveryParent == FilesSpec => ClimbsByOneName
<1> DEFINE Climbed == fpc = "climb" /\ UNCHANGED changes =>
               LET names(i) == Names(Slice(op.path, 0, i))
               IN  /\ at' < at
                   /\ at' > -1 => names(at') = Front(names(at))
                   /\ at' = -1 <=> Len(names(at)) <= 1
<1>1. FilesIInv /\ [FilesNext]_fileVars => [Climbed]_fileVars
  <2> SUFFICES ASSUME FilesIInv, FilesNext, fpc = "climb", changes' = changes
               PROVE  LET names(i) == Names(Slice(op.path, 0, i))
                      IN  /\ at' < at
                          /\ at' > -1 => names(at') = Front(names(at))
                          /\ at' = -1 <=> Len(names(at)) <= 1
    OBVIOUS
  <2>1. ClimbOn
    <3>1. ~Calls
      BY DEF Calls, DirCreate, FileCreate, SetContent, GetContent, GetLength, PathRemove, PathMove, Joins,
             CardPaths, FullPath, Climbs, OnFile, Begins, Alone, Enters, Running
    <3>2. ~Others
      <4>1. changes \in Int
        BY DEF FilesIInv, FilesTypes
      <4>2. ASSUME NEW ds, NEW fs PROVE ~Other(ds, fs)
        BY <4>1 DEF Other
      <4> QED BY <4>2, Zenon DEF Others, OtherMakesDir, OtherRemoves, OtherWrites
    <3>3. SystemCall
      BY <3>1, <3>2 DEF FilesNext
    <3> QED BY <3>3 DEF SystemCall, CheckComponent, MakeComponent, VerifyDir, OpenNew, WriteContent,
                        ReadContent, ReadLength, Rmdir, Unlink, RemoveIt, Rename, Running
  <2>2. /\ op.path \in Path /\ op.path # <<>> /\ at \in 0..Len(op.path)
        /\ at = Len(op.path) \/ IsSep(op.path, at)
        /\ at' = PathUpIndex(op.path, at)
    BY <2>1, ClimbIs
  <2> DEFINE up == PathUpIndex(op.path, at)
             name(i) == Names(Slice(op.path, 0, i))
  <2>3. /\ up \in -1..(at - 1) \/ (up = -1 /\ at = 0)
        /\ up >= 0 => IsSep(op.path, up) /\ name(up) = Front(name(at))
        /\ up = -1 <=> Len(name(at)) <= 1
    BY <2>2, UpIndexIs
  <2>4. at \in Int /\ at' = up
    BY <2>2
  <2> HIDE DEF up, name
  <2>5. /\ at' < at
        /\ at' > -1 => name(at') = Front(name(at))
        /\ at' = -1 <=> Len(name(at)) <= 1
    BY <2>3, <2>4
  <2> QED BY <2>5 DEF name
<1> QED BY <1>1, FilesAlways, PTL DEF FilesSpec, ClimbsByOneName

-----------------------------------------------------------------------------
(* Where the paths that are computed lead.                                 *)

\* The names there are: never empty, never with a separator.
Proper == {w \in Path : w # <<>> /\ \A j \in 1..Len(w) : w[j] # Sep}

LEMMA ProperIs ==
    ASSUME NEW w \in Proper
    PROVE  w \in Path /\ w # <<>> /\ (\A j \in 0..(Len(w) - 1) : ~IsSep(w, j)) /\ Names(w) = <<w>>
<1>1. w \in Path /\ w # <<>> /\ (\A j \in 1..Len(w) : w[j] # Sep) /\ Len(w) \in Nat
  BY LenProperties DEF Proper, Path
<1>2. \A j \in 0..(Len(w) - 1) : ~IsSep(w, j)
  <2>1. \A j \in 0..(Len(w) - 1) : j + 1 \in 1..Len(w)
    BY <1>1
  <2> QED BY <1>1, <2>1 DEF IsSep, Char
<1>3. Names(w) = <<w>>
  BY <1>1, <1>2, OneName
<1> QED BY <1>1, <1>2, <1>3

LEMMA LongerProper ==
    ASSUME NEW path \in Path, NEW k \in 1..Len(path), NEW names \in Seq(Proper)
    PROVE  Longer(path, k, names) \in Seq(Proper)
<1> DEFINE c == Char(path, k - 1)
<1>1. k - 1 + 1 = k /\ c \in Chars /\ k - 1 < Len(path)
  BY DEF Char, Path
<1>2. CASE IsSep(path, k - 1)
  BY <1>2 DEF Longer
<1>3. CASE ~IsSep(path, k - 1)
  <2>1. c # Sep
    BY <1>1, <1>3 DEF IsSep
  <2> HIDE DEF c
  <2>2. <<c>> \in Proper
    <3> DEFINE u == <<c>>
    <3>1. u \in Seq(Chars) /\ Len(u) = 1 /\ u[1] = c /\ u # <<>>
      BY <1>1
    <3> HIDE DEF u
    <3>2. \A j \in 1..Len(u) : u[j] # Sep
      <4>1. ASSUME NEW j \in 1..Len(u) PROVE u[j] # Sep
        <5>1. j = 1
          BY <3>1
        <5> QED BY <2>1, <3>1, <5>1
      <4> QED BY <4>1
    <3> QED BY <3>1, <3>2 DEF Proper, Path, u
  <2>3. Append(names, <<c>>) \in Seq(Proper)
    BY <2>2, AppendProperties
  <2>4. [names EXCEPT ![Len(names)] = Append(@, c)] \in Seq(Proper)
    <3>1. CASE names = <<>>
      <4>1. DOMAIN names = {}
        BY <3>1
      <4>2. [names EXCEPT ![Len(names)] = Append(@, c)] = names
        BY <4>1, <3>1
      <4> QED BY <4>2
    <3>2. CASE names # <<>>
      <4>1. Len(names) \in 1..Len(names)
        BY <3>2, EmptySeq
      <4> DEFINE l == names[Len(names)]
                 m == Append(l, c)
      <4>2. l \in Proper
        BY <4>1, ElementOfSeq
      <4>3. l \in Seq(Chars) /\ (\A j \in 1..Len(l) : l[j] # Sep) /\ Len(l) \in Nat
        BY <4>2, LenProperties DEF Proper, Path
      <4> HIDE DEF l
      <4>4. m \in Seq(Chars) /\ Len(m) = Len(l) + 1 /\ m[Len(l) + 1] = c /\ \A j \in 1..Len(l) : m[j] = l[j]
        BY <1>1, <4>3, AppendProperties
      <4> HIDE DEF m
      <4>5. m # <<>> /\ \A j \in 1..Len(m) : m[j] # Sep
        <5>1. \A j \in 1..Len(m) : j = Len(l) + 1 \/ j \in 1..Len(l)
          BY <4>3, <4>4
        <5>2. Len(m) # 0
          BY <4>3, <4>4
        <5> QED BY <2>1, <4>3, <4>4, <5>1, <5>2
      <4>6. m \in Proper
        BY <4>4, <4>5 DEF Proper, Path
      <4>7. [names EXCEPT ![Len(names)] = m] \in Seq(Proper)
        BY <4>1, <4>6, ExceptSeq
      <4> QED BY <4>7 DEF l, m
    <3> QED BY <3>1, <3>2
  <2> QED BY <1>3, <2>3, <2>4 DEF Longer, c
<1> QED BY <1>2, <1>3

LEMMA NamesAreProper ==
    ASSUME NEW path \in Path
    PROVE  Names(path) \in Seq(Proper)
<1> DEFINE N == Len(path)
           S == {n \in 0..N : Along(path)[n] \in Seq(Proper)}
<1>1. N \in Nat /\ path \in Seq(Chars)
  BY LenProperties DEF Path
<1>2. 0 \in S
  BY <1>1, AlongGrows
<1>3. ASSUME NEW n \in 0..(N - 1), n \in S PROVE n + 1 \in S
  <2>1. n + 1 \in 1..N /\ n + 1 - 1 = n /\ n + 1 \in 0..N
    BY <1>1
  <2>2. Along(path)[n + 1] = Longer(path, n + 1, Along(path)[n])
    BY <1>1, <2>1, AlongGrows
  <2>3. Along(path)[n] \in Seq(Proper)
    BY <1>3
  <2>4. Longer(path, n + 1, Along(path)[n]) \in Seq(Proper)
    BY <2>1, <2>3, LongerProper
  <2> QED BY <2>1, <2>2, <2>4
<1>4. 0..N \subseteq S
  <2> HIDE DEF S
  <2> QED BY <1>1, <1>2, <1>3, BoundedInduction
<1> QED BY <1>1, <1>4 DEF Names

\* A separator and a name behind a path lead on to that name.
LEMMA OneMore ==
    ASSUME NEW p \in Path, NEW w \in Proper
    PROVE  /\ p \o <<Sep>> \o w \in Path /\ Names(p \o <<Sep>> \o w) = Names(p) \o <<w>>
           /\ p = <<>> \/ Absolute(p) => Absolute(p \o <<Sep>> \o w)
<1> DEFINE t == <<Sep>>
           q == p \o t
           r == q \o w
<1>1. t \in Path /\ Len(t) = 1 /\ t[1] = Sep
  BY ArgsArePaths
<1>2. w \in Path /\ w # <<>> /\ Names(w) = <<w>>
  BY ProperIs
<1> HIDE DEF t
<1>3. /\ q \in Path /\ Len(q) = Len(p) + Len(t)
      /\ \A i \in 1..(Len(p) + Len(t)) : q[i] = IF i <= Len(p) THEN p[i] ELSE t[i - Len(p)]
  BY <1>1, ConcatProperties DEF Path
<1>4. Len(p) \in Nat /\ Len(w) \in Nat
  BY <1>2, LenProperties DEF Path
<1>5. Last(q) = Sep
  BY <1>1, <1>3, <1>4 DEF Last
<1>6. Names(q) = Names(p)
  <2>1. Names(t) = <<>>
    <3>1. \A i \in 0..(Len(t) - 1) : IsSep(t, i)
      BY <1>1 DEF IsSep, Char
    <3> QED BY <1>1, <3>1, OnlySeparators
  <2>2. Meets(p, t)
    BY <1>1 DEF Meets
  <2>3. Names(q) = Names(p) \o Names(t)
    BY <1>1, <2>2, NamesJoin DEF Path
  <2>4. Names(p) \o <<>> = Names(p)
    BY NamesArePlaces, ConcatEmptySeq DEF Place
  <2> QED BY <2>1, <2>3, <2>4
<1> HIDE DEF q
<1>7. /\ r \in Path /\ Len(r) = Len(q) + Len(w)
      /\ \A i \in 1..(Len(q) + Len(w)) : r[i] = IF i <= Len(q) THEN q[i] ELSE w[i - Len(q)]
  <2>1. q \in Seq(Chars) /\ w \in Seq(Chars)
    BY <1>2, <1>3 DEF Path
  <2>2. /\ q \o w \in Seq(Chars) /\ Len(q \o w) = Len(q) + Len(w)
        /\ \A i \in 1..(Len(q) + Len(w)) : (q \o w)[i] = IF i <= Len(q) THEN q[i] ELSE w[i - Len(q)]
    BY <2>1, ConcatProperties
  <2> QED BY <2>2 DEF Path
<1>8. Names(r) = Names(p) \o <<w>>
  <2>1. Meets(q, w)
    BY <1>5 DEF Meets
  <2>2. Names(r) = Names(q) \o Names(w)
    BY <1>2, <1>3, <2>1, NamesJoin DEF Path
  <2> QED BY <1>2, <1>6, <2>2
<1>9. p = <<>> \/ Absolute(p) => Absolute(r)
  <2>1. Len(r) > 0 /\ r[1] = q[1]
    BY <1>1, <1>3, <1>4, <1>7
  <2>2. q[1] = IF Len(p) > 0 THEN p[1] ELSE Sep
    BY <1>1, <1>3, <1>4
  <2>3. p = <<>> \/ Absolute(p) => q[1] = Sep
    BY <1>4, <2>2 DEF Absolute, IsSep, Char
  <2> QED BY <2>1, <2>3 DEF Absolute, IsSep, Char
<1> QED BY <1>7, <1>8, <1>9 DEF r, q, t

\* The name of a place from the top leads there.
LEMMA WholeLeads ==
    ASSUME NEW names \in Seq(Proper), names # <<>>
    PROVE  LET w == Whole(names)[Len(names)]
           IN  w \in Path /\ Names(w) = names /\ Absolute(w)
<1> DEFINE N == Len(names)
           whole == Whole(names)
           S == {n \in 0..N : Names(whole[n]) = SubSeq(names, 1, n) /\ (n = 0 \/ Absolute(whole[n]))}
<1>1. N \in Nat \ {0} /\ names \in Seq(Path)
  <2>1. N \in Nat \ {0}
    BY EmptySeq
  <2>2. Proper \subseteq Path
    BY DEF Proper
  <2>3. names \in Seq(Path)
    <3>1. names \in [1..N -> Proper]
      BY LenProperties
    <3> QED BY <2>1, <2>2, <3>1
  <2> QED BY <2>1, <2>3
<1>2. whole \in [0..N -> Path] /\ whole[0] = <<>>
  BY <1>1, WholeGrows
<1>3. ASSUME NEW n \in 1..N PROVE whole[n] = whole[n - 1] \o <<Sep>> \o names[n]
  BY <1>1, WholeGrows
<1> HIDE DEF whole
<1>4. 0 \in S
  <2>1. SubSeq(names, 1, 0) = <<>> /\ Names(<<>>) = <<>>
    BY SubSeqEmpty, NamesType, ArgsArePaths DEF Path
  <2> QED BY <1>1, <1>2, <2>1
<1>5. ASSUME NEW n \in 0..(N - 1), n \in S PROVE n + 1 \in S
  <2>1. n + 1 \in 1..N /\ n + 1 - 1 = n /\ n + 1 \in 0..N /\ n \in 0..N
    BY <1>1
  <2> DEFINE p == whole[n]
             w == names[n + 1]
  <2>2. p \in Path /\ w \in Proper
    BY <1>2, <2>1, ElementOfSeq
  <2>3. whole[n + 1] = p \o <<Sep>> \o w
    <3> DEFINE m == n + 1
    <3>1. m \in 1..N /\ m - 1 = n
      BY <2>1
    <3> HIDE DEF m
    <3>2. whole[m] = whole[m - 1] \o <<Sep>> \o names[m]
      BY <1>3, <3>1
    <3>3. whole[m] = whole[n] \o <<Sep>> \o names[m]
      BY <3>1, <3>2
    <3> QED BY <3>3 DEF m
  <2>4. Names(p) = SubSeq(names, 1, n) /\ (p = <<>> \/ Absolute(p))
    BY <1>2, <1>5
  <2> HIDE DEF p, w
  <2>5. Names(whole[n + 1]) = Names(p) \o <<w>> /\ Absolute(whole[n + 1])
    BY <2>2, <2>3, <2>4, OneMore
  <2>6. SubSeq(names, 1, n + 1) = SubSeq(names, 1, n) \o <<w>>
    <3> DEFINE m == n + 1
    <3>1. m \in 1..Len(names) /\ 1 \in 1..Len(names) /\ m \in 1..Len(names) /\ m - 1 = n
      BY <1>1, <2>1
    <3> HIDE DEF m
    <3>2. SubSeq(names, 1, m) = SubSeq(names, 1, m - 1) \o <<names[m]>>
      BY <3>1, SubSeqRecursiveSecond
    <3>3. SubSeq(names, 1, m) = SubSeq(names, 1, n) \o <<names[m]>>
      BY <3>1, <3>2
    <3> QED BY <3>3 DEF m, w
  <2> QED BY <2>1, <2>4, <2>5, <2>6
<1>6. 0..N \subseteq S
  <2> HIDE DEF S
  <2> QED BY <1>1, <1>4, <1>5, BoundedInduction
<1>7. Names(whole[N]) = SubSeq(names, 1, N) /\ Absolute(whole[N])
  BY <1>1, <1>6
<1>8. SubSeq(names, 1, N) = names
  BY SubSeqFull
<1>9. whole[N] \in Path
  BY <1>1, <1>2
<1> QED BY <1>7, <1>8, <1>9 DEF whole

\* The extension goes to the last name of a path that does not end with a
\* separator.
LEMMA WithExtension ==
    ASSUME NEW p \in Path, p # <<>>, Last(p) # Sep
    PROVE  /\ Names(p) \in Place /\ Names(p) # <<>> /\ p \o Ext \in Path
           /\ Names(p \o Ext) = Front(Names(p)) \o <<Last(Names(p)) \o Ext>>
<1> DEFINE N == Len(p)
           s == BackToSep(p, N - 1)
           m == s + 1
           F == Slice(p, 0, m)
           w == Slice(p, m, N)
           v == w \o Ext
<1>1. N \in Nat \ {0} /\ p[N] # Sep /\ p \in Seq(Chars)
  BY LenProperties, EmptySeq DEF Path, Last
<1>2. s \in -1..(N - 1) /\ (s >= 0 => IsSep(p, s)) /\ \A j \in 0..(N - 1) : j > s => ~IsSep(p, j)
  <2>1. N - 1 \in -1..(Len(p) - 1)
    BY <1>1
  <2> QED BY <2>1, BackIs
<1> HIDE DEF s
<1>3. s # N - 1
  BY <1>1, <1>2 DEF IsSep, Char
<1>4. m \in 0..(N - 1) /\ m \in 0..N /\ m - 1 = s
  BY <1>1, <1>2, <1>3
<1>5. \A j \in m..(N - 1) : ~IsSep(p, j)
  BY <1>2, <1>4
<1>6. m = 0 \/ IsSep(p, m - 1)
  BY <1>2, <1>4
<1> HIDE DEF m
<1>7. /\ F \in Path /\ Len(F) = m /\ (\A j \in 0..(m - 1) : Char(F, j) = Char(p, j))
      /\ w \in Path /\ Len(w) = N - m /\ (\A j \in 0..(N - m - 1) : Char(w, j) = Char(p, m + j))
      /\ p = F \o w
  BY <1>1, <1>4, Slices DEF Path
<1> HIDE DEF F, w
<1>8. F = <<>> \/ Last(F) = Sep
  <2>1. CASE m = 0
    BY <1>7, <2>1, EmptySeq DEF Path
  <2>2. CASE m # 0
    <3>1. IsSep(p, m - 1) /\ m - 1 \in 0..(m - 1) /\ m - 1 + 1 = m
      BY <1>4, <1>6, <2>2
    <3> QED BY <1>7, <3>1 DEF IsSep, Char, Last
  <2> QED BY <2>1, <2>2
<1>9. w # <<>> /\ \A j \in 0..(Len(w) - 1) : ~IsSep(w, j)
  <2>1. w # <<>>
    BY <1>1, <1>4, <1>7
  <2>2. ASSUME NEW j \in 0..(Len(w) - 1) PROVE ~IsSep(w, j)
    <3>1. j \in 0..(N - m - 1) /\ m + j \in m..(N - 1) /\ m + j < N
      BY <1>1, <1>4, <1>7
    <3> QED BY <1>5, <1>7, <3>1 DEF IsSep
  <2> QED BY <2>1, <2>2
<1>10. Ext \in Seq(Chars) /\ (\A i \in 1..Len(Ext) : Ext[i] # Sep) /\ Len(Ext) \in Nat /\ Len(w) \in Nat
  <2>1. \A i \in 1..Len(Ext) : Ext[i] \in Range(Ext)
    <3>1. DOMAIN Ext = 1..Len(Ext)
      BY ExtAssumption
    <3> QED BY <3>1 DEF Range
  <2>2. Ext \in Seq(Chars)
    BY ArgsArePaths DEF Path
  <2> QED BY <1>7, <2>1, <2>2, ExtAssumption, LenProperties DEF Path
<1>11. /\ v \in Seq(Chars) /\ Len(v) = Len(w) + Len(Ext)
       /\ \A i \in 1..(Len(w) + Len(Ext)) : v[i] = IF i <= Len(w) THEN w[i] ELSE Ext[i - Len(w)]
  <2>1. w \in Seq(Chars)
    BY <1>7 DEF Path
  <2> QED BY <1>10, <2>1, ConcatProperties
<1>12. p \o Ext = F \o v /\ p \o Ext \in Path
  <2>1. F \in Seq(Chars) /\ w \in Seq(Chars)
    BY <1>7 DEF Path
  <2>2. (F \o w) \o Ext = F \o (w \o Ext)
    BY <1>10, <2>1, ConcatAssociative
  <2>3. p \o Ext \in Seq(Chars)
    BY <1>1, <1>10, ConcatProperties
  <2> QED BY <1>7, <2>2, <2>3 DEF Path
<1> HIDE DEF v
<1>13. v # <<>> /\ \A j \in 0..(Len(v) - 1) : ~IsSep(v, j)
  <2>1. Len(w) # 0
    BY <1>7, <1>9, EmptySeq DEF Path
  <2>2. ASSUME NEW j \in 0..(Len(v) - 1) PROVE ~IsSep(v, j)
    <3>1. j + 1 \in 1..(Len(w) + Len(Ext))
      BY <1>10, <1>11
    <3>2. CASE j < Len(w)
      <4>1. j \in 0..(Len(w) - 1) /\ j + 1 <= Len(w)
        BY <1>10, <1>11, <3>2
      <4>2. w[j + 1] # Sep
        BY <1>9, <3>2, <4>1 DEF IsSep, Char
      <4> QED BY <1>11, <3>1, <4>1, <4>2 DEF IsSep, Char
    <3>3. CASE ~(j < Len(w))
      <4>1. j + 1 - Len(w) \in 1..Len(Ext) /\ ~(j + 1 <= Len(w))
        BY <1>10, <1>11, <3>3
      <4>2. Ext[j + 1 - Len(w)] # Sep
        BY <1>10, <4>1
      <4> QED BY <1>11, <3>1, <4>1, <4>2 DEF IsSep, Char
    <3> QED BY <3>2, <3>3
  <2>3. Len(v) # 0
    BY <1>10, <1>11, <2>1
  <2> QED BY <2>2, <2>3
<1>14. v \in Path
  BY <1>11 DEF Path
<1>15. Names(w) = <<w>> /\ Names(v) = <<v>>
  BY <1>7, <1>9, <1>13, <1>14, OneName
<1>16. Names(p) = Names(F) \o Names(w) /\ Names(p \o Ext) = Names(F) \o Names(v)
  <2>1. Meets(F, w) /\ Meets(F, v)
    BY <1>8 DEF Meets
  <2>2. Names(F \o w) = Names(F) \o Names(w)
    BY <1>7, <2>1, NamesJoin DEF Path
  <2>3. Names(F \o v) = Names(F) \o Names(v)
    BY <1>7, <1>14, <2>1, NamesJoin DEF Path
  <2> QED BY <1>7, <1>12, <2>2, <2>3
<1>17. Names(F) \in Place /\ w \in AName
  BY <1>7, NamesArePlaces DEF AName, Path
<1> DEFINE a == Names(F)
<1>18. Names(p) = a \o <<w>> /\ Names(p \o Ext) = a \o <<v>>
  BY <1>15, <1>16
<1> HIDE DEF a
<1>19. /\ a \o <<w>> \in Place /\ Len(a \o <<w>>) = Len(a) + 1 /\ Front(a \o <<w>>) = a
       /\ Last(a \o <<w>>) = w /\ Len(a) \in Nat
  BY <1>17, AddName, LenProperties DEF a, Place
<1>20. Names(p) # <<>>
  BY <1>18, <1>19
<1>21. Front(Names(p)) = a /\ Last(Names(p)) = w
  BY <1>18, <1>19
<1> QED BY <1>12, <1>18, <1>19, <1>20, <1>21 DEF v

\* What is joined behind a path ends with its last name.
LEMMA RightEnds ==
    ASSUME NEW path \in Path, Names(path) # <<>>
    PROVE  Right(path) \in Path /\ Right(path) # <<>> /\ Last(Right(path)) # Sep
<1> DEFINE N == Len(path)
           S == {0} \cup {i \in 0..(N - 1) : ~IsSep(path, i)}
           e == TrimEnd(path)
           t == TrimStart(path)
           s == Skipped(path)
<1>1. N \in Nat \ {0} /\ path # <<>>
  <2>1. path # <<>>
    BY NamesType DEF Path
  <2> QED BY <2>1, LenProperties, EmptySeq DEF Path
<1>2. e \in Nat /\ t \in 0..e /\ e < N /\ \A j \in (e + 1)..(N - 1) : IsSep(path, j)
  BY <1>1, TrimIs
<1>3. e \in S
  <2>1. S # {} /\ \A x \in S : x \in Int /\ x <= N
    BY <1>1
  <2>2. e = Greatest(S)
    BY DEF TrimEnd
  <2> HIDE DEF S, e
  <2> QED BY <1>1, <2>1, <2>2, GreatestIs
<1> HIDE DEF e
<1>4. ~IsSep(path, e)
  <2>1. SUFFICES ASSUME IsSep(path, e) PROVE FALSE
    OBVIOUS
  <2>2. e = 0
    BY <1>3, <2>1
  <2>3. \A j \in 0..(N - 1) : j = 0 \/ j \in (e + 1)..(N - 1)
    BY <1>1, <2>2
  <2>4. \A j \in 0..(Len(path) - 1) : IsSep(path, j)
    BY <1>2, <2>1, <2>2, <2>3
  <2> QED BY <2>4, OnlySeparators
<1>5. s = IF IsSep(path, t) THEN t + 1 ELSE t
  BY DEF Skipped
<1> HIDE DEF t, s
<1> DEFINE n == e + 1
           R == Right(path)
<1>6. s \in Nat /\ n \in s..N /\ n - s >= 1 /\ n - 1 = e /\ e \in s..(N - 1)
  BY <1>1, <1>2, <1>4, <1>5
<1>7. R = Slice(path, s, n)
  BY DEF Right, e, s
<1> HIDE DEF n, R
<1>8. R \in Path /\ Len(R) = n - s /\ \A j \in 0..(n - s - 1) : Char(R, j) = Char(path, s + j)
  BY <1>6, <1>7, SliceIs
<1>9. n - s - 1 \in 0..(n - s - 1) /\ s + (n - s - 1) = e /\ n - s - 1 + 1 = n - s
  BY <1>1, <1>6
<1>10. R[n - s] = Char(path, e)
  BY <1>8, <1>9 DEF Char
<1>11. Last(R) # Sep
  BY <1>2, <1>4, <1>8, <1>10 DEF Last, IsSep
<1>12. R # <<>>
  BY <1>6, <1>8
<1> QED BY <1>8, <1>11, <1>12 DEF R

LEMMA ConcatEnds ==
    ASSUME NEW p \in Path, NEW q \in Path, Names(q) # <<>>
    PROVE  Concat(p, q) # <<>> /\ Last(Concat(p, q)) # Sep
<1> DEFINE K == Left(p) \o Joint(p, q)
           R == Right(q)
           c == Concat(p, q)
<1>1. R \in Seq(Chars) /\ R # <<>> /\ Last(R) # Sep
  BY RightEnds DEF Path
<1>2. K \in Seq(Chars)
  <2>1. Left(p) \in Seq(Chars) /\ Joint(p, q) \in Seq(Chars)
    BY LeftIs, ArgsArePaths DEF Joint, Path
  <2> QED BY <2>1, ConcatProperties
<1>3. c = K \o R
  BY DEF Concat
<1> HIDE DEF K, R, c
<1>4. /\ c \in Seq(Chars) /\ Len(c) = Len(K) + Len(R)
      /\ \A i \in 1..(Len(K) + Len(R)) : c[i] = IF i <= Len(K) THEN K[i] ELSE R[i - Len(K)]
  BY <1>1, <1>2, <1>3, ConcatProperties
<1>5. Len(K) \in Nat /\ Len(R) \in Nat \ {0}
  BY <1>1, <1>2, LenProperties, EmptySeq
<1>6. Len(c) \in 1..(Len(K) + Len(R)) /\ ~(Len(c) <= Len(K)) /\ Len(c) - Len(K) = Len(R) /\ Len(c) # 0
  BY <1>4, <1>5
<1>7. c[Len(c)] = R[Len(R)]
  BY <1>4, <1>6
<1> QED BY <1>1, <1>6, <1>7 DEF Last, c

LEMMA JoinLeads ==
    ASSUME NEW p \in Path, NEW q \in Path, NEW size \in Nat
    PROVE  LET c == Concat(p, q)
               text == Stored(c, size)
           IN  /\ Len(text) < size \/ size = 0
               /\ Len(c) < size => /\ Len(text) = Len(c) /\ Names(text) = Names(p) \o Names(q)
                                   /\ p # <<>> => Absolute(text) = Absolute(p)
<1>1. /\ Concat(p, q) \in Path /\ Names(Concat(p, q)) = Names(p) \o Names(q)
      /\ p # <<>> => (Absolute(Concat(p, q)) <=> Absolute(p))
  BY ConcatIs
<1>2. /\ Len(Stored(Concat(p, q), size)) < size \/ size = 0
      /\ Len(Concat(p, q)) < size => Stored(Concat(p, q), size) = Concat(p, q)
  BY <1>1, StoredIs
<1>3. Absolute(Concat(p, q)) \in BOOLEAN /\ Absolute(p) \in BOOLEAN
  BY DEF Absolute, IsSep
<1> QED BY <1>1, <1>2, <1>3

LEMMA CardLeads ==
    ASSUME NEW deck \in Path, NEW path \in Path, NEW size \in Nat, Names(path) # <<>>,
           CardPath(deck, path, Ext, size).needed > 0
    PROVE  LET text == CardPath(deck, path, Ext, size).text
               card == Names(path)
           IN  /\ Len(text) < size
               /\ Names(text) = Names(deck) \o Front(card) \o <<Last(card) \o Ext>>
<1> DEFINE c == Concat(deck, path)
           o == CardPath(deck, path, Ext, size)
           card == Names(path)
           a == Names(deck)
<1>1. c \in Path /\ Names(c) = a \o card /\ c # <<>> /\ Last(c) # Sep
  BY ConcatIs, ConcatEnds
<1>2. Ext \in Path /\ Len(Ext) \in Nat
  BY ArgsArePaths, LenProperties DEF Path
<1>3. o = IF c = <<>> \/ Len(c) + (Len(Ext) + 1) + 1 > size
          THEN [needed |-> 0, text |-> Stored(c, size)]
          ELSE [needed |-> Len(c \o Ext), text |-> c \o Ext]
  BY DEF CardPath
<1>4. a \in Place /\ card \in Place /\ card # <<>>
  BY NamesArePlaces
<1> HIDE DEF c, o, card, a
<1>5. o.needed > 0
  BY DEF o
<1>6. ~(Len(c) + (Len(Ext) + 1) + 1 > size) /\ o.text = c \o Ext
  <2>1. ~(c = <<>> \/ Len(c) + (Len(Ext) + 1) + 1 > size)
    <3>1. SUFFICES ASSUME c = <<>> \/ Len(c) + (Len(Ext) + 1) + 1 > size PROVE FALSE
      OBVIOUS
    <3>2. o.needed = 0
      BY <1>3, <3>1
    <3> QED BY <1>5, <3>2
  <2> QED BY <1>3, <2>1
<1>7. Len(c) \in Nat /\ Len(c \o Ext) = Len(c) + Len(Ext)
  BY <1>1, <1>2, LenProperties, ConcatProperties DEF Path
<1>8. Len(o.text) < size
  BY <1>2, <1>6, <1>7
<1>9. Names(c \o Ext) = Front(Names(c)) \o <<Last(Names(c)) \o Ext>>
  BY <1>1, WithExtension
<1>10. Front(a \o card) = a \o Front(card)
  BY <1>4, FrontOfRest
<1>11. Last(a \o card) = Last(card)
  <2>1. /\ Len(a \o card) = Len(a) + Len(card)
        /\ \A i \in 1..(Len(a) + Len(card)) : (a \o card)[i] = IF i <= Len(a) THEN a[i] ELSE card[i - Len(a)]
    BY <1>4, WithRest
  <2>2. Len(a) \in Nat /\ Len(card) \in Nat \ {0}
    BY <1>4, LenProperties, EmptySeq DEF Place
  <2>3. Len(a) + Len(card) \in 1..(Len(a) + Len(card)) /\ ~(Len(a) + Len(card) <= Len(a))
        /\ Len(a) + Len(card) - Len(a) = Len(card)
    BY <2>2
  <2>4. (a \o card)[Len(a) + Len(card)] = card[Len(card)]
    BY <2>1, <2>3
  <2> QED BY <2>1, <2>4 DEF Last
<1>12. Names(o.text) = (a \o Front(card)) \o <<Last(card) \o Ext>>
  BY <1>1, <1>6, <1>9, <1>10, <1>11
<1> QED BY <1>8, <1>12 DEF o, card, a

LEMMA FullLeads ==
    ASSUME NEW path \in Path, NEW cwd \in Path, Absolute(cwd), NEW size \in Nat
    PROVE  LET o == GetFull(cwd, path, size, Real(Asked(cwd, path, size)))
           IN  Len(Concat(cwd, path)) < size /\ o.needed > 0 =>
                  /\ o.needed = Len(o.text)
                  /\ Names(o.text) = Names(cwd) \o Names(path) /\ Absolute(o.text)
<1> DEFINE t == <<Sep>>
           c == Concat(cwd, path)
           along == Names(cwd) \o Names(path)
           asked == Asked(cwd, path, size)
           real == Real(asked)
           o == GetFull(cwd, path, size, real)
<1>1. t \in Path /\ Len(t) = 1 /\ t[1] = Sep /\ t # <<>>
  BY ArgsArePaths
<1> HIDE DEF t
<1>2. Names(t) = <<>> /\ Absolute(t)
  <2>1. \A i \in 0..(Len(t) - 1) : IsSep(t, i)
    BY <1>1 DEF IsSep, Char
  <2>2. Names(t) = <<>>
    BY <1>1, <2>1, OnlySeparators
  <2> QED BY <1>1, <2>2 DEF Absolute, IsSep, Char
<1>3. c \in Path /\ Names(c) = along /\ Absolute(c)
  <2>1. cwd # <<>>
    BY DEF Absolute, IsSep
  <2> QED BY <2>1, ConcatIs
<1> HIDE DEF along
<1>4. Len(c) < size => asked = c /\ Stored(c, size) = c
  BY <1>3, StoredIs DEF Asked
<1>5. o = IF size = 0 \/ cwd = <<>> THEN [needed |-> 0, text |-> <<>>]
          ELSE IF real = <<>> THEN [needed |-> Len(c), text |-> Stored(c, size)]
          ELSE [needed |-> Len(real), text |-> real]
  BY DEF GetFull
<1>6. Len(c) < size /\ real # <<>> => Names(real) = along /\ Absolute(real)
  <2>1. SUFFICES ASSUME asked = c, real # <<>> PROVE Names(real) = along /\ Absolute(real)
    BY <1>4
  <2> HIDE DEF c, asked
  <2>2. real = IF Names(c) = <<>> THEN <<Sep>> ELSE Whole(Names(c))[Len(Names(c))]
    BY <2>1 DEF Real
  <2>3. CASE Names(c) = <<>>
    BY <1>2, <1>3, <2>2, <2>3 DEF t
  <2>4. CASE Names(c) # <<>>
    <3>1. Names(c) \in Seq(Proper)
      BY <1>3, NamesAreProper
    <3> DEFINE names == Names(c)
               w == Whole(names)[Len(names)]
    <3>2. Names(w) = names /\ Absolute(w)
      <4> HIDE DEF names
      <4> QED BY <2>4, <3>1, WholeLeads DEF names
    <3>3. real = w
      BY <2>2, <2>4
    <3> HIDE DEF w, real
    <3> QED BY <1>3, <3>2, <3>3
  <2> QED BY <2>3, <2>4
<1> HIDE DEF c, asked, real, o
<1>7. Len(c) < size /\ o.needed > 0 => o.needed = Len(o.text) /\ Names(o.text) = along /\ Absolute(o.text)
  <2>1. SUFFICES ASSUME Len(c) < size, o.needed > 0
                 PROVE  o.needed = Len(o.text) /\ Names(o.text) = along /\ Absolute(o.text)
    OBVIOUS
  <2>2. CASE size = 0 \/ cwd = <<>>
    <3>1. o.needed = 0
      BY <1>5, <2>2
    <3> QED BY <2>1, <3>1
  <2>3. CASE ~(size = 0 \/ cwd = <<>>) /\ real = <<>>
    <3>1. o.needed = Len(c) /\ o.text = c
      BY <1>4, <1>5, <2>1, <2>3
    <3> QED BY <1>3, <3>1
  <2>4. CASE ~(size = 0 \/ cwd = <<>>) /\ real # <<>>
    <3>1. o.needed = Len(real) /\ o.text = real
      BY <1>5, <2>4
    <3> QED BY <1>6, <2>1, <2>4, <3>1
  <2> QED BY <2>2, <2>3, <2>4
<1> QED BY <1>7 DEF c, along, asked, real, o

LEMMA OnlyCallsLead ==
    FilesIInv /\ PathsLeadWhereNamed /\ (SystemCall \/ Others \/ UNCHANGED fileVars)
        => PathsLeadWhereNamed'
<1> SUFFICES ASSUME FilesIInv, PathsLeadWhereNamed, SystemCall \/ Others \/ UNCHANGED fileVars
             PROVE  PathsLeadWhereNamed'
  OBVIOUS
<1>1. InCall
  BY DEF FilesIInv
<1>2. CASE SystemCall
  <2>1. op' = op /\ fpc # "idle"
    BY <1>2 DEF SystemCall, CheckComponent, MakeComponent, VerifyDir, OpenNew, WriteContent,
                ReadContent, ReadLength, Rmdir, Unlink, RemoveIt, Rename, ClimbOn, Running, Gives, local
  <2>2. op.kind \notin {"concat", "card_path", "full"}
    BY <1>1, <2>1 DEF InCall, Creates
  <2> QED BY <2>1, <2>2 DEF PathsLeadWhereNamed, JoinLeadsAlongBoth, CardFileInDeck, FullPathResolves, Returned
<1>3. CASE Others \/ UNCHANGED fileVars
  <2>1. op' = op /\ fpc' = fpc /\ alive' = alive /\ out' = out /\ result' = result
    <3>1. CASE UNCHANGED fileVars
      BY <3>1 DEF fileVars, local
    <3>2. CASE Others
      <4>1. ASSUME NEW ds, NEW fs, Other(ds, fs)
            PROVE  op' = op /\ fpc' = fpc /\ alive' = alive /\ out' = out /\ result' = result
        BY <4>1 DEF Other, local
      <4> QED BY <3>2, <4>1, Zenon DEF Others, OtherMakesDir, OtherRemoves, OtherWrites
    <3> QED BY <1>3, <3>1, <3>2
  <2> QED BY <2>1 DEF PathsLeadWhereNamed, JoinLeadsAlongBoth, CardFileInDeck, FullPathResolves, Returned,
                      Running
<1> QED BY <1>2, <1>3

LEMMA CallsLead == FilesIInv /\ Calls => PathsLeadWhereNamed'
<1> SUFFICES ASSUME FilesIInv, Calls PROVE PathsLeadWhereNamed'
  OBVIOUS
<1>1. CASE op'.kind \notin {"concat", "card_path", "full"}
  BY <1>1 DEF PathsLeadWhereNamed, JoinLeadsAlongBoth, CardFileInDeck, FullPathResolves, Returned
<1>2. ASSUME NEW kind, NEW path, NEW other, NEW size, Enters(kind, path, other, size)
      PROVE  op'.kind = kind /\ op'.path = path /\ op'.other = other /\ op'.size = size
  BY <1>2 DEF Enters
<1>3. PICK path \in Args :
         \/ DirCreate(path) \/ FileCreate(path)
         \/ \E text \in Texts : SetContent(path, text)
         \/ GetContent(path) \/ GetLength(path) \/ PathRemove(path)
         \/ \E new \in Args : PathMove(path, new)
         \/ \E other \in Args, size \in Sizes :
              Joins(path, other, size) \/ CardPaths(path, other, size)
         \/ \E cwd \in Cwds, size \in Sizes : FullPath(path, cwd, size)
         \/ Climbs(path)
  BY DEF Calls
<1>4. path \in Path
  BY ArgsArePaths
<1>5. ASSUME NEW other \in Args, NEW size \in Sizes, Joins(path, other, size)
      PROVE  PathsLeadWhereNamed'
  <2> DEFINE c == Concat(path, other)
             text == Stored(c, size)
  <2>1. /\ op'.kind = "concat" /\ op'.path = path /\ op'.other = other /\ op'.size = size
        /\ out' = [needed |-> Len(c), text |-> text]
    BY <1>2, <1>5 DEF Joins, Alone, Computes
  <2>2. other \in Path /\ size \in Nat
    BY ArgsArePaths, BoundsAssumption
  <2>3. /\ Len(text) < size \/ size = 0
        /\ Len(c) < size => /\ Len(text) = Len(c) /\ Names(text) = Names(path) \o Names(other)
                            /\ path # <<>> => Absolute(text) = Absolute(path)
    BY <1>4, <2>2, JoinLeads
  <2> HIDE DEF text
  <2>4. JoinLeadsAlongBoth'
    BY <2>1, <2>3 DEF JoinLeadsAlongBoth
  <2>5. CardFileInDeck' /\ FullPathResolves'
    BY <2>1 DEF CardFileInDeck, FullPathResolves, Returned
  <2> QED BY <2>4, <2>5 DEF PathsLeadWhereNamed
<1>6. ASSUME NEW other \in Args, NEW size \in Sizes, CardPaths(path, other, size)
      PROVE  PathsLeadWhereNamed'
  <2> DEFINE o == CardPath(path, other, Ext, size)
  <2>1. /\ op'.kind = "card_path" /\ op'.path = path /\ op'.other = other /\ op'.size = size
        /\ out' = o /\ result' = (o.needed > 0)
    BY <1>2, <1>6 DEF CardPaths, Alone, Computes
  <2>2. other \in Path /\ size \in Nat
    BY ArgsArePaths, BoundsAssumption
  <2> DEFINE card == Names(other)
  <2>3. card # <<>> /\ o.needed > 0 =>
           /\ Len(o.text) < size
           /\ Names(o.text) = Names(path) \o Front(card) \o <<Last(card) \o Ext>>
    BY <1>4, <2>2, CardLeads
  <2> HIDE DEF o
  <2>4. CardFileInDeck'
    BY <2>1, <2>3 DEF CardFileInDeck
  <2>5. JoinLeadsAlongBoth' /\ FullPathResolves'
    BY <2>1 DEF JoinLeadsAlongBoth, FullPathResolves, Returned
  <2> QED BY <2>4, <2>5 DEF PathsLeadWhereNamed
<1>7. ASSUME NEW cwd \in Cwds, NEW size \in Sizes, FullPath(path, cwd, size)
      PROVE  PathsLeadWhereNamed'
  <2> DEFINE o == GetFull(cwd, path, size, Real(Asked(cwd, path, size)))
  <2>1. /\ op'.kind = "full" /\ op'.path = path /\ op'.other = cwd /\ op'.size = size
        /\ out' = o /\ result' = (o.needed > 0)
    BY <1>2, <1>7 DEF FullPath, Alone, Computes
  <2>2. cwd \in Path /\ Absolute(cwd) /\ size \in Nat
    BY ArgsArePaths, CwdsAssumption, BoundsAssumption
  <2>3. Len(Concat(cwd, path)) < size /\ o.needed > 0 =>
           /\ o.needed = Len(o.text)
           /\ Names(o.text) = Names(cwd) \o Names(path) /\ Absolute(o.text)
    BY <1>4, <2>2, FullLeads
  <2> HIDE DEF o
  <2>4. FullPathResolves'
    BY <2>1, <2>3 DEF FullPathResolves
  <2>5. JoinLeadsAlongBoth' /\ CardFileInDeck'
    BY <2>1 DEF JoinLeadsAlongBoth, CardFileInDeck, Returned
  <2> QED BY <2>4, <2>5 DEF PathsLeadWhereNamed
<1>8. CASE \/ DirCreate(path) \/ FileCreate(path)
           \/ \E text \in Texts : SetContent(path, text)
           \/ GetContent(path) \/ GetLength(path) \/ PathRemove(path)
           \/ \E new \in Args : PathMove(path, new)
           \/ Climbs(path)
  <2>1. op'.kind \notin {"concat", "card_path", "full"}
    BY <1>2, <1>8 DEF DirCreate, FileCreate, SetContent, GetContent, GetLength, PathRemove, PathMove,
                      Climbs, OnFile, Begins, Alone
  <2> QED BY <1>1, <2>1
<1> QED BY <1>3, <1>5, <1>6, <1>7, <1>8

\* For all paths, buffers and trees: a joined path leads along the names of
\* both its parts, from the top if and only if the first does; the path that
\* is composed for a card's file is the card's name with the extension, in the
\* deck, and fits the buffer; and a path that is resolved leads along the names
\* of the working directory, whichever that is, and of the given path, by a name
\* that is as long as what is returned.
THEOREM PathsAlwaysLead == FilesSpec => []PathsLeadWhereNamed
<1>1. FilesInit => PathsLeadWhereNamed
  BY DEF FilesInit, NoOp, PathsLeadWhereNamed, JoinLeadsAlongBoth, CardFileInDeck, FullPathResolves, Returned
<1>2. FilesIInv /\ PathsLeadWhereNamed /\ [FilesNext]_fileVars => PathsLeadWhereNamed'
  BY CallsLead, OnlyCallsLead DEF FilesNext
<1> QED BY <1>1, <1>2, FilesAlways, PTL DEF FilesSpec

-----------------------------------------------------------------------------
(* What creating does.                                                     *)

LEMMA PrefixesAre ==
    ASSUME NEW t \in Place, NEW s
    PROVE  s \in Prefixes(t) <=> s \in Place /\ IsPrefix(s, t)
<1>1. Len(t) \in Nat
  BY LenProperties DEF Place
<1>2. ASSUME s \in Prefixes(t) PROVE s \in Place /\ IsPrefix(s, t)
  <2>1. PICK l \in 0..Len(t) : s = SubSeq(t, 1, l)
    BY <1>2 DEF Prefixes
  <2>2. \A i \in 1..l : t[i] \in AName
    BY <1>1, ElementOfSeq DEF Place
  <2>3. /\ SubSeq(t, 1, l) \in Seq(AName) /\ Len(SubSeq(t, 1, l)) = IF 1 <= l THEN l - 1 + 1 ELSE 0
        /\ \A i \in 1..(l - 1 + 1) : SubSeq(t, 1, l)[i] = t[1 + i - 1]
    BY <1>1, <2>2, SubSeqProperties
  <2>4. s \in Seq(AName) /\ Len(s) = l /\ \A i \in 1..l : s[i] = t[i]
    BY <1>1, <2>1, <2>3
  <2>5. Len(s) <= Len(t) /\ \A i \in 1..Len(s) : s[i] = t[i]
    BY <1>1, <2>4
  <2> QED BY <2>4, <2>5, PrefixIs DEF Place
<1>3. ASSUME s \in Place, IsPrefix(s, t) PROVE s \in Prefixes(t)
  <2>1. SubSeq(s, 1, Len(s)) = s /\ Len(s) \in Nat
    BY <1>3, SubSeqFull, LenProperties DEF Place
  <2>2. Len(s) \in 0..Len(t) /\ s = SubSeq(t, 1, Len(s))
    BY <1>1, <1>3, <2>1 DEF IsPrefix
  <2> QED BY <2>2 DEF Prefixes
<1> QED BY <1>2, <1>3

LEMMA PrefixesGrow ==
    ASSUME NEW t \in Place
    PROVE  /\ t \in Prefixes(t) /\ \A s \in Prefixes(t) : Prefixes(s) \subseteq Prefixes(t)
           /\ t = <<>> => Prefixes(t) = {<<>>}
           /\ t # <<>> => Prefixes(t) = Prefixes(Front(t)) \cup {t} /\ t \notin Prefixes(Front(t))
<1>1. Len(t) \in Nat /\ <<>> \in Place /\ Len(<<>>) = 0
  BY LenProperties, EmptySeq DEF Place
<1>2. IsPrefix(t, t)
  BY <1>1 DEF IsPrefix
<1>3. \A s \in Place : s \in Prefixes(t) <=> IsPrefix(s, t)
  BY PrefixesAre
<1>4. ASSUME NEW s \in Prefixes(t), NEW r \in Prefixes(s) PROVE r \in Prefixes(t)
  <2>1. s \in Place /\ IsPrefix(s, t)
    BY PrefixesAre
  <2>2. r \in Place /\ IsPrefix(r, s)
    BY <2>1, PrefixesAre
  <2> QED BY <1>3, <2>1, <2>2, PrefixTransitive
<1>5. ASSUME t = <<>> PROVE Prefixes(t) = {<<>>}
  <2>1. \A s \in Prefixes(t) : s = <<>>
    <3>1. ASSUME NEW s \in Prefixes(t) PROVE s = <<>>
      <4>1. s \in Place /\ IsPrefix(s, t)
        BY PrefixesAre
      <4>2. Len(s) = 0
        BY <1>1, <1>5, <4>1, LenProperties DEF IsPrefix, Place
      <4> QED BY <4>1, <4>2, EmptySeq DEF Place
    <3> QED BY <3>1
  <2> QED BY <1>2, <1>3, <1>5, <2>1
<1>6. ASSUME t # <<>> PROVE Prefixes(t) = Prefixes(Front(t)) \cup {t} /\ t \notin Prefixes(Front(t))
  <2> DEFINE f == Front(t)
  <2>1. /\ IsPrefix(f, t) /\ f # t /\ f \in Place
        /\ \A s \in Place : IsPrefix(s, t) /\ s # t => IsPrefix(s, f)
    BY <1>1, <1>6, PrefixOfFront
  <2>2. Len(t) # 0 /\ Len(f) = Len(t) - 1
    BY <1>6, FrontOf, EmptySeq DEF Place
  <2> HIDE DEF f
  <2>3. \A s : s \in Prefixes(f) <=> s \in Place /\ IsPrefix(s, f)
    BY <2>1, PrefixesAre
  <2>4. \A s : s \in Prefixes(t) <=> s \in Place /\ IsPrefix(s, t)
    BY PrefixesAre
  <2>5. \A s \in Prefixes(t) : s \in Prefixes(f) \/ s = t
    BY <2>1, <2>3, <2>4
  <2>6. Prefixes(f) \subseteq Prefixes(t)
    BY <1>3, <1>4, <2>1
  <2>7. t \notin Prefixes(f)
    <3>1. ~IsPrefix(t, f)
      BY <1>1, <2>2 DEF IsPrefix
    <3> QED BY <2>3, <3>1
  <2>8. t \in Prefixes(t)
    BY <1>2, <1>3
  <2> QED BY <2>5, <2>6, <2>7, <2>8 DEF f
<1> QED BY <1>2, <1>3, <1>4, <1>5, <1>6

\* The names of a parent are those before the last.
LEMMA ParentNames ==
    ASSUME NEW path \in Path, path # <<>>, Last(path) # Sep
    PROVE  Names(path) # <<>> /\ Front(Names(path)) = Names(ParentOf(path)) /\ Names(path) \in Place
<1> DEFINE N == Len(path)
<1>1. N \in Nat \ {0} /\ path[N] # Sep
  BY LenProperties, EmptySeq DEF Path, Last
<1>2. PICK k \in 0..N : /\ ParentOf(path) = Slice(path, 0, k)
                        /\ k = 0 \/ IsSep(path, k)
                        /\ \A j \in (k + 1)..(N - 1) : ~IsSep(path, j)
  BY ParentIs
<1> DEFINE m == IF IsSep(path, k) THEN k + 1 ELSE 0
           F == Slice(path, 0, m)
           w == Slice(path, m, N)
<1>3. m \in 0..(N - 1) /\ m \in 0..N /\ Behind(path, m) /\ \A j \in m..(N - 1) : ~IsSep(path, j)
  <2>1. CASE IsSep(path, k)
    <3>1. k < N /\ k # N - 1 /\ m = k + 1 /\ m - 1 = k
      BY <1>1, <2>1 DEF IsSep, Char
    <3> QED BY <1>1, <1>2, <2>1, <3>1 DEF Behind
  <2>2. CASE ~IsSep(path, k)
    <3>1. m = 0 /\ k = 0
      BY <1>2, <2>2
    <3>2. \A j \in 0..(N - 1) : j = 0 \/ j \in (k + 1)..(N - 1)
      BY <1>1, <3>1
    <3> QED BY <1>1, <1>2, <2>2, <3>1, <3>2 DEF Behind
  <2> QED BY <2>1, <2>2
<1>4. Names(F) = Names(Slice(path, 0, k))
  <2>1. CASE IsSep(path, k)
    <3>1. m = k + 1 /\ k \in 0..m
      BY <1>1, <2>1
    <3>2. Slice(F, 0, k) = Slice(path, 0, k)
      BY <1>3, <3>1, SliceOfSlice
    <3> HIDE DEF m
    <3>3. F \in Path /\ Len(F) = m /\ \A j \in 0..(m - 1) : Char(F, j) = Char(path, j)
      BY <1>3, Slices DEF Path
    <3> HIDE DEF F
    <3>4. \A j \in k..(Len(F) - 1) : IsSep(F, j)
      <4>1. ASSUME NEW j \in k..(Len(F) - 1) PROVE IsSep(F, j)
        <5>1. j = k /\ j \in 0..(m - 1) /\ j < Len(F)
          BY <1>1, <3>1, <3>3
        <5> QED BY <2>1, <3>3, <5>1 DEF IsSep
      <4> QED BY <4>1
    <3>5. 0 \in 0..Len(F) /\ k \in 0..Len(F) /\ \A j \in 0..(0 - 1) : IsSep(F, j)
      BY <1>1, <3>1, <3>3
    <3>6. Names(Slice(F, 0, k)) = Names(F)
      BY <3>3, <3>4, <3>5, MiddleNames
    <3> QED BY <3>2, <3>6
  <2>2. CASE ~IsSep(path, k)
    BY <1>2, <2>2
  <2> QED BY <2>1, <2>2
<1> HIDE DEF m
<1>5. /\ F \in Path /\ w \in Path /\ Len(w) = N - m
      /\ \A j \in 0..(N - m - 1) : Char(w, j) = Char(path, m + j)
  BY <1>3, Slices DEF Path
<1>6. Names(path) = Names(F) \o Names(w)
  BY <1>3, SplitAt
<1> HIDE DEF F, w
<1>7. Names(w) = <<w>>
  <2>1. \A j \in 0..(Len(w) - 1) : ~IsSep(w, j)
    <3>1. ASSUME NEW j \in 0..(Len(w) - 1) PROVE ~IsSep(w, j)
      <4>1. j \in 0..(N - m - 1) /\ m + j \in m..(N - 1) /\ m + j < N
        BY <1>1, <1>3, <1>5
      <4> QED BY <1>3, <1>5, <4>1 DEF IsSep
    <3> QED BY <3>1
  <2>2. w # <<>>
    BY <1>1, <1>3, <1>5
  <2> QED BY <1>5, <2>1, <2>2, OneName
<1> DEFINE a == Names(F)
<1>8. a \in Place /\ w \in AName
  BY <1>5, NamesArePlaces DEF Path, AName
<1>9. Names(path) = a \o <<w>>
  BY <1>6, <1>7
<1> HIDE DEF a
<1>10. /\ a \o <<w>> \in Place /\ Len(a \o <<w>>) = Len(a) + 1 /\ Front(a \o <<w>>) = a /\ Len(a) \in Nat
  BY <1>8, AddName, LenProperties DEF Place
<1>11. Names(path) # <<>>
  BY <1>9, <1>10
<1>12. Front(Names(path)) = a
  BY <1>9, <1>10
<1> QED BY <1>2, <1>4, <1>9, <1>10, <1>11, <1>12 DEF a

-----------------------------------------------------------------------------
(* What a creation does.                                                   *)

\* Only what nobody interferes with, and only a creation, is spoken of.
LEMMA NothingToSay ==
    ASSUME FilesIInv', TopWas', ~(Quiet' /\ op'.kind \in Creates)
    PROVE  CreatesIInv'
<1>1. fpc' \in {"component", "verify"} => op'.kind \in Creates
  BY DEF FilesIInv, InCall
<1>2. NotThere'
  BY <1>1 DEF NotThere
<1>3. SoFar'
  BY DEF SoFar, Undisturbed
<1>4. OnlyThePathAdded'
  BY DEF OnlyThePathAdded, Creates
<1>5. DirCreateAnswers' /\ FileCreateAnswers'
  BY DEF DirCreateAnswers, FileCreateAnswers, Returned, Creates
<1> QED BY <1>2, <1>3, <1>4, <1>5 DEF CreatesIInv

LEMMA CreatesBegin == FilesInit => CreatesIInv
<1> SUFFICES ASSUME FilesInit PROVE CreatesIInv
  OBVIOUS
<1>1. fpc = "idle" /\ op.kind = "none" /\ before.dirs = dirs
  BY DEF FilesInit, NoOp
<1>2. FilesIInv
  BY FilesBegin
<1>3. TopWas
  BY <1>1, <1>2 DEF FilesIInv, FilesTypes, Grown, IsTree, TopWas
<1>4. NotThere /\ SoFar /\ OnlyThePathAdded /\ DirCreateAnswers /\ FileCreateAnswers
  BY <1>1 DEF NotThere, SoFar, Undisturbed, Creates, OnlyThePathAdded, DirCreateAnswers,
              FileCreateAnswers, Returned
<1> QED BY <1>3, <1>4 DEF CreatesIInv

\* A call that is no creation, in whatever way it begins.
LEMMA EntersElse ==
    ASSUME FilesIInv, FilesIInv', NEW kind, NEW path, NEW other, NEW size, kind \notin Creates,
           Enters(kind, path, other, size)
    PROVE  CreatesIInv'
<1>1. op'.kind = kind /\ before'.dirs = dirs
  BY DEF Enters
<1>2. TopWas'
  BY <1>1 DEF FilesIInv, FilesTypes, Grown, IsTree, TopWas
<1> QED BY <1>1, <1>2, NothingToSay

LEMMA CallsCreate ==
    ASSUME FilesIInv, FilesIInv', Calls
    PROVE  CreatesIInv' \/ \E path \in Args : DirCreate(path) \/ FileCreate(path)
<1>1. PICK path \in Args :
         \/ DirCreate(path) \/ FileCreate(path)
         \/ \E text \in Texts : SetContent(path, text)
         \/ GetContent(path) \/ GetLength(path) \/ PathRemove(path)
         \/ \E new \in Args : PathMove(path, new)
         \/ \E other \in Args, size \in Sizes :
              Joins(path, other, size) \/ CardPaths(path, other, size)
         \/ \E cwd \in Cwds, size \in Sizes : FullPath(path, cwd, size)
         \/ Climbs(path)
  BY DEF Calls
<1>2. CASE \E text \in Texts : SetContent(path, text)
  <2>1. PICK text \in Texts : Enters("set_content", path, text, 0)
    BY <1>2 DEF SetContent, OnFile, Begins
  <2> QED BY <2>1, EntersElse DEF Creates
<1>3. CASE GetContent(path) \/ GetLength(path) \/ PathRemove(path)
  <2>1. PICK kind \in {"get_content", "get_length", "remove"} : Enters(kind, path, <<>>, 0)
    BY <1>3 DEF GetContent, GetLength, PathRemove, OnFile, Begins
  <2> QED BY <2>1, EntersElse DEF Creates
<1>4. CASE \E new \in Args : PathMove(path, new)
  <2>1. PICK new \in Args : Enters("move", path, new, 0)
    BY <1>4 DEF PathMove, Begins
  <2> QED BY <2>1, EntersElse DEF Creates
<1>5. CASE \E other \in Args, size \in Sizes : Joins(path, other, size) \/ CardPaths(path, other, size)
  <2>1. PICK kind \in {"concat", "card_path"}, other \in Args, size \in Sizes :
               Enters(kind, path, other, size)
    BY <1>5 DEF Joins, CardPaths, Alone
  <2> QED BY <2>1, EntersElse DEF Creates
<1>6. CASE \E cwd \in Cwds, size \in Sizes : FullPath(path, cwd, size)
  <2>1. PICK cwd \in Cwds, size \in Sizes : Enters("full", path, cwd, size)
    BY <1>6 DEF FullPath, Alone
  <2> QED BY <2>1, EntersElse DEF Creates
<1>7. CASE Climbs(path)
  <2>1. Enters("climb", path, <<>>, 0)
    BY <1>7 DEF Climbs, Alone
  <2> QED BY <2>1, EntersElse DEF Creates
<1> QED BY <1>1, <1>2, <1>3, <1>4, <1>5, <1>6, <1>7

\* Others interfere, and the other system calls are made by other operations.
LEMMA ElseCreates ==
    ASSUME FilesIInv, FilesIInv', CreatesIInv,
           Others \/ WriteContent \/ ReadContent \/ ReadLength \/ Rmdir \/ Unlink \/ Rename \/ ClimbOn
    PROVE  CreatesIInv'
<1>1. CASE Others
  <2>1. changes' = changes + 1 /\ before' = before
    BY <1>1 DEF Others, OtherMakesDir, OtherWrites, OtherRemoves, Other
  <2>2. changes \in 0..MaxChanges /\ before.changes \in Nat /\ before.changes <= changes
    BY DEF FilesIInv, FilesTypes
  <2>3. ~Quiet'
    BY <2>1, <2>2, BoundsAssumption DEF Quiet
  <2> QED BY <2>1, <2>3, NothingToSay DEF CreatesIInv, TopWas
<1>2. ASSUME op' = op, before' = before, fpc \in {"write", "read", "length", "rmdir", "unlink", "rename", "climb"}
      PROVE  CreatesIInv'
  <2>1. op'.kind \notin Creates
    BY <1>2 DEF FilesIInv, InCall, Creates
  <2> QED BY <1>2, <2>1, NothingToSay DEF CreatesIInv, TopWas
<1>3. CASE WriteContent
  BY <1>2, <1>3 DEF WriteContent, Running, Gives, local, histories
<1>4. CASE ReadContent
  BY <1>2, <1>4 DEF ReadContent, Running, local, histories
<1>5. CASE ReadLength
  BY <1>2, <1>5 DEF ReadLength, Running, Gives, local, histories
<1>6. CASE Rmdir \/ Unlink
  BY <1>2, <1>6 DEF Rmdir, Unlink, RemoveIt, Running, Gives, local, histories
<1>7. CASE Rename
  BY <1>2, <1>7 DEF Rename, Running, Gives, local, histories
<1>8. CASE ClimbOn
  BY <1>2, <1>8 DEF ClimbOn, Running, histories
<1> QED BY <1>1, <1>3, <1>4, <1>5, <1>6, <1>7, <1>8

\* The beginning of a creation.
LEMMA CreationsCreate ==
    ASSUME FilesIInv, FilesIInv', NEW path \in Path, DirCreate(path) \/ FileCreate(path)
    PROVE  CreatesIInv'
<1>1. PICK kind : /\ Begins(kind, path, <<>>, 0)
                  /\ \/ kind = "dir_create" /\ Makes(path)
                     \/ /\ kind = "file_create"
                        /\ IF Creatable(path) THEN Makes(ParentOf(path)) ELSE Refuse
  <2>1. CASE DirCreate(path)
    BY <2>1, Zenon DEF DirCreate
  <2>2. CASE FileCreate(path)
    BY <2>2, Zenon DEF FileCreate
  <2> QED BY <2>1, <2>2
<1>2. /\ dirs' = dirs /\ files' = files /\ op'.kind = kind /\ op'.path = path /\ ok' = FALSE
      /\ before'.dirs = dirs /\ before'.files = files /\ kind \in Creates
  BY <1>1 DEF Begins, Enters, tree, Creates
<1>3. Grown(dirs, DOMAIN files) /\ <<>> \in dirs /\ <<>> \in Path
  BY ArgsArePaths DEF FilesIInv, FilesTypes, Grown, IsTree
<1>4. TopWas'
  BY <1>2, <1>3 DEF TopWas
<1>5. OnlyThePathAdded'
  BY <1>2 DEF OnlyThePathAdded
<1>6. ASSUME NEW made \in Path, Makes(made) PROVE CreatesIInv'
  <2>1. making' = made /\ at' = 0 /\ fpc' = "component"
    BY <1>6 DEF Makes
  <2>2. NotThere'
    BY <1>2, <2>1 DEF NotThere
  <2>3. DirCreateAnswers' /\ FileCreateAnswers'
    BY <2>1 DEF DirCreateAnswers, FileCreateAnswers, Returned, Running
  <2>4. Slice(made, 0, 0) = <<>> /\ Names(<<>>) = <<>> /\ Prefixes(<<>>) = {<<>>}
    <3>1. Slice(made, 0, 0) = <<>>
      BY <1>6, WholeSlice
    <3>2. Names(<<>>) = <<>>
      <4> DEFINE e == <<>>
      <4>1. e \in Path /\ \A j \in 0..(Len(e) - 1) : IsSep(e, j)
        BY <1>3
      <4> HIDE DEF e
      <4>2. Names(e) = <<>>
        BY <4>1, OnlySeparators
      <4> QED BY <4>2 DEF e
    <3>3. <<>> \in Place
      BY DEF Place
    <3> QED BY <3>1, <3>2, <3>3, PrefixesGrow
  <2>5. MadeSoFar(Slice(making, 0, at))'
    BY <1>2, <1>3, <2>1, <2>4 DEF MadeSoFar, AllAlong
  <2>6. at' = Len(making') => Exactly'
    <3>1. made # <<>> => Len(made) # 0
      BY <1>6, EmptySeq DEF Path
    <3> QED BY <1>2, <2>1, <3>1 DEF Exactly
  <2>7. SoFar'
    BY <2>1, <2>5, <2>6 DEF SoFar
  <2> QED BY <1>4, <1>5, <2>2, <2>3, <2>7 DEF CreatesIInv
<1>7. CASE kind = "dir_create" /\ Makes(path)
  BY <1>6, <1>7
<1>8. CASE kind = "file_create" /\ (IF Creatable(path) THEN Makes(ParentOf(path)) ELSE Refuse)
  <2>0. kind = "file_create" /\ (IF Creatable(path) THEN Makes(ParentOf(path)) ELSE Refuse)
    BY <1>8
  <2>1. CASE Creatable(path)
    <3>1. ParentOf(path) \in Path
      <4>1. PICK k \in 0..Len(path) : ParentOf(path) = Slice(path, 0, k)
        BY ParentIs
      <4> QED BY <4>1, Slices DEF Path
    <3> QED BY <1>6, <2>0, <2>1, <3>1
  <2>2. CASE ~Creatable(path)
    <3>1. fpc' = "idle" /\ result' = FALSE
      BY <2>0, <2>2 DEF Refuse
    <3>2. path = <<>> \/ Last(path) = Sep \/ Names(path) \in dirs \cup DOMAIN files
      BY <1>3, <2>2, KindIs DEF Creatable
    <3>3. path = <<>> \/ Last(path) = Sep \/ Was(Names(path))'
      BY <1>2, <3>2 DEF Was
    <3>4. FileCreateAnswers'
      BY <1>2, <3>1, <3>3 DEF FileCreateAnswers
    <3>5. NotThere' /\ SoFar' /\ DirCreateAnswers'
      BY <1>2, <2>0, <3>1 DEF NotThere, SoFar, DirCreateAnswers, Returned
    <3> QED BY <1>4, <1>5, <3>4, <3>5 DEF CreatesIInv
  <2> QED BY <2>1, <2>2
<1> QED BY <1>1, <1>7, <1>8

\* What is free is not there, and a creation has not taken anything away.
LEMMA NothingTaken ==
    ASSUME OnlyThePathAdded, Quiet, op.kind \in Creates, NEW place
    PROVE  Was(place) => place \in dirs \cup DOMAIN files
  BY DEF OnlyThePathAdded, Was, Creates

\* Dir_Create's answer, given to its caller or to File_Create.
LEMMA DirCreatedCreates ==
    ASSUME FilesIInv, FilesIInv', CreatesIInv, Quiet, op.kind \in Creates, NEW made \in BOOLEAN,
           fpc \in {"component", "verify"}, DirCreated(made),
           UNCHANGED <<tree, op, making, at, out, alive, histories, faulty>>,
           made => making # <<>> /\ Names(making) \in dirs /\ ~Was(Names(making)),
           ~faulty => /\ MadeSoFar(making) \/ FileInTheWay(making)
                      /\ files = before.files
                      /\ made = (/\ making # <<>> /\ ~EndsTwice(making)
                                 /\ ~Was(Names(making)) /\ ~FileInTheWay(making))
    PROVE  CreatesIInv'
<1>1. /\ dirs' = dirs /\ files' = files /\ op' = op /\ making' = making /\ at' = at
      /\ changes' = changes /\ before' = before /\ faulty' = faulty /\ ok' = made
  BY DEF tree, histories, DirCreated
<1>2. TopWas' /\ OnlyThePathAdded'
  BY <1>1 DEF CreatesIInv, TopWas, OnlyThePathAdded, Quiet
<1>3. CASE op.kind = "dir_create" /\ fpc' = "idle" /\ result' = made
  <2>1. making = op.path
    BY <1>3 DEF FilesIInv, InCall
  <2>2. NotThere' /\ SoFar' /\ FileCreateAnswers'
    BY <1>1, <1>3 DEF NotThere, SoFar, FileCreateAnswers, Returned
  <2>3. result' => Names(op'.path) \in dirs' /\ ~Was(Names(op.path))'
    BY <1>1, <1>3, <2>1 DEF Was
  <2>4. ~faulty' => result' = (/\ op'.path # <<>> /\ ~EndsTwice(op'.path)
                               /\ ~Was(Names(op.path))' /\ ~FileInTheWay(op.path)')
    BY <1>1, <1>3, <2>1 DEF Was, FileInTheWay
  <2>5. ~faulty' /\ op'.path # <<>> /\ ~FileInTheWay(op.path)' => Names(op'.path) \in dirs'
    <3>1. ASSUME MadeSoFar(making) PROVE Names(making) \in dirs
      <4>1. Names(making) \in Prefixes(Names(making))
        <5>1. Names(making) \in Place
          BY NamesArePlaces DEF FilesIInv, FilesTypes
        <5> QED BY <5>1, PrefixesGrow
      <4> QED BY <3>1, <4>1 DEF MadeSoFar, AllAlong
    <3> QED BY <1>1, <2>1, <3>1 DEF FileInTheWay
  <2>6. DirCreateAnswers'
    BY <2>3, <2>4, <2>5 DEF DirCreateAnswers
  <2> QED BY <1>2, <2>2, <2>6 DEF CreatesIInv
<1>4. CASE op.kind # "dir_create" /\ fpc' = "open"
  <2>1. NotThere' /\ DirCreateAnswers' /\ FileCreateAnswers'
    BY <1>4 DEF NotThere, DirCreateAnswers, FileCreateAnswers, Returned, Running
  <2>2. SoFar'
    BY <1>1, <1>4 DEF SoFar, Undisturbed, MadeSoFar, AllAlong, FileInTheWay
  <2> QED BY <1>2, <2>1, <2>2 DEF CreatesIInv
<1>5. \/ op.kind = "dir_create" /\ fpc' = "idle" /\ result' = made
      \/ op.kind # "dir_create" /\ fpc' = "open"
  BY DEF DirCreated
<1> QED BY <1>3, <1>4, <1>5

LEMMA CheckCreates ==
    ASSUME FilesIInv, FilesIInv', CreatesIInv, CheckComponent
    PROVE  CreatesIInv'
<1>1. /\ alive = "running" /\ fpc = "component"
      /\ dirs' = dirs /\ files' = files /\ op' = op /\ making' = making /\ at' = at /\ out' = out
      /\ changes' = changes /\ before' = before /\ faulty' = faulty /\ alive' = alive
  BY DEF CheckComponent, Running, tree, histories
<1>2. /\ FilesTypes /\ op.kind \in Creates /\ Grown(dirs, DOMAIN files) /\ making \in Path
      /\ at \in 0..Len(making) /\ Len(making) \in Nat
  BY <1>1 DEF FilesIInv, InCall, FilesTypes, Path
<1>3. TopWas' /\ OnlyThePathAdded'
  BY <1>1 DEF CreatesIInv, TopWas, OnlyThePathAdded, Quiet
<1>4. CASE ~Quiet
  BY <1>1, <1>3, <1>4, NothingToSay DEF Quiet
<1>5. ~faulty /\ Quiet => MadeSoFar(Slice(making, 0, at)) /\ (at = Len(making) => Exactly)
  BY <1>1, <1>2 DEF CreatesIInv, SoFar, Undisturbed
<1>6. ~faulty /\ Quiet /\ at = Len(making) => MadeSoFar(making)
  BY <1>2, <1>5, WholeSlice
<1>7. CASE Quiet /\ at < Len(making) /\ Blocked(Component) /\ DirCreated(FALSE)
  <2>1. Component # <<>> /\ Names(Component) \in DOMAIN files
    BY <1>2, <1>7, KindIs DEF Blocked
  <2>2. Names(Component) \in Prefixes(Names(making))
    <3>1. fpc \in {"component", "mkdir"}
      BY <1>1
    <3>2. IsPrefix(Names(Component), Names(making)) /\ Names(Component) \in Place
      BY <1>2, <1>7, <3>1, ComponentIs
    <3>3. Names(making) \in Place
      BY <1>2, NamesArePlaces
    <3> QED BY <3>2, <3>3, PrefixesAre
  <2>3. ~faulty => files = before.files /\ FileInTheWay(making)
    BY <1>5, <1>7, <2>1, <2>2 DEF MadeSoFar, FileInTheWay
  <2> QED BY <1>1, <1>2, <1>7, <2>3, DirCreatedCreates DEF CheckComponent
<1>8. CASE Quiet /\ at = Len(making) /\ ~ok /\ DirCreated(FALSE)
  <2>1. ~faulty => /\ MadeSoFar(making) /\ files = before.files
                   /\ ~(making # <<>> /\ ~EndsTwice(making) /\ ~Was(Names(making)))
    BY <1>5, <1>6, <1>8 DEF Exactly, MadeSoFar
  <2> QED BY <1>1, <1>2, <1>8, <2>1, DirCreatedCreates DEF CheckComponent
<1>9. CASE Quiet /\ at < Len(making) /\ ~Blocked(Component) /\ fpc' = "mkdir"
  <2>1. NotThere' /\ DirCreateAnswers' /\ FileCreateAnswers'
    BY <1>9 DEF NotThere, DirCreateAnswers, FileCreateAnswers, Returned, Running
  <2>2. ~faulty => Names(Component) \notin DOMAIN files
    <3>1. fpc \in {"component", "mkdir"}
      BY <1>1
    <3> DEFINE i == NextSep(making, at)
               n == Names(Component)
               p == Slice(making, 0, at)
    <3>2. /\ i = at => Component = p
          /\ i # at => n # <<>> /\ Last(Component) # Sep
      BY <1>2, <1>9, <3>1, ComponentIs
    <3>3. CASE i = at
      <4>1. Names(p) \in Place
        <5>1. p \in Path
          BY <1>2, Slices DEF Path
        <5> QED BY <5>1, NamesArePlaces
      <4>2. Names(p) \in Prefixes(Names(p))
        BY <4>1, PrefixesGrow
      <4>3. ~faulty => Names(p) \in dirs
        BY <1>5, <1>9, <4>2 DEF MadeSoFar, AllAlong
      <4> QED BY <1>2, <3>2, <3>3, <4>3 DEF Grown, IsTree
    <3>4. CASE i # at
      <4>1. Component # <<>>
        <5>1. Names(<<>>) = <<>>
          <6> DEFINE e == <<>>
          <6>1. e \in Path /\ \A j \in 0..(Len(e) - 1) : IsSep(e, j)
            BY ArgsArePaths
          <6> HIDE DEF e
          <6>2. Names(e) = <<>>
            BY <6>1, OnlySeparators
          <6> QED BY <6>2 DEF e
        <5> QED BY <3>2, <3>4, <5>1
      <4> QED BY <1>2, <1>9, <3>2, <3>4, <4>1, KindIs DEF Blocked
    <3> QED BY <3>3, <3>4
  <2>3. Component' = Component
    BY <1>1 DEF Component
  <2>4. SoFar'
    BY <1>1, <1>2, <1>5, <1>9, <2>2, <2>3 DEF SoFar, Undisturbed, Quiet, MadeSoFar, AllAlong
  <2> QED BY <1>3, <2>1, <2>4 DEF CreatesIInv
<1>10. CASE Quiet /\ at = Len(making) /\ ok /\ ok' = ok /\ fpc' = "verify"
  <2>1. DirCreateAnswers' /\ FileCreateAnswers'
    BY <1>10 DEF DirCreateAnswers, FileCreateAnswers, Returned, Running
  <2>2. NotThere'
    BY <1>1, <1>10 DEF CreatesIInv, NotThere, Was, Quiet
  <2>3. SoFar'
    BY <1>1, <1>5, <1>6, <1>10 DEF SoFar, Undisturbed, MadeSoFar, AllAlong, Exactly, Was, Quiet
  <2> QED BY <1>3, <2>1, <2>2, <2>3 DEF CreatesIInv
<1>11. \/ at < Len(making) /\ Blocked(Component) /\ DirCreated(FALSE)
       \/ at < Len(making) /\ ~Blocked(Component) /\ fpc' = "mkdir"
       \/ ~(at < Len(making)) /\ ok /\ ok' = ok /\ fpc' = "verify"
       \/ ~(at < Len(making)) /\ ~ok /\ DirCreated(FALSE)
  BY Zenon DEF CheckComponent
<1>12. at < Len(making) \/ at = Len(making)
  BY <1>2
<1> QED BY <1>4, <1>7, <1>8, <1>9, <1>10, <1>11, <1>12, Zenon

LEMMA VerifyCreates ==
    ASSUME FilesIInv, FilesIInv', CreatesIInv, VerifyDir
    PROVE  CreatesIInv'
<1>1. /\ alive = "running" /\ fpc = "verify"
      /\ dirs' = dirs /\ files' = files /\ op' = op /\ making' = making /\ at' = at /\ out' = out
      /\ changes' = changes /\ before' = before /\ faulty' = faulty
  BY DEF VerifyDir, Running, tree, histories
<1>2. FilesTypes /\ op.kind \in Creates /\ Grown(dirs, DOMAIN files) /\ making \in Path
  BY <1>1 DEF FilesIInv, InCall, FilesTypes
<1>3. TopWas' /\ OnlyThePathAdded'
  BY <1>1 DEF CreatesIInv, TopWas, OnlyThePathAdded, Quiet
<1>4. CASE ~Quiet
  BY <1>1, <1>3, <1>4, NothingToSay DEF Quiet
<1>5. CASE Quiet /\ DirCreated(TRUE) /\ alive' = alive
  <2>1. making # <<>> /\ Names(making) \in dirs /\ ~Was(Names(making))
    BY <1>1, <1>5 DEF FilesIInv, JustMade, CreatesIInv, NotThere
  <2>2. ~faulty => MadeSoFar(making) /\ Exactly /\ ok /\ files = before.files
    BY <1>1, <1>2, <1>5 DEF CreatesIInv, SoFar, Undisturbed, MadeSoFar
  <2>3. ~faulty => ~FileInTheWay(making)
    BY <1>2, <2>2 DEF MadeSoFar, AllAlong, FileInTheWay, Grown, IsTree
  <2>4. ~faulty => ~EndsTwice(making)
    BY <2>2 DEF Exactly
  <2> QED BY <1>1, <1>2, <1>5, <2>1, <2>2, <2>3, <2>4, DirCreatedCreates DEF VerifyDir
<1>6. CASE fpc' = fpc /\ ok' = ok /\ result' = result
  <2>1. DirCreateAnswers' /\ FileCreateAnswers'
    BY <1>1, <1>6 DEF DirCreateAnswers, FileCreateAnswers, Returned, Running
  <2>2. NotThere'
    BY <1>1, <1>6 DEF CreatesIInv, NotThere, Was, Quiet
  <2>3. SoFar'
    BY <1>1, <1>6 DEF CreatesIInv, SoFar, Undisturbed, MadeSoFar, AllAlong, Exactly, Was, Quiet
  <2> QED BY <1>3, <2>1, <2>2, <2>3 DEF CreatesIInv
<1>7. \/ DirCreated(TRUE) /\ alive' = alive
      \/ fpc' = fpc /\ ok' = ok /\ result' = result
  BY DEF VerifyDir
<1> QED BY <1>4, <1>5, <1>6, <1>7

\* The file is opened exactly when no file is in the way of it.
LEMMA OpenCreates ==
    ASSUME FilesIInv, FilesIInv', CreatesIInv, OpenNew
    PROVE  CreatesIInv'
<1> DEFINE t == Names(op.path)
<1>1. PICK opened \in BOOLEAN, closed \in BOOLEAN :
        /\ opened => CanWrite(op.path)
        /\ files' = IF opened THEN Put(t, <<>>) ELSE files
        /\ faulty' = (faulty \/ ~((opened \/ ~CanWrite(op.path)) /\ closed))
        /\ Gives(opened /\ closed)
  <2>1. PICK opened \in (IF CanWrite(op.path) THEN Outcome ELSE {FALSE}), closed \in Outcome :
          /\ files' = IF opened THEN Put(t, <<>>) ELSE files
          /\ Attempt((opened \/ ~CanWrite(op.path)) /\ closed)
          /\ Gives(opened /\ closed)
    BY DEF OpenNew
  <2>2. opened \in BOOLEAN /\ closed \in BOOLEAN /\ (opened => CanWrite(op.path))
    BY <2>1, OutcomeAssumption
  <2> QED BY <2>1, <2>2 DEF Attempt
<1>2. /\ fpc = "open" /\ fpc' = "idle" /\ result' = (opened /\ closed) /\ dirs' = dirs /\ op' = op
      /\ before' = before /\ changes' = changes
  BY <1>1 DEF OpenNew, Running, Gives, local, histories
<1>3. /\ op.kind = "file_create" /\ op.path # <<>> /\ Last(op.path) # Sep
      /\ making = ParentOf(op.path) /\ ~Was(t) /\ op.path \in Path /\ Grown(dirs, DOMAIN files)
      /\ faulty \in BOOLEAN
  BY <1>2 DEF FilesIInv, InCall, FilesTypes
<1>4. TopWas'
  BY <1>2 DEF CreatesIInv, TopWas
<1>5. CASE ~Quiet
  BY <1>2, <1>4, <1>5, NothingToSay DEF Quiet
<1>6. CASE Quiet
  <2>1. OnlyThePathAdded /\ Quiet'
    BY <1>2, <1>6 DEF CreatesIInv, Quiet
  <2>2. opened => DOMAIN files' = DOMAIN files \cup {t} /\ \A f \in DOMAIN files : f # t => files'[f] = files[f]
    BY <1>1 DEF Put
  <2>3. ~opened => files' = files
    BY <1>1
  <2>4. \A f \in DOMAIN before.files : f # t
    BY <1>3 DEF Was
  <2>5. /\ before.dirs \subseteq dirs /\ dirs \subseteq before.dirs \cup Prefixes(t)
        /\ DOMAIN before.files \subseteq DOMAIN files
        /\ \A f \in DOMAIN before.files : files[f] = before.files[f]
        /\ DOMAIN files \ DOMAIN before.files \subseteq {t}
    BY <1>3, <1>6, <2>1 DEF OnlyThePathAdded
  <2>6. /\ DOMAIN before.files \subseteq DOMAIN files'
        /\ \A f \in DOMAIN before.files : files'[f] = before.files[f]
        /\ DOMAIN files' \ DOMAIN before.files \subseteq {t}
    BY <2>2, <2>3, <2>4, <2>5
  <2>7. OnlyThePathAdded'
    BY <1>2, <1>3, <2>5, <2>6 DEF OnlyThePathAdded
  <2>8. NotThere' /\ SoFar' /\ DirCreateAnswers'
    BY <1>2, <1>3 DEF NotThere, SoFar, DirCreateAnswers, Returned
  <2>9. result' => ~Was(t) /\ t \in DOMAIN files'
    BY <1>2, <1>3, <2>2
  <2>10. ASSUME ~faulty' PROVE result' = ~FileInTheWay(op.path)
    <3>1. ~faulty /\ closed /\ opened = CanWrite(op.path)
      <4>1. ~faulty /\ ((opened \/ ~CanWrite(op.path)) /\ closed)
        BY <1>1, <1>3, <2>10
      <4>2. CanWrite(op.path) \in BOOLEAN
        BY DEF CanWrite
      <4> QED BY <1>1, <4>1, <4>2
    <3>2. /\ MadeSoFar(making) \/ FileInTheWay(making)
          /\ files = before.files
      BY <1>2, <1>3, <1>6, <3>1 DEF CreatesIInv, SoFar, Undisturbed, Creates
    <3> DEFINE p == Front(t)
    <3>3. t \in Place /\ t # <<>> /\ p = Names(making) /\ p \in Place
      BY <1>3, ParentNames, PrefixOfFront
    <3>4. Prefixes(t) = Prefixes(p) \cup {t} /\ t \notin Prefixes(p) /\ p \in Prefixes(p)
      BY <3>3, PrefixesGrow
    <3>5. CanWrite(op.path) <=> t \notin dirs /\ p \in dirs
      BY <1>3 DEF CanWrite
    <3>6. FileInTheWay(op.path) <=> \E place \in Prefixes(p) : place \in DOMAIN files
      BY <1>3, <3>2, <3>4 DEF FileInTheWay, Was
    <3>7. ASSUME MadeSoFar(making) PROVE CanWrite(op.path) /\ ~FileInTheWay(op.path)
      <4>1. dirs = before.dirs \cup Prefixes(p) /\ Prefixes(p) \subseteq dirs
        BY <3>3, <3>7 DEF MadeSoFar, AllAlong
      <4>2. t \notin dirs /\ p \in dirs
        BY <1>3, <3>4, <4>1 DEF Was
      <4>3. ~\E place \in Prefixes(p) : place \in DOMAIN files
        BY <1>3, <4>1 DEF Grown, IsTree
      <4> QED BY <3>5, <3>6, <4>2, <4>3
    <3>8. ASSUME FileInTheWay(making) PROVE ~CanWrite(op.path) /\ FileInTheWay(op.path)
      <4>1. PICK place \in Prefixes(p) : place \in DOMAIN files
        BY <3>2, <3>3, <3>8 DEF FileInTheWay
      <4>2. place \in Place /\ IsPrefix(place, p)
        BY <3>3, PrefixesAre
      <4>3. p \notin dirs
        <5>1. ASSUME p \in dirs PROVE FALSE
          <6>1. place # p
            BY <1>3, <4>1, <5>1 DEF Grown, IsTree
          <6>2. place \in dirs
            BY <1>3, <4>2, <5>1, <6>1, WayIsThere
          <6> QED BY <1>3, <4>1, <6>2 DEF Grown, IsTree
        <5> QED BY <5>1
      <4> QED BY <3>5, <3>6, <4>1, <4>3
    <3> QED BY <1>2, <3>1, <3>2, <3>7, <3>8
  <2>11. FileCreateAnswers'
    <3>1. result' => ~Was(t)' /\ t' \in DOMAIN files'
      BY <1>2, <2>9 DEF Was
    <3>2. ~faulty' => result' = (/\ op'.path # <<>> /\ Last(op'.path) # Sep
                                 /\ ~Was(t)' /\ ~FileInTheWay(op.path)')
      BY <1>2, <1>3, <2>10 DEF Was, FileInTheWay
    <3> HIDE DEF t
    <3> QED BY <3>1, <3>2 DEF FileCreateAnswers, t
  <2> QED BY <1>4, <2>7, <2>8, <2>11 DEF CreatesIInv
<1> QED BY <1>5, <1>6

\* A component is made, unless it is there or the system refuses it.
LEMMA MakeCreates ==
    ASSUME FilesIInv, FilesIInv', CreatesIInv, MakeComponent
    PROVE  CreatesIInv'
<1> DEFINE N == Len(making)
           i == NextSep(making, at)
           n == Names(Component)
           p == Slice(making, 0, at)
           can == CanMake(Component)
<1>1. /\ alive = "running" /\ fpc = "mkdir" /\ at' = Onward(making, at) /\ fpc' = "component"
      /\ files' = files /\ op' = op /\ making' = making
      /\ changes' = changes /\ before' = before
  BY DEF MakeComponent, Running, histories
<1>2. PICK done \in BOOLEAN : /\ done => can
                              /\ ok' = done
                              /\ dirs' = IF done THEN dirs \cup {n} ELSE dirs
                              /\ faulty' = (faulty \/ ~(done \/ ~can))
  <2>1. PICK done \in (IF CanMake(Component) THEN Outcome ELSE {FALSE}) :
                              /\ ok' = done
                              /\ dirs' = IF done THEN dirs \cup {Names(Component)} ELSE dirs
                              /\ Attempt(done \/ ~CanMake(Component))
    BY DEF MakeComponent
  <2>2. done \in BOOLEAN /\ (done => CanMake(Component))
    BY <2>1, OutcomeAssumption
  <2> QED BY <2>1, <2>2 DEF Attempt
<1>3. /\ FilesTypes /\ op.kind \in Creates /\ Grown(dirs, DOMAIN files) /\ making \in Path /\ N \in Nat
      /\ at \in 0..N /\ at < N /\ Behind(making, at) /\ faulty \in BOOLEAN /\ fpc \in {"component", "mkdir"}
  BY <1>1 DEF FilesIInv, InCall, FilesTypes, Path
<1>4. /\ Component \in Path /\ n \in Place /\ Names(p) \in Place
      /\ IsPrefix(n, Names(making))
      /\ i = at => Component = p
      /\ i # at => n # <<>> /\ Front(n) = Names(p) /\ Last(Component) # Sep
      /\ i \in at..N /\ (i = at => IsSep(making, i))
      /\ at' \in 0..N /\ Names(Slice(making, 0, at')) = n
  BY <1>1, <1>3, ComponentIs
<1>5. can = (Component # <<>> /\ n \notin dirs /\ n \notin DOMAIN files /\ Front(n) \in dirs)
  BY DEF CanMake, Free
<1>6. at' = N => n = Names(making)
  BY <1>3, <1>4, WholeSlice
<1>7. TopWas'
  BY <1>1 DEF CreatesIInv, TopWas
<1>8. CASE ~Quiet
  BY <1>1, <1>7, <1>8, NothingToSay DEF Quiet
<1>9. CASE Quiet
  <2>1. OnlyThePathAdded /\ TopWas
    BY DEF CreatesIInv
  <2>2. DirCreateAnswers' /\ FileCreateAnswers'
    BY <1>1 DEF DirCreateAnswers, FileCreateAnswers, Returned, Running
  <2>3. n \in Prefixes(Names(op.path))
    <3>1. Names(making) \in Place /\ Names(op.path) \in Place
      BY <1>3, NamesArePlaces DEF FilesTypes
    <3>2. n \in Prefixes(Names(making))
      BY <1>4, <3>1, PrefixesAre
    <3>3. Names(making) \in Prefixes(Names(op.path))
      <4>1. CASE op.kind = "dir_create"
        BY <1>1, <3>1, <4>1, PrefixesGrow DEF FilesIInv, InCall
      <4>2. CASE op.kind = "file_create"
        <5>1. making = ParentOf(op.path) /\ op.path # <<>> /\ Last(op.path) # Sep /\ op.path \in Path
          BY <1>1, <4>2 DEF FilesIInv, InCall, FilesTypes
        <5>2. Names(op.path) # <<>> /\ Names(making) = Front(Names(op.path))
          BY <5>1, ParentNames
        <5>3. Prefixes(Names(op.path)) = Prefixes(Names(making)) \cup {Names(op.path)}
          BY <3>1, <5>2, PrefixesGrow
        <5>4. Names(making) \in Prefixes(Names(making))
          BY <3>1, PrefixesGrow
        <5> QED BY <5>3, <5>4
      <4> QED BY <1>3, <4>1, <4>2 DEF Creates
    <3> QED BY <3>1, <3>2, <3>3, PrefixesGrow
  <2>4. OnlyThePathAdded'
    <3>1. /\ before.dirs \subseteq dirs /\ dirs \subseteq before.dirs \cup Prefixes(Names(op.path))
          /\ DOMAIN before.files \subseteq DOMAIN files
          /\ \A f \in DOMAIN before.files : files[f] = before.files[f]
          /\ DOMAIN files \ DOMAIN before.files \subseteq
                 IF op.kind = "file_create" THEN {Names(op.path)} ELSE {}
      BY <1>3, <1>9, <2>1 DEF OnlyThePathAdded, Creates
    <3>2. before.dirs \subseteq dirs' /\ dirs' \subseteq before.dirs \cup Prefixes(Names(op.path))
      BY <1>2, <2>3, <3>1
    <3> QED BY <1>1, <3>1, <3>2 DEF OnlyThePathAdded
  <2>5. ASSUME at' = N, done PROVE ~Was(Names(making))
    BY <1>2, <1>3, <1>5, <1>6, <1>9, <2>1, <2>5, NothingTaken
  <2>6. NotThere'
    BY <1>1, <1>2, <2>5 DEF NotThere, Was
  <2>7. ASSUME ~faulty' PROVE SoFar'
    <3>1. ~faulty /\ done = can
      <4>1. can \in BOOLEAN
        BY DEF CanMake
      <4> QED BY <1>2, <1>3, <2>7, <4>1
    <3>2. /\ dirs = before.dirs \cup Prefixes(Names(p)) /\ files = before.files
          /\ Prefixes(Names(p)) \subseteq dirs /\ n \notin DOMAIN files
      BY <1>1, <1>3, <1>9, <3>1 DEF CreatesIInv, SoFar, Undisturbed, MadeSoFar, AllAlong
    <3>3. Names(p) \in Prefixes(Names(p)) /\ Names(p) \in dirs
      BY <1>4, <3>2, PrefixesGrow
    <3>4. CASE i # at
      <4>1. Prefixes(n) = Prefixes(Names(p)) \cup {n} /\ n \notin Prefixes(Names(p))
        BY <1>4, <3>4, PrefixesGrow
      <4>2. Component # <<>>
        <5> DEFINE e == <<>>
        <5>1. e \in Path /\ \A j \in 0..(Len(e) - 1) : IsSep(e, j)
          BY ArgsArePaths
        <5> HIDE DEF e
        <5>2. Names(e) = <<>>
          BY <5>1, OnlySeparators
        <5> QED BY <1>4, <3>4, <5>2 DEF e
      <4>3. done = (n \notin dirs)
        BY <1>4, <1>5, <3>1, <3>2, <3>3, <3>4, <4>2
      <4>4. dirs' = before.dirs \cup Prefixes(n) /\ Prefixes(n) \subseteq dirs'
        BY <1>2, <3>2, <4>1, <4>3
      <4>5. MadeSoFar(Slice(making, 0, at))'
        BY <1>1, <1>4, <3>2, <4>4 DEF MadeSoFar, AllAlong
      <4>6. ASSUME at' = N PROVE ok' = (making # <<>> /\ ~EndsTwice(making) /\ ~Was(Names(making)))
        <5>1. Was(n) <=> n \in dirs
          BY <3>2, <4>1 DEF Was
        <5>2. making # <<>>
          BY <1>3, EmptySeq DEF Path
        <5>3. ~EndsTwice(making)
          <6>1. i = N \/ i = N - 1
            <7>1. N = IF i < N THEN i + 1 ELSE N
              BY <1>1, <4>6 DEF Onward
            <7> QED BY <1>3, <1>4, <7>1
          <6>2. \A j \in at..(i - 1) : ~IsSep(making, j)
            BY <1>3, NextSepIs
          <6>3. CASE i = N
            <7>1. N - 1 \in at..(i - 1) /\ N - 1 < N /\ N - 1 + 1 = N
              BY <1>3, <6>3
            <7>2. making[N] # Sep
              BY <6>2, <7>1 DEF IsSep, Char
            <7> QED BY <7>2 DEF EndsTwice, Last
          <6>4. CASE i = N - 1
            <7>1. N - 2 \in at..(i - 1) /\ N - 2 < N /\ N - 2 + 1 = N - 1 /\ N - 1 \in 1..(N - 1)
              BY <1>3, <1>4, <3>4, <6>4
            <7>2. making[N - 1] # Sep
              BY <6>2, <7>1 DEF IsSep, Char
            <7>3. Len(Front(making)) = N - 1 /\ Front(making)[N - 1] = making[N - 1]
              BY <1>3, <5>2, <7>1, FrontOf DEF Path
            <7> QED BY <7>2, <7>3 DEF EndsTwice, Last
          <6> QED BY <6>1, <6>3, <6>4
        <5> QED BY <1>2, <1>6, <4>3, <4>6, <5>1, <5>2, <5>3
      <4>7. at' = Len(making') => Exactly'
        BY <1>1, <4>6 DEF Exactly, Was
      <4> QED BY <1>1, <4>5, <4>7 DEF SoFar
    <3>5. CASE i = at
      <4>1. n = Names(p) /\ ~done /\ ok' = FALSE /\ dirs' = dirs
        BY <1>2, <1>4, <1>5, <3>1, <3>3, <3>5
      <4>2. MadeSoFar(Slice(making, 0, at))'
        BY <1>1, <1>4, <3>2, <4>1 DEF MadeSoFar, AllAlong
      <4>3. ASSUME at' = N PROVE EndsTwice(making) \/ Was(Names(making))
        <5>1. at = N - 1 /\ IsSep(making, at)
          <6>1. N = IF i < N THEN i + 1 ELSE N
            BY <1>1, <4>3 DEF Onward
          <6> QED BY <1>3, <1>4, <3>5, <6>1
        <5>2. CASE at = 0
          <6>1. p = <<>>
            BY <1>3, <5>2, WholeSlice
          <6>2. Names(p) = <<>>
            <7> DEFINE e == <<>>
            <7>1. e \in Path /\ \A j \in 0..(Len(e) - 1) : IsSep(e, j)
              BY ArgsArePaths
            <7> HIDE DEF e
            <7>2. Names(e) = <<>>
              BY <7>1, OnlySeparators
            <7> QED BY <6>1, <7>2 DEF e
          <6> QED BY <1>6, <2>1, <4>1, <4>3, <6>2 DEF TopWas, Was
        <5>3. CASE at # 0
          <6>1. IsSep(making, at - 1) /\ N > 1 /\ N - 1 \in 1..(N - 1) /\ at - 1 + 1 = N - 1 /\ at + 1 = N
            BY <1>3, <5>1, <5>3 DEF Behind
          <6>2. making[N] = Sep /\ making[N - 1] = Sep
            BY <5>1, <6>1 DEF IsSep, Char
          <6>3. making # <<>>
            BY <1>3, EmptySeq DEF Path
          <6>4. Len(Front(making)) = N - 1 /\ Front(making)[N - 1] = making[N - 1]
            BY <1>3, <6>1, <6>3, FrontOf DEF Path
          <6> QED BY <6>1, <6>2, <6>4 DEF EndsTwice, Last
        <5> QED BY <5>2, <5>3
      <4>4. at' = Len(making') => Exactly'
        BY <1>1, <4>1, <4>3 DEF Exactly, Was
      <4> QED BY <1>1, <4>2, <4>4 DEF SoFar
    <3> QED BY <3>4, <3>5
  <2>8. faulty' => SoFar'
    BY DEF SoFar, Undisturbed
  <2> QED BY <1>7, <2>2, <2>4, <2>6, <2>7, <2>8 DEF CreatesIInv
<1> QED BY <1>8, <1>9

LEMMA NothingCreates ==
    ASSUME CreatesIInv, UNCHANGED fileVars
    PROVE  CreatesIInv'
<1>1. /\ dirs' = dirs /\ files' = files /\ fpc' = fpc /\ op' = op /\ making' = making /\ at' = at
      /\ ok' = ok /\ result' = result /\ alive' = alive /\ changes' = changes /\ before' = before
      /\ faulty' = faulty
  BY DEF fileVars, tree, local, histories
<1>2. TopWas' /\ NotThere' /\ OnlyThePathAdded'
  BY <1>1 DEF CreatesIInv, TopWas, NotThere, OnlyThePathAdded, Was, Quiet
<1>3. DirCreateAnswers' /\ FileCreateAnswers'
  BY <1>1 DEF CreatesIInv, DirCreateAnswers, FileCreateAnswers, Returned, Running, Was, Quiet, FileInTheWay
<1>4. SoFar'
  BY <1>1 DEF CreatesIInv, SoFar, Undisturbed, MadeSoFar, AllAlong, Exactly, Was, Quiet,
              FileInTheWay, Component
<1> QED BY <1>2, <1>3, <1>4 DEF CreatesIInv

LEMMA CreatesStep == FilesIInv /\ FilesIInv' /\ CreatesIInv /\ [FilesNext]_fileVars => CreatesIInv'
<1> SUFFICES ASSUME FilesIInv, FilesIInv', CreatesIInv, [FilesNext]_fileVars PROVE CreatesIInv'
  OBVIOUS
<1>1. CASE Calls
  <2>1. ASSUME NEW path \in Args, DirCreate(path) \/ FileCreate(path) PROVE CreatesIInv'
    BY <2>1, ArgsArePaths, CreationsCreate
  <2> QED BY <1>1, <2>1, CallsCreate
<1>2. CASE SystemCall
  BY <1>2, CheckCreates, MakeCreates, VerifyCreates, OpenCreates, ElseCreates DEF SystemCall
<1>3. CASE Others
  BY <1>3, ElseCreates
<1>4. CASE UNCHANGED fileVars
  BY <1>4, NothingCreates
<1> QED BY <1>1, <1>2, <1>3, <1>4 DEF FilesNext

\* For every path, however many separators it has and wherever they are, every
\* tree and every failure of a system call: creating a directory or a file, if
\* nobody interferes, makes nothing but what lies on the way to it and takes
\* nothing away; and it answers that it has succeeded if and only if nothing
\* was there and no file was in the way, unless the system refuses what it
\* could do, or a directory's path ends with two separators.
THEOREM CreatingDoesWhatItSays == FilesSpec => []CreatesWhatItSays
<1>1. FilesInit => CreatesIInv
  BY CreatesBegin
<1>2. CreatesIInv => CreatesWhatItSays
  BY DEF CreatesIInv, CreatesWhatItSays
<1>3. FilesSpec => []FilesIInv
  BY FilesAlways
<1> QED BY <1>1, <1>2, <1>3, CreatesStep, PTL DEF FilesSpec
=============================================================================
