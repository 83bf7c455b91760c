--------------------------- MODULE ModelRootProofs ---------------------------
(***************************************************************************)
(* What the model root guarantees for every directory tree, every disk,    *)
(* every caller, every failure of libgit2 and every interference: the      *)
(* balance of git.c, the pair of root and repository, and that a call      *)
(* leaves the caller's working directory as it was.                        *)
(***************************************************************************)
EXTENDS ModelRoot, DirStackProofs, WellFoundedInduction, FiniteSetTheorems

-----------------------------------------------------------------------------
(* Induction over the natural numbers as facts about sets, which first-    *)
(* order provers can use: the library's theorems take an operator instead. *)

Smaller == {pair \in Nat \X Nat : pair[1] < pair[2]}

LEMMA SmallerIsWellFounded == IsWellFoundedOn(Smaller, Nat)
  BY NatLessThanWellFounded, Zenon DEF OpToRel, Smaller

\* A nonempty set of natural numbers has a least element.
LEMMA LeastNumber ==
    ASSUME NEW T, T \subseteq Nat, T # {}
    PROVE  \E x \in T : \A y \in T : x <= y
<1>1. \E x \in T : \A y \in T : ~ (<<y, x>> \in Smaller)
  BY SmallerIsWellFounded, WFMin, Zenon
<1>2. \A x, y \in Nat : ~(<<y, x>> \in Smaller) => x <= y
  BY DEF Smaller
<1>3. QED
  BY <1>1, <1>2

\* What holds of 0 and passes from n to n + 1 as long as n is less than a bound
\* holds up to the bound.
LEMMA BoundedInduction ==
    ASSUME NEW N \in Nat, NEW S, 0 \in S,
           \A n \in 0..(N - 1) : n \in S => n + 1 \in S
    PROVE  0..N \subseteq S
<1> DEFINE T == (0..N) \ S
<1>1. SUFFICES ASSUME T # {} PROVE FALSE
  OBVIOUS
<1>2. T \subseteq Nat
  OBVIOUS
<1>3. PICK x \in T : \A y \in T : x <= y
  <2> HIDE DEF T
  <2>1. QED
    BY <1>1, <1>2, LeastNumber
<1>4. x \in 1..N
  BY <1>3
<1>5. x - 1 \in 0..(N - 1) /\ x - 1 \notin T
  BY <1>3, <1>4
<1>6. x - 1 \in S
  BY <1>5
<1>7. (x - 1) + 1 \in S
  BY <1>5, <1>6
<1>8. QED
  BY <1>3, <1>4, <1>7

-----------------------------------------------------------------------------
(* The directories upward from a directory are directories: Up is defined  *)
(* by recursion, so that it is what its definition says is itself proved.  *)

Above(v) == IF v = NULL THEN NULL ELSE Parent(v)

LEMMA ParentType ==
    ASSUME NEW v
    PROVE  Parent(v) \in Dir \cup {NULL} /\ Above(v) \in Dir \cup {NULL}
<1>1. Parent(v) \in Dir \cup {NULL}
  <2>1. CASE \E p \in Dir, n \in Name : Child[p][n] = v
    <3>1. (CHOOSE p \in Dir : \E n \in Name : Child[p][n] = v) \in Dir
      BY <2>1
    <3>2. QED
      BY <2>1, <3>1 DEF Parent
  <2>2. CASE ~ \E p \in Dir, n \in Name : Child[p][n] = v
    BY <2>2 DEF Parent
  <2>3. QED
    BY <2>1, <2>2
<1>2. QED
  BY <1>1 DEF Above

\* The first n steps upward from d.
Climbs(d, n) == {f \in [0..n -> Dir \cup {NULL}] :
                    f[0] = d /\ \A k \in 1..n : f[k] = Above(f[k - 1])}

LEMMA ClimbsExist ==
    ASSUME NEW d \in Dir, NEW N \in Nat
    PROVE  Climbs(d, N) # {}
<1> DEFINE S == {n \in 0..N : Climbs(d, n) # {}}
<1>1. 0 \in S
  <2>1. [i \in 0..0 |-> d] \in Climbs(d, 0)
    BY DEF Climbs
  <2>2. QED
    BY <2>1
<1>2. ASSUME NEW n \in 0..(N - 1), n \in S PROVE n + 1 \in S
  <2>1. PICK f \in Climbs(d, n) : TRUE
    BY <1>2
  <2> DEFINE m == n + 1
             g == [i \in 0..m |-> IF i = m THEN Above(f[n]) ELSE f[i]]
  <2>2. /\ f \in [0..n -> Dir \cup {NULL}] /\ f[0] = d
        /\ \A k \in 1..n : f[k] = Above(f[k - 1])
    BY <2>1 DEF Climbs
  <2>3. /\ n \in Nat /\ m \in Nat /\ m > 0 /\ n # m /\ 0 # m /\ m - 1 = n /\ 0 \in 0..m
        /\ \A k \in 0..m : k # m => k \in 0..n
        /\ \A k \in 1..m : /\ k # m => k \in 1..n
                           /\ k - 1 # m /\ k \in 0..m /\ k - 1 \in 0..m
    OBVIOUS
  <2> HIDE DEF m
  <2>4. g \in [0..m -> Dir \cup {NULL}]
    BY <2>2, <2>3, ParentType
  <2>5. g[0] = d /\ \A k \in 1..m : g[k] = Above(g[k - 1])
    BY <2>2, <2>3
  <2>6. g \in Climbs(d, m)
    BY <2>4, <2>5 DEF Climbs
  <2>7. QED
    BY <2>6 DEF m
<1>3. 0..N \subseteq S
  <2> HIDE DEF S
  <2>1. QED
    BY <1>1, <1>2, BoundedInduction
<1>4. QED
  BY <1>3

\* Up(d) is the steps upward from d.
LEMMA UpClimbs ==
    ASSUME NEW d \in Dir
    PROVE  Up(d) \in Climbs(d, Cardinality(Dir))
<1> DEFINE N == Cardinality(Dir)
           Good(u) == u = [k \in 0..N |-> IF k = 0 THEN d
                                          ELSE IF u[k - 1] = NULL THEN NULL ELSE Parent(u[k - 1])]
           up == Up(d)
<1>1. N \in Nat
  BY FiniteAssumption, FS_CardinalityType
<1> HIDE DEF N
<1>2. PICK f \in Climbs(d, N) : TRUE
  BY <1>1, ClimbsExist
<1>3. Good(f)
  <2>1. /\ f \in [0..N -> Dir \cup {NULL}] /\ f[0] = d
        /\ \A k \in 1..N : f[k] = IF f[k - 1] = NULL THEN NULL ELSE Parent(f[k - 1])
    BY <1>2 DEF Climbs, Above
  <2>2. \A k \in 0..N : k # 0 => k \in 1..N
    BY <1>1
  <2>3. QED
    BY <2>1, <2>2
<1>4. up = CHOOSE u : Good(u)
  BY DEF Up, N
<1>5. Good(up)
  <2> HIDE DEF up
  <2>1. QED
    BY <1>3, <1>4
<1> HIDE DEF up
<1> DEFINE S == {k \in 0..N : up[k] = f[k]}
<1>6. 0 \in S
  BY <1>1, <1>3, <1>5
<1>7. ASSUME NEW n \in 0..(N - 1), n \in S PROVE n + 1 \in S
  <2>1. n + 1 \in 0..N /\ n + 1 # 0 /\ (n + 1) - 1 = n /\ up[n] = f[n]
    BY <1>1, <1>7
  <2>2. f[n + 1] = IF f[n] = NULL THEN NULL ELSE Parent(f[n])
    BY <1>3, <2>1
  <2>3. up[n + 1] = IF up[n] = NULL THEN NULL ELSE Parent(up[n])
    BY <1>5, <2>1
  <2>4. QED
    BY <2>1, <2>2, <2>3
<1>8. 0..N \subseteq S
  <2> HIDE DEF S
  <2>1. QED
    BY <1>1, <1>6, <1>7, BoundedInduction
<1>9. up = f
  BY <1>3, <1>5, <1>8
<1>10. QED
  BY <1>2, <1>9 DEF N, up

LEMMA LineType ==
    ASSUME NEW d \in Dir
    PROVE  Line(d) \subseteq Dir /\ d \in Line(d)
<1>1. /\ Up(d) \in [0..Cardinality(Dir) -> Dir \cup {NULL}] /\ Up(d)[0] = d
  BY UpClimbs DEF Climbs
<1>2. Cardinality(Dir) \in Nat
  BY FiniteAssumption, FS_CardinalityType
<1>3. 0 \in DOMAIN Up(d)
  BY <1>1, <1>2
<1>4. QED
  BY <1>1, <1>3, NullAssumption DEF Line

\* One step after another, as far as Up goes.
LEMMA UpSteps ==
    ASSUME NEW d \in Dir
    PROVE  /\ Cardinality(Dir) \in Nat
           /\ DOMAIN Up(d) = 0..Cardinality(Dir)
           /\ Up(d)[0] = d
           /\ \A k \in 0..Cardinality(Dir) : Up(d)[k] \in Dir \cup {NULL}
           /\ \A k \in 0..(Cardinality(Dir) - 1) : Up(d)[k + 1] = Above(Up(d)[k])
<1> DEFINE N == Cardinality(Dir)
           up == Up(d)
<1>1. N \in Nat
  BY FiniteAssumption, FS_CardinalityType
<1>2. up \in [0..N -> Dir \cup {NULL}] /\ up[0] = d /\ \A k \in 1..N : up[k] = Above(up[k - 1])
  BY UpClimbs DEF Climbs
<1> HIDE DEF N, up
<1>3. ASSUME NEW k \in 0..(N - 1) PROVE up[k + 1] = Above(up[k])
  <2>1. k + 1 \in 1..N /\ (k + 1) - 1 = k
    BY <1>1
  <2>2. QED
    BY <1>2, <2>1
<1>4. QED
  BY <1>1, <1>2, <1>3 DEF N, up

\* Line(d) is the least set with d in it that is closed upward: Up is long
\* enough, since more steps than there are directories come back to one.
LEMMA LineIsLeast ==
    ASSUME NEW d \in Dir, NEW S, d \in S, \A e \in S \cap Dir : Above(e) \in S \cup {NULL}
    PROVE  Line(d) \subseteq S
<1> DEFINE N == Cardinality(Dir)
           up == Up(d)
           T == {k \in 0..N : up[k] \in S \cup {NULL}}
<1>1. /\ N \in Nat /\ DOMAIN up = 0..N /\ up[0] = d
      /\ \A k \in 0..N : up[k] \in Dir \cup {NULL}
      /\ \A k \in 0..(N - 1) : up[k + 1] = Above(up[k])
  BY UpSteps
<1> HIDE DEF N, up
<1>2. 0 \in T
  BY <1>1
<1>3. ASSUME NEW n \in 0..(N - 1), n \in T PROVE n + 1 \in T
  <2>1. n \in 0..N /\ n + 1 \in 0..N
    BY <1>1
  <2>2. up[n] \in Dir \cup {NULL} /\ up[n] \in S \cup {NULL}
    BY <1>1, <1>3, <2>1
  <2>3. up[n + 1] = Above(up[n])
    BY <1>1
  <2>4. Above(NULL) = NULL
    BY DEF Above
  <2>5. Above(up[n]) \in S \cup {NULL}
    BY <2>2, <2>4
  <2>6. QED
    BY <2>1, <2>3, <2>5
<1>4. 0..N \subseteq T
  <2> HIDE DEF T
  <2>1. QED
    BY <1>1, <1>2, <1>3, BoundedInduction
<1>5. QED
  BY <1>1, <1>4 DEF Line, up

\* From a directory on the way up on, the way is that directory's own.
LEMMA UpFromAbove ==
    ASSUME NEW d \in Dir, NEW j \in 0..Cardinality(Dir), Up(d)[j] \in Dir
    PROVE  \A i \in 0..(Cardinality(Dir) - j) : Up(Up(d)[j])[i] = Up(d)[j + i]
<1> DEFINE N == Cardinality(Dir)
           up == Up(d)
           e == Up(d)[j]
           ue == Up(e)
           T == {i \in 0..(N - j) : ue[i] = up[j + i]}
<1>1. N \in Nat /\ \A k \in 0..(N - 1) : up[k + 1] = Above(up[k])
  BY UpSteps
<1>2. e \in Dir /\ up[j] = e
  OBVIOUS
<1> HIDE DEF e
<1>3. ue[0] = e /\ \A k \in 0..(N - 1) : ue[k + 1] = Above(ue[k])
  BY <1>2, UpSteps
<1> HIDE DEF N, up, ue
<1>4. j \in 0..N /\ N - j \in Nat
  BY <1>1 DEF N
<1>5. 0 \in T
  BY <1>2, <1>3, <1>4
<1>6. ASSUME NEW n \in 0..((N - j) - 1), n \in T PROVE n + 1 \in T
  <2>1. /\ n \in 0..(N - 1) /\ j + n \in 0..(N - 1) /\ n + 1 \in 0..(N - j)
        /\ j + (n + 1) = (j + n) + 1
    BY <1>1, <1>4
  <2>2. ue[n + 1] = Above(ue[n]) /\ up[j + (n + 1)] = Above(up[j + n])
    BY <1>1, <1>3, <2>1
  <2>3. QED
    BY <1>6, <2>1, <2>2
<1>7. 0..(N - j) \subseteq T
  <2> HIDE DEF T
  <2>1. QED
    BY <1>4, <1>5, <1>6, BoundedInduction
<1>8. QED
  BY <1>7 DEF N, up, e, ue

LEMMA LineIsClosed ==
    ASSUME NEW d \in Dir, NEW e \in Line(d), Above(e) # NULL
    PROVE  Above(e) \in Line(d)
<1> DEFINE N == Cardinality(Dir)
           up == Up(d)
<1>1. /\ N \in Nat /\ DOMAIN up = 0..N /\ up[0] = d
      /\ \A k \in 0..N : up[k] \in Dir \cup {NULL}
      /\ \A k \in 0..(N - 1) : up[k + 1] = Above(up[k])
  BY UpSteps
<1>2. /\ \A k \in 0..N : up[k] # NULL => up[k] \in Line(d)
      /\ \E k \in 0..N : up[k] = e
  BY <1>1 DEF Line
<1>3. \A x \in 0..N : up[x] \in Dir => \A i \in 0..(N - x) : Up(up[x])[i] = up[x + i]
  BY UpFromAbove
<1> HIDE DEF N, up
<1>4. PICK k \in 0..N : up[k] = e
  BY <1>2
<1>5. CASE k < N
  BY <1>1, <1>2, <1>4, <1>5
<1>6. CASE k = N
  <2>1. ASSUME NEW x \in 0..N, NEW y \in 0..N, x < y, up[x] = up[y], up[x] \in Dir
        PROVE  Above(e) \in Line(d)
    <3>1. N - y \in 0..(N - x) /\ N - y \in 0..(N - y) /\ y + (N - y) = N
      BY <1>1, <2>1
    <3>2. up[x + (N - y)] = up[N]
      BY <1>3, <2>1, <3>1
    <3>3. x + (N - y) \in 0..(N - 1) /\ (x + (N - y)) + 1 \in 0..N
      BY <1>1, <2>1
    <3>4. up[(x + (N - y)) + 1] = Above(e)
      BY <1>1, <1>4, <1>6, <3>2, <3>3
    <3>5. QED
      BY <1>2, <3>3, <3>4
  <2>2. CASE \E j \in 0..N : up[j] = NULL
    <3>1. PICK j \in 0..N : up[j] = NULL
      BY <2>2
    <3> DEFINE T == {i \in 0..(N - j) : up[j + i] = NULL}
    <3>2. 0 \in T /\ N - j \in Nat
      BY <1>1, <3>1
    <3>3. ASSUME NEW n \in 0..((N - j) - 1), n \in T PROVE n + 1 \in T
      <4>1. /\ j + n \in 0..(N - 1) /\ n + 1 \in 0..(N - j)
            /\ j + (n + 1) = (j + n) + 1
        BY <1>1, <3>1
      <4>2. up[j + (n + 1)] = Above(NULL)
        BY <1>1, <3>3, <4>1
      <4>3. QED
        BY <4>1, <4>2 DEF Above
    <3>4. 0..(N - j) \subseteq T
      <4> HIDE DEF T
      <4>1. QED
        BY <3>2, <3>3, BoundedInduction
    <3>5. j + (N - j) = N /\ N - j \in 0..(N - j)
      BY <1>1, <3>1
    <3>6. e = NULL
      BY <1>4, <1>6, <3>4, <3>5
    <3>7. QED
      BY <3>6 DEF Above
  <2>3. CASE \A j \in 0..N : up[j] \in Dir
    <3> DEFINE ways == [j \in 0..N |-> up[j]]
    <3>1. ways \in [0..N -> Dir] /\ \A j \in 0..N : ways[j] = up[j]
      BY <2>3
    <3> HIDE DEF ways
    <3>2. IsFiniteSet(0..N) /\ Cardinality(0..N) = N + 1
      BY <1>1, FS_Interval
    <3>3. Cardinality(Dir) < Cardinality(0..N)
      BY <1>1, <3>2 DEF N
    <3>4. PICK x, y \in 0..N : x # y /\ ways[x] = ways[y]
      <4> DEFINE numbers == 0..N
      <4>1. IsFiniteSet(numbers) /\ Cardinality(Dir) < Cardinality(numbers)
        BY <3>2, <3>3
      <4>2. ways \in [numbers -> Dir]
        BY <3>1
      <4> HIDE DEF numbers
      <4>3. \E x, y \in numbers : x # y /\ ways[x] = ways[y]
        BY <4>1, <4>2, FiniteAssumption, FS_PigeonHole
      <4>4. QED
        BY <4>3 DEF numbers
    <3>5. x < y \/ y < x
      BY <1>1, <3>4
    <3>6. QED
      BY <2>1, <2>3, <3>1, <3>4, <3>5
  <2>4. QED
    BY <1>1, <2>2, <2>3
<1>7. QED
  BY <1>1, <1>4, <1>5, <1>6

-----------------------------------------------------------------------------
(* What additions, commits and creations leave in a directory.             *)

\* A directory that holds a repository.
Versioned == {h \in Holding : h.git \in Repository}

LEMMA HoldingFields ==
    ASSUME NEW h \in Holding
    PROVE  /\ h = [git |-> h.git, files |-> h.files]
           /\ h.git \in Repository \cup {NoRepo} /\ h.files \subseteq GitFile
           /\ h.git # NoRepo => h \in Versioned
  BY DEF Holding, Versioned

LEMMA AddedType ==
    ASSUME NEW h \in Versioned, NEW file
    PROVE  Added(h, file) \in Versioned
<1> DEFINE index == h.git.index \cup ({file} \cap h.files)
<1>1. h \in Holding /\ h.git = [index |-> h.git.index, born |-> h.git.born]
      /\ h.git.index \subseteq GitFile /\ h.git.born \in BOOLEAN
  BY DEF Versioned, Repository
<1>2. h = [git |-> h.git, files |-> h.files] /\ h.files \subseteq GitFile
  BY <1>1, HoldingFields
<1>3. Added(h, file) = [git |-> [index |-> index, born |-> h.git.born], files |-> h.files]
  <2>1. [h.git EXCEPT !.index = @ \cup ({file} \cap h.files)] = [index |-> index, born |-> h.git.born]
    BY <1>1
  <2>2. Added(h, file) = [h EXCEPT !.git = [index |-> index, born |-> h.git.born]]
    BY <2>1 DEF Added
  <2>3. QED
    BY <1>2, <2>2
<1>4. [index |-> index, born |-> h.git.born] \in Repository
  BY <1>1, <1>2 DEF Repository
<1>5. QED
  BY <1>2, <1>3, <1>4 DEF Versioned, Holding

LEMMA CommittedType ==
    ASSUME NEW h \in Versioned
    PROVE  Committed(h) \in Versioned
<1>1. h \in Holding /\ h.git = [index |-> h.git.index, born |-> h.git.born]
      /\ h.git.index \subseteq GitFile
  BY DEF Versioned, Repository
<1>2. h = [git |-> h.git, files |-> h.files] /\ h.files \subseteq GitFile
  BY <1>1, HoldingFields
<1> DEFINE g == [index |-> h.git.index, born |-> TRUE]
<1>3. g \in Repository
  BY <1>1 DEF Repository
<1>4. Committed(h) = [git |-> g, files |-> h.files]
  <2>1. \A b \in BOOLEAN : [h.git EXCEPT !.born = b] = [index |-> h.git.index, born |-> b]
    BY <1>1
  <2>2. [h.git EXCEPT !.born = TRUE] = g
    BY <2>1
  <2>3. Committed(h) = [h EXCEPT !.git = g]
    BY <2>2 DEF Committed
  <2> HIDE DEF g
  <2>4. QED
    BY <1>2, <2>3
<1> HIDE DEF g
<1>5. QED
  BY <1>2, <1>3, <1>4 DEF Versioned, Holding

LEMMA MadeType ==
    ASSUME NEW h \in Holding, NEW first \in GitFile, NEW fails
    PROVE  /\ Made(Initialised(h), first, fails).holding \in Versioned
           /\ Made(Initialised(h), first, fails).ends \in {"refused", "aborted", "created"}
<1> DEFINE i == Initialised(h)
           filed == [i EXCEPT !.files = @ \cup {first}]
           added == Added(filed, first)
<1>1. i \in Versioned
  <2>1. NewRepo \in Repository
    BY DEF NewRepo, Repository
  <2>2. i = [git |-> IF h.git = NoRepo THEN NewRepo ELSE h.git, files |-> h.files]
    BY HoldingFields DEF Initialised
  <2>3. QED
    BY <2>1, <2>2, HoldingFields DEF Versioned, Holding
<1> HIDE DEF i
<1>2. filed \in Versioned
  <2>1. i = [git |-> i.git, files |-> i.files] /\ i.files \subseteq GitFile
        /\ i.git \in Repository
    BY <1>1, HoldingFields DEF Versioned
  <2>2. filed = [git |-> i.git, files |-> i.files \cup {first}]
    BY <2>1
  <2>3. QED
    BY <2>1, <2>2 DEF Versioned, Holding
<1> HIDE DEF filed
<1>3. added \in Versioned /\ Committed(added) \in Versioned
  BY <1>2, AddedType, CommittedType
<1>4. Made(i, first, fails) \in {[holding |-> i, ends |-> "refused"],
                                 [holding |-> filed, ends |-> "refused"],
                                 [holding |-> filed, ends |-> "aborted"],
                                 [holding |-> added, ends |-> "aborted"],
                                 [holding |-> Committed(added), ends |-> "created"]}
  <2> HIDE DEF added
  <2>1. QED
    BY DEF Made, added, filed
<1>5. QED
  BY <1>1, <1>2, <1>3, <1>4 DEF i

-----------------------------------------------------------------------------
(* GitInv, one lemma per operation of git.c.                               *)

LEMMA CurrentPathType ==
    ASSUME GitInv, NEW current \in CurrentPath
    PROVE  /\ current \in Dir \cup {NULL}
           /\ \/ current = srsGit_REPO_PATH
              \/ srsGit_REPO_PATH = NULL /\ current = srsGit_REPO
           /\ current = NULL => srsGit_REPO_PATH = NULL
  BY DEF CurrentPath, GitInv, GitTypeOK

\* A step that leaves what GitInv is about alone, but for the disk.
GitSame == UNCHANGED <<srsGit_REPO, srsGit_REPO_PATH, srsGIT_READY, opens, replaced>>

LEMMA GitSameStep ==
    ASSUME GitInv, GitSame, disk' \in [Dir -> Holding], gret' \in BOOLEAN \cup {NULL},
           Running' => Running
    PROVE  GitInv'
  BY DEF GitSame, GitInv, GitTypeOK, InitsAreOpens, PathFollowsRepo

LEMMA DiesStep ==
    ASSUME GitInv, Dies("aborted")
    PROVE  GitInv'
<1>1. GitSame /\ UNCHANGED <<disk, gret>> /\ ~Running'
  BY DEF Dies, git, GitSame, Running
<1>2. QED
  BY <1>1, GitSameStep DEF GitInv, GitTypeOK

LEMMA Repo_CloseStep ==
    ASSUME GitInv, Repo_Close
    PROVE  GitInv'
  BY DEF Repo_Close, Close, GitInv, GitTypeOK, InitsAreOpens, PathFollowsRepo, Running, At

LEMMA ShutdownStep ==
    ASSUME GitInv, Shutdown
    PROVE  GitInv'
  BY DEF Shutdown, Close, GitInv, GitTypeOK, InitsAreOpens, PathFollowsRepo, Running, At

LEMMA IsRepoStep ==
    ASSUME GitInv, NEW path, IsRepo(path)
    PROVE  GitInv'
<1>1. CASE Dies("aborted")
  BY <1>1, DiesStep
<1>2. CASE /\ gret' = IsRepository(Resolve(path))
           /\ srsGIT_READY' = Looked(srsGIT_READY)
           /\ UNCHANGED <<disk, srsGit_REPO, srsGit_REPO_PATH, status, opens, replaced>>
  <2>1. srsGIT_READY' = srsGIT_READY
    BY <1>2 DEF Looked, INIT_LIB, EXIT_LIB, GitInv, GitTypeOK
  <2>2. gret' \in BOOLEAN
    BY <1>2 DEF IsRepository
  <2>3. QED
    BY <1>2, <2>1, <2>2, GitSameStep DEF GitSame, GitInv, GitTypeOK, Running
<1>3. QED
  BY <1>1, <1>2 DEF IsRepo

LEMMA RepositoryIsThere ==
    ASSUME TypeOK, NEW d, IsRepository(d)
    PROVE  d \in Dir
  BY DEF TypeOK, IsRepository

LEMMA Repo_OpenStep ==
    ASSUME TypeOK, GitInv, NEW path, Repo_Open(path)
    PROVE  GitInv'
<1>1. CASE Dies("aborted")
  BY <1>1, DiesStep
<1>2. CASE ~Dies("aborted")
  <2>1. PICK ok \in GitOutcome :
          LET opened == ok /\ IsRepository(Resolve(path))
          IN  /\ srsGit_REPO' = IF opened THEN Resolve(path) ELSE NULL
              /\ srsGit_REPO_PATH' = NULL
              /\ srsGIT_READY' = INIT_LIB(srsGIT_READY)
              /\ gret' = opened
              /\ opens' = opens + 1
              /\ replaced' = FALSE
              /\ UNCHANGED <<disk, status>>
    BY <1>2 DEF Repo_Open
  <2>2. srsGit_REPO' \in Dir \cup {NULL} /\ gret' \in BOOLEAN
    BY <2>1, RepositoryIsThere, OutcomeAssumption DEF IsRepository
  <2>3. Running
    BY DEF Repo_Open, At, Running
  <2>4. srsGIT_READY' = srsGIT_READY + 1 /\ srsGIT_READY \in Nat /\ opens \in Nat
        /\ srsGIT_READY = opens
    BY <2>1, <2>3 DEF INIT_LIB, GitInv, GitTypeOK, InitsAreOpens
  <2>5. GitTypeOK'
    <3>1. disk' \in [Dir -> Holding]
      BY <2>1 DEF GitInv, GitTypeOK
    <3>2. replaced' \in BOOLEAN
      BY <2>1
    <3>3. srsGit_REPO_PATH' \in Dir \cup {NULL} /\ srsGIT_READY' \in Nat /\ opens' \in Nat
      BY <2>1, <2>4
    <3>4. QED
      BY <2>2, <3>1, <3>2, <3>3 DEF GitTypeOK
  <2>6. InitsAreOpens' /\ PathFollowsRepo'
    BY <2>1, <2>4 DEF InitsAreOpens, PathFollowsRepo
  <2>7. QED
    BY <2>5, <2>6 DEF GitInv
<1>3. QED
  BY <1>1, <1>2

LEMMA AddStep ==
    ASSUME TypeOK, GitInv, NEW file, Add(file)
    PROVE  GitInv'
<1>1. CASE Dies("aborted")
  BY <1>1, DiesStep
<1>2. CASE srsGit_REPO = NULL
  BY <1>2, GitSameStep DEF Add, git, GitSame, GitInv, GitTypeOK, Running
<1>3. CASE srsGit_REPO # NULL /\ ~Dies("aborted")
  <2> DEFINE after == Added(disk[srsGit_REPO], file)
  <2>1. /\ IsRepository(srsGit_REPO)
        /\ disk' = [disk EXCEPT ![srsGit_REPO] = after]
        /\ srsGit_REPO_PATH' \in CurrentPath
        /\ srsGIT_READY' = EXIT_LIB(INIT_LIB(srsGIT_READY))
        /\ gret' = (file \in after.git.index)
        /\ UNCHANGED <<srsGit_REPO, opens, replaced>>
    BY <1>3 DEF Add
  <2>2. disk[srsGit_REPO] \in Versioned /\ disk \in [Dir -> Holding]
    BY <2>1, RepositoryIsThere, HoldingFields DEF GitInv, GitTypeOK, IsRepository
  <2>3. after \in Holding
    BY <2>2, AddedType DEF Versioned
  <2> HIDE DEF after
  <2>4. disk' \in [Dir -> Holding]
    BY <2>1, <2>2, <2>3
  <2>5. srsGIT_READY' = srsGIT_READY /\ gret' \in BOOLEAN
    BY <2>1 DEF INIT_LIB, EXIT_LIB, GitInv, GitTypeOK
  <2>6. GitTypeOK'
    BY <2>1, <2>4, <2>5, CurrentPathType DEF GitInv, GitTypeOK
  <2>7. InitsAreOpens'
    BY <2>1, <2>5 DEF Add, At, GitInv, InitsAreOpens, Running
  <2>8. PathFollowsRepo'
    BY <1>3, <2>1, CurrentPathType DEF GitInv, PathFollowsRepo
  <2>9. QED
    BY <2>6, <2>7, <2>8 DEF GitInv
<1>4. QED
  BY <1>1, <1>2, <1>3

LEMMA CommitStep ==
    ASSUME TypeOK, GitInv, Commit
    PROVE  GitInv'
<1>1. CASE Dies("aborted")
  BY <1>1, DiesStep
<1>2. CASE srsGit_REPO = NULL
  BY <1>2, GitSameStep DEF Commit, git, GitSame, GitInv, GitTypeOK, Running
<1>3. CASE srsGit_REPO # NULL /\ ~Dies("aborted")
  <2> DEFINE after == Committed(disk[srsGit_REPO])
  <2>1. /\ IsRepository(srsGit_REPO)
        /\ disk' = [disk EXCEPT ![srsGit_REPO] = after]
        /\ srsGIT_READY' = EXIT_LIB(INIT_LIB(srsGIT_READY))
        /\ gret' = TRUE
        /\ UNCHANGED <<srsGit_REPO, srsGit_REPO_PATH, status, opens, replaced>>
    BY <1>3 DEF Commit
  <2>2. disk[srsGit_REPO] \in Versioned /\ disk \in [Dir -> Holding]
    BY <2>1, RepositoryIsThere, HoldingFields DEF GitInv, GitTypeOK, IsRepository
  <2>3. after \in Holding
    BY <2>2, CommittedType DEF Versioned
  <2> HIDE DEF after
  <2>4. disk' \in [Dir -> Holding]
    BY <2>1, <2>2, <2>3
  <2>5. srsGIT_READY' = srsGIT_READY
    BY <2>1 DEF INIT_LIB, EXIT_LIB, GitInv, GitTypeOK
  <2>6. QED
    BY <2>1, <2>4, <2>5, GitSameStep DEF GitSame, Running
<1>4. QED
  BY <1>1, <1>2, <1>3

LEMMA Repo_CreateStep ==
    ASSUME TypeOK, GitInv, NEW path, Repo_Create(path, Meta)
    PROVE  GitInv'
<1> DEFINE d == Target(path)
<1>1. CASE Dies("aborted")
  BY <1>1, DiesStep
<1>2. CASE ~Dies("aborted")
  <2>1. PICK fails \in CreateFailure, ok \in AllocOutcome :
          LET made == Made(Initialised(disk[d]), Meta, fails)
          IN  /\ disk' = [disk EXCEPT ![d] = made.holding]
              /\ srsGit_REPO' = d
              /\ srsGit_REPO_PATH' = IF made.ends # "refused" /\ srsGit_REPO_PATH = NULL /\ ok
                                     THEN d ELSE srsGit_REPO_PATH
              /\ replaced' = (srsGit_REPO_PATH # NULL)
              /\ srsGIT_READY' = INIT_LIB(srsGIT_READY)
              /\ opens' = opens + 1
              /\ gret' = (made.ends = "created")
    BY <1>2 DEF Repo_Create
  <2> DEFINE made == Made(Initialised(disk[d]), Meta, fails)
  <2>2. d \in Dir
    BY DEF Repo_Create
  <2> HIDE DEF d
  <2>3. disk \in [Dir -> Holding] /\ disk[d] \in Holding
    BY <2>2 DEF GitInv, GitTypeOK
  <2>4. made.holding \in Holding
    BY <2>3, MetaAssumption, MadeType DEF Versioned
  <2> HIDE DEF made
  <2>5. disk' \in [Dir -> Holding]
    BY <2>1, <2>3, <2>4 DEF made
  <2>6. srsGit_REPO_PATH' \in {d, srsGit_REPO_PATH}
        /\ (srsGit_REPO_PATH = NULL => srsGit_REPO_PATH' \in {d, NULL})
    BY <2>1 DEF made
  <2>7. Running /\ srsGIT_READY = opens /\ srsGIT_READY' = srsGIT_READY + 1
    BY <2>1 DEF Repo_Create, At, Running, GitInv, InitsAreOpens, INIT_LIB
  <2>8. gret' \in BOOLEAN /\ replaced' = (srsGit_REPO_PATH # NULL) /\ opens' = opens + 1
        /\ srsGit_REPO' = d
    BY <2>1
  <2>9. GitTypeOK'
    BY <2>2, <2>5, <2>6, <2>7, <2>8 DEF GitInv, GitTypeOK
  <2>10. InitsAreOpens'
    BY <2>7, <2>8 DEF InitsAreOpens, GitInv, GitTypeOK
  <2>11. PathFollowsRepo'
    BY <2>2, <2>6, <2>8, NullAssumption DEF PathFollowsRepo
  <2>12. QED
    BY <2>9, <2>10, <2>11 DEF GitInv
<1>3. QED
  BY <1>1, <1>2

-----------------------------------------------------------------------------
(* Steps of the model as steps of the modules below it.                    *)

Kinds == AnyCall \cup {"none", "git"}

ModelTypes == /\ task \in [kind : Kinds, path : Argument, search : Argument]
              /\ srsModel_ROOT_PATH \in Dir \cup {NULL}

\* A step that only git.c makes: it may create directories, and abort.
GitStep == /\ UNCHANGED stack
           /\ present' \subseteq Dir
           /\ status = "running"
           /\ status' \in {"running", "aborted", "crashed"}

LEMMA GitStepKeepsIInv ==
    ASSUME IInv, GitStep
    PROVE  IInv'
  BY DEF GitStep, stack, histVars, IInv, TypeOK, CacheCoherent, ResidueBound, Matched, Saving

LEMMA EntersIsNext ==
    ASSUME NEW path \in Argument, Enters(path)
    PROVE  Next /\ UNCHANGED gitVars
  BY DEF Enters, Next, Calls

LEMMA ConstantTypes ==
    Dir \subseteq Argument /\ Name \subseteq Argument /\ NULL \in Argument
  BY DEF Argument

\* Every step of the model is a step of the working-directory stack, or one
\* that leaves the stack and the working directory alone.
LEMMA StackPart ==
    ASSUME TypeOK, ModelTypes, ModelNext
    PROVE  [Next]_vars \/ GitStep
<1>1. ASSUME Still PROVE UNCHANGED vars
  BY <1>1 DEF Still
<1>2. ASSUME NEW path, IsRepo(path) PROVE GitStep
  BY <1>2 DEF IsRepo, Dies, GitStep, TypeOK, At
<1>3. ASSUME NEW path, Repo_Open(path) PROVE GitStep
  BY <1>3 DEF Repo_Open, Dies, GitStep, TypeOK, At
<1>4. ASSUME Leaves PROVE Next
  BY <1>4 DEF Leaves, Next, Calls
<1>5. task.path \in Argument /\ (srsModel_ROOT_PATH \in Argument)
  BY DEF ModelTypes, Argument
<1>6. ASSUME UNCHANGED <<sysCwd, directory_current, dirstack>>, Repo_Close
      PROVE  UNCHANGED vars
  BY <1>6 DEF Repo_Close, stack, vars, histVars
<1>7. CASE Call
  <2>1. CASE SetRoot_None
    BY <1>6, <2>1 DEF SetRoot_None
  <2>2. CASE SetRoot_Again
    BY <1>1, <2>2 DEF SetRoot_Again
  <2>3. ASSUME NEW path \in Dir \cup Name, SetRoot(path) PROVE UNCHANGED vars
    BY <1>1, <2>3 DEF SetRoot
  <2>4. ASSUME NEW path \in Dir \cup Name, IsValidRoot(path) PROVE Next
    BY <2>4, EntersIsNext, ConstantTypes DEF IsValidRoot
  <2>5. ASSUME NEW path \in Dir \cup Name, ExistsInRoot(path) PROVE Next
    BY <1>5, <2>5, EntersIsNext DEF ExistsInRoot
  <2>6. ASSUME NEW path \in Argument, ExistsInRoot_Refused(path) PROVE UNCHANGED vars
    BY <1>1, <2>6 DEF ExistsInRoot_Refused
  <2>7. ASSUME NEW kind \in {"create", "create_and_set"}, NEW path \in Dir \cup Name,
               CreateRoot(kind, path)
        PROVE  GitStep
    <3>1. Repo_Create(path, Meta)
      BY <2>7 DEF CreateRoot
    <3>2. present' \in {present, present \cup Line(Target(path))} /\ Target(path) \in Dir
      BY <3>1 DEF Repo_Create
    <3>3. present' \subseteq Dir
      BY <3>2, LineType DEF TypeOK
    <3>4. status' \in {"running", "aborted"} /\ status = "running" /\ UNCHANGED stack
      BY <3>1 DEF Repo_Create, Dies, At
    <3>5. QED
      BY <3>3, <3>4 DEF GitStep
  <2>8. QED
    BY <1>7, <2>1, <2>2, <2>3, <2>4, <2>5, <2>6, <2>7 DEF Call
<1>8. CASE Git
  <2>1. CASE Caller_Close
    BY <2>1 DEF Caller_Close, Repo_Close, GitStep, TypeOK, At
  <2>2. CASE Caller_Shutdown
    BY <2>2 DEF Caller_Shutdown, Shutdown, GitStep, TypeOK, At
  <2>3. CASE Caller_Add
    BY <2>3 DEF Caller_Add, Add, Dies, GitStep, TypeOK, At
  <2>4. CASE Caller_Commit
    BY <2>4 DEF Caller_Commit, Commit, Dies, GitStep, TypeOK, At
  <2>5. QED
    BY <1>8, <2>1, <2>2, <2>3, <2>4 DEF Git
<1>9. CASE Setting
  <2>1. CASE Set_Repo
    BY <1>2, <2>1 DEF Set_Repo
  <2>2. CASE Set_Enter
    BY <1>5, <2>2, EntersIsNext DEF Set_Enter
  <2>3. CASE Set_Check
    BY <1>1, <1>4, <2>3 DEF Set_Check
  <2>4. CASE Set_Checked
    BY <1>1, <2>4 DEF Set_Checked
  <2>5. CASE Set_Open
    BY <1>3, <2>5 DEF Set_Open
  <2>6. CASE Set_Opened
    BY <2>6 DEF Set_Opened, GitStep, TypeOK, In, At
  <2>7. CASE Steps
    BY <2>7 DEF Next
  <2>8. QED
    BY <1>9, <2>1, <2>2, <2>3, <2>4, <2>5, <2>6, <2>7 DEF Setting
<1>10. CASE Library /\ ~Setting
  <2>1. CASE Valid_Check
    BY <1>1, <1>4, <2>1 DEF Valid_Check
  <2>2. CASE Valid_Checked
    BY <1>1, <2>2 DEF Valid_Checked
  <2>3. CASE Create_Enter
    BY <1>5, <2>3, EntersIsNext DEF Create_Enter
  <2>4. CASE Create_File
    BY <1>1, <2>4 DEF Create_File, Next, Calls
  <2>5. CASE Create_End
    BY <1>1, <2>5 DEF Create_End
  <2>6. CASE Exists_Search
    BY <1>1, <1>4, <2>6 DEF Exists_Search, Stops
  <2>7. CASE Exists_Left
    BY <1>1, <1>5, <2>7, EntersIsNext DEF Exists_Left
  <2>8. CASE Exists_Compare
    BY <1>1, <1>4, <2>8 DEF Exists_Compare
  <2>9. CASE Exists_End
    BY <1>1, <2>9 DEF Exists_End
  <2>10. QED
    BY <1>10, <2>1, <2>2, <2>3, <2>4, <2>5, <2>6, <2>7, <2>8, <2>9 DEF Library
<1>11. CASE Caller_Moves
  BY <1>11, EntersIsNext, ConstantTypes DEF Caller_Moves
<1>12. CASE Disturb
  BY <1>12 DEF Disturb, Next
<1>13. QED
  BY <1>7, <1>8, <1>9, <1>10, <1>11, <1>12 DEF ModelNext, Library

-----------------------------------------------------------------------------
(* The types of the model, and GitInv under every use the model makes of   *)
(* git.c.                                                                  *)

\* Only a running process takes a step.
LEMMA ModelRuns ==
    ASSUME ModelNext
    PROVE  Running
<1>1. ASSUME NEW p, At(p) PROVE Running
  BY <1>1 DEF At, Running
<1>2. ASSUME NEW p, In(p) PROVE Running
  BY <1>1, <1>2 DEF In
<1>3. ASSUME NEW kind, NEW path, Begins(kind, path) PROVE Running
  BY <1>2, <1>3 DEF Begins
<1>4. Call => Running
  BY <1>3 DEF Call, SetRoot_None, SetRoot_Again, SetRoot, IsValidRoot, ExistsInRoot,
     CreateRoot, ExistsInRoot_Refused
<1>5. Git => Running
  BY <1>3 DEF Git, Caller_Close, Caller_Shutdown, Caller_Add, Caller_Commit, CallsGit
<1>6. Steps => Running
  BY <1>1 DEF Steps, SetCWD_Refresh, PushCWD_Save, PushCWD_Chdir, PushCWD_Refresh,
     PopCWD_Empty, PopCWD_Enter, PopCWD_Skip
<1>7. Library => Running
  BY <1>2, <1>6 DEF Library, Setting, Set_Repo, Set_Enter, Set_Check, Set_Checked, Set_Open,
     Set_Opened, Valid_Check, Valid_Checked, Create_Enter, Create_File, Create_End,
     Exists_Search, Exists_Left, Exists_Compare, Exists_End
<1>8. Disturb => Running
  BY DEF Disturb, Environment, DirRemoved, DirCreated, Running
<1>9. Caller_Moves => Running
  BY <1>2 DEF Caller_Moves
<1>10. QED
  BY <1>4, <1>5, <1>7, <1>8, <1>9 DEF ModelNext

LEMMA BeginsType ==
    ASSUME NEW kind \in Kinds, NEW path \in Argument, Begins(kind, path)
    PROVE  task' \in [kind : Kinds, path : Argument, search : Argument]
  BY DEF Begins

LEMMA ModelTypesStep ==
    ASSUME TypeOK, GitInv, ModelTypes, [ModelNext]_all
    PROVE  ModelTypes'
<1>1. ASSUME UNCHANGED <<task, srsModel_ROOT_PATH>> PROVE ModelTypes'
  BY <1>1 DEF ModelTypes
<1>2. ASSUME NEW kind \in Kinds, NEW path \in Argument, Begins(kind, path),
             srsModel_ROOT_PATH' \in {srsModel_ROOT_PATH, NULL}
      PROVE  ModelTypes'
  BY <1>2, BeginsType DEF ModelTypes
<1>3. \A kind \in {"set", "reset", "valid", "create", "create_and_set", "exists", "git"} :
        kind \in Kinds
  BY DEF Kinds, AnyCall
<1>4. CASE Call
  BY <1>2, <1>3, <1>4, ConstantTypes DEF Call, SetRoot_None, SetRoot_Again, SetRoot, IsValidRoot,
     ExistsInRoot, CreateRoot, ExistsInRoot_Refused, ModelTypes
<1>5. CASE Git
  BY <1>2, <1>3, <1>5, ConstantTypes DEF Git, Caller_Close, Caller_Shutdown, Caller_Add,
     Caller_Commit, CallsGit
<1>6. CASE Set_Open
  BY <1>6 DEF Set_Open, Freed, Goto, ModelTypes
<1>7. CASE Set_Opened
  BY <1>7, CurrentPathType DEF Set_Opened, Answers, ModelTypes
<1>8. CASE Exists_Search
  <2>1. CASE UNCHANGED task
    BY <1>1, <1>8, <2>1 DEF Exists_Search
  <2>2. CASE task' = [task EXCEPT !.search = Onward(Nearest(Resolve(task.search)))]
    <3>1. Onward(Nearest(Resolve(task.search))) \in Argument
      BY ParentType DEF Onward, Argument
    <3>2. task' \in [kind : Kinds, path : Argument, search : Argument]
      BY <2>2, <3>1 DEF ModelTypes
    <3>3. QED
      BY <1>8, <3>2 DEF Exists_Search, ModelTypes
  <2>3. QED
    BY <1>8, <2>1, <2>2 DEF Exists_Search, Answers, Stops, Goto
<1>9. CASE Library /\ ~Set_Open /\ ~Set_Opened /\ ~Exists_Search
  BY <1>1, <1>9 DEF Library, Setting, Set_Repo, Set_Enter, Set_Check, Set_Checked,
     Valid_Check, Valid_Checked, Create_Enter, Create_File, Create_End,
     Exists_Left, Exists_Compare, Exists_End, Goto, Answers, modelVars
<1>10. CASE Caller_Moves \/ Disturb \/ UNCHANGED all
  BY <1>1, <1>10 DEF Caller_Moves, Disturb, all, modelVars
<1>11. QED
  BY <1>4, <1>5, <1>6, <1>7, <1>8, <1>9, <1>10 DEF ModelNext, Library, Setting

LEMMA DiskFollowsType ==
    ASSUME DiskFollows, disk \in [Dir -> Holding]
    PROVE  disk' \in [Dir -> Holding]
<1>1. PICK before \in InitialDisk :
        disk' = [d \in Dir |-> IF d \notin present' THEN Nothing
                               ELSE IF d \in present THEN disk[d] ELSE before[d]]
  BY DEF DiskFollows
<1>2. before \in [Dir -> Holding]
  BY DiskAssumption
<1>3. Nothing \in Holding
  BY DEF Nothing, Holding
<1>4. QED
  BY <1>1, <1>2, <1>3

LEMMA GitInvStep ==
    ASSUME TypeOK, ModelTypes, GitInv, [ModelNext]_all
    PROVE  GitInv'
<1>1. ASSUME UNCHANGED gitVars, Running' => Running PROVE GitInv'
  BY <1>1, GitSameStep DEF gitVars, git, GitSame, GitInv, GitTypeOK
<1>2. ModelNext => Running
  BY ModelRuns
<1>3. ASSUME Still \/ Leaves PROVE UNCHANGED gitVars
  BY <1>3 DEF Still, Leaves
<1>4. ASSUME NEW path, Enters(path) PROVE UNCHANGED gitVars
  BY <1>4 DEF Enters
<1>5. CASE Call
  <2>1. CASE SetRoot_None
    BY <2>1, Repo_CloseStep DEF SetRoot_None
  <2>2. ASSUME NEW kind, NEW path, CreateRoot(kind, path) PROVE GitInv'
    BY <2>2, Repo_CreateStep DEF CreateRoot
  <2>3. QED
    BY <1>1, <1>2, <1>3, <1>4, <1>5, <2>1, <2>2 DEF Call, SetRoot_Again, SetRoot, IsValidRoot,
       ExistsInRoot, ExistsInRoot_Refused, ModelNext
<1>6. CASE Git
  BY <1>6, Repo_CloseStep, ShutdownStep, AddStep, CommitStep
     DEF Git, Caller_Close, Caller_Shutdown, Caller_Add, Caller_Commit
<1>7. CASE Set_Repo
  BY <1>7, IsRepoStep DEF Set_Repo
<1>8. CASE Set_Open
  BY <1>8, Repo_OpenStep DEF Set_Open
<1>9. CASE Set_Opened
  <2>1. /\ srsGit_REPO_PATH' = srsGit_REPO_PATH \/ srsGit_REPO_PATH' \in CurrentPath
        /\ status' = status \/ status' = "crashed"
        /\ UNCHANGED <<disk, srsGit_REPO, srsGIT_READY, gret, opens, replaced>>
    BY <1>9 DEF Set_Opened
  <2>2. /\ srsGit_REPO_PATH' \in Dir \cup {NULL}
        /\ \/ srsGit_REPO_PATH' = srsGit_REPO_PATH
           \/ srsGit_REPO_PATH = NULL /\ srsGit_REPO_PATH' = srsGit_REPO
    BY <2>1, CurrentPathType DEF GitInv, GitTypeOK
  <2>3. GitTypeOK'
    BY <2>1, <2>2 DEF GitInv, GitTypeOK
  <2>4. InitsAreOpens'
    BY <2>1 DEF GitInv, InitsAreOpens, Running
  <2>5. PathFollowsRepo'
    BY <2>1, <2>2 DEF GitInv, PathFollowsRepo
  <2>6. QED
    BY <2>3, <2>4, <2>5 DEF GitInv
<1>10. CASE Create_File
  <2>1. CASE UNCHANGED gitVars
    BY <1>1, <1>2, <1>10, <2>1 DEF ModelNext, Library
  <2>2. CASE ~UNCHANGED gitVars
    <3>1. /\ UNCHANGED <<git, gret, opens, replaced>>
          /\ \/ disk' = disk
             \/ /\ sysCwd \in present
                /\ disk' = [disk EXCEPT ![sysCwd].files = @ \cup {DecksMeta}]
      BY <1>10, <2>2 DEF Create_File, Still
    <3>2. sysCwd \in present => disk[sysCwd] \in Holding
      BY DEF TypeOK, GitInv, GitTypeOK
    <3>3. ASSUME sysCwd \in present
          PROVE  [disk[sysCwd] EXCEPT !.files = @ \cup {DecksMeta}] \in Holding
      <4> DEFINE files == disk[sysCwd].files \cup {DecksMeta}
                 h == disk[sysCwd]
      <4>1. /\ h = [git |-> h.git, files |-> h.files]
            /\ h.git \in Repository \cup {NoRepo} /\ h.files \subseteq GitFile
        BY <3>2, <3>3, HoldingFields
      <4>2. files \subseteq GitFile
        BY <4>1, MetaAssumption
      <4> HIDE DEF h, files
      <4>3. [h EXCEPT !.files = files] = [git |-> h.git, files |-> files]
        BY <4>1
      <4>4. QED
        BY <4>1, <4>2, <4>3 DEF Holding, h, files
    <3>4. disk' \in [Dir -> Holding]
      BY <3>1, <3>3 DEF GitInv, GitTypeOK
    <3>5. QED
      BY <1>2, <1>10, <3>1, <3>4, GitSameStep DEF ModelNext, Library, git, GitSame, GitInv, GitTypeOK
  <2>3. QED
    BY <2>1, <2>2
<1>11. CASE Library /\ ~Set_Repo /\ ~Set_Open /\ ~Set_Opened /\ ~Create_File
  BY <1>1, <1>2, <1>3, <1>4, <1>11 DEF Library, Setting, Set_Enter, Set_Check, Set_Checked,
     Valid_Check, Valid_Checked, Create_Enter, Create_End, Stops,
     Exists_Search, Exists_Left, Exists_Compare, Exists_End, ModelNext
<1>12. CASE Caller_Moves
  BY <1>1, <1>2, <1>4, <1>12 DEF Caller_Moves, ModelNext
<1>13. CASE Disturb
  BY <1>2, <1>13, GitSameStep, DiskFollowsType
     DEF Disturb, ModelNext, git, GitSame, GitInv, GitTypeOK
<1>14. CASE UNCHANGED all
  <2>1. UNCHANGED gitVars /\ UNCHANGED status
    BY <1>14 DEF all, vars
  <2>2. QED
    BY <1>1, <2>1 DEF Running
<1>15. QED
  BY <1>5, <1>6, <1>7, <1>8, <1>9, <1>10, <1>11, <1>12, <1>13, <1>14
     DEF ModelNext, Library, Setting

\* What every reachable state of the model satisfies, and the proofs below use.
Base == IInv /\ ModelTypes /\ GitInv

LEMMA BaseInit == ModelInit => Base
<1> SUFFICES ASSUME ModelInit PROVE Base
  OBVIOUS
<1>1. IInv
  BY IInvInit DEF ModelInit, GitInit
<1>2. ModelTypes
  BY ConstantTypes DEF ModelInit, NoTask, ModelTypes, Kinds
<1>3. GitTypeOK
  BY DiskAssumption DEF ModelInit, GitInit, GitTypeOK
<1>4. InitsAreOpens /\ PathFollowsRepo
  BY DEF ModelInit, GitInit, InitsAreOpens, PathFollowsRepo
<1>5. QED
  BY <1>1, <1>2, <1>3, <1>4 DEF Base, GitInv

LEMMA BaseStep == Base /\ [ModelNext]_all => Base'
<1> SUFFICES ASSUME Base, [ModelNext]_all PROVE Base'
  OBVIOUS
<1>1. TypeOK /\ IInv /\ ModelTypes /\ GitInv
  BY DEF Base, IInv
<1>2. [Next]_vars \/ GitStep
  BY <1>1, StackPart DEF all
<1>3. IInv'
  BY <1>1, <1>2, IInvStep, GitStepKeepsIInv
<1>4. QED
  BY <1>1, <1>3, ModelTypesStep, GitInvStep DEF Base

LEMMA BaseAlways == ModelSpec => []Base
  BY BaseInit, BaseStep, PTL DEF ModelSpec

\* GitInv: every initialisation of libgit2 is that of one open or create, and
\* the name the library gives out is never that of a closed repository, for
\* every disk, every order of calls and every failure of libgit2.
THEOREM GitIsBalanced == ModelSpec => []GitInv
<1>1. Base => GitInv
  BY DEF Base
<1>2. QED
  BY <1>1, BaseAlways, PTL

-----------------------------------------------------------------------------
(* The root and its repository.  A SetRoot touches neither before it frees *)
(* the root, and between that and its return neither is named.             *)

Setters  == {"set", "reset"}
Creating == {"create_enter", "create_file", "create_end"}
Opening  == {"set_repo", "set_enter", "set_check", "set_checked", "set_open"}

RootHasRepo == srsModel_ROOT_PATH # NULL /\ Running /\ ~meddled =>
                 /\ srsGit_REPO = srsModel_ROOT_PATH
                 /\ srsGit_REPO_PATH = srsModel_ROOT_PATH
                 /\ srsGIT_READY > 0

BetweenRoots == mpc = "set_opened" /\ Running => /\ srsModel_ROOT_PATH = NULL
                                                 /\ srsGit_REPO_PATH = NULL
                                                 /\ (gret = TRUE) <=> (srsGit_REPO # NULL)

OldPair == srsModel_ROOT_PATH = origin.root /\ srsGit_REPO = origin.repo
NoPair  == srsModel_ROOT_PATH = NULL /\ srsGit_REPO = NULL

PairKept == /\ mpc \in Creating => task.kind \notin Setters
            /\ task.kind \in Setters /\ mpc \in Opening => OldPair
            /\ task.kind \in Setters /\ mpc = "idle" /\ mret = "FAIL" => OldPair \/ NoPair

RootInv == RootHasRepo /\ BetweenRoots /\ PairKept

rootVars == <<srsModel_ROOT_PATH, srsGit_REPO, srsGit_REPO_PATH, srsGIT_READY, gret, meddled>>
callVars == <<mpc, task, mret, origin>>

LEMMA RootInvInit == ModelInit => RootInv
  BY DEF ModelInit, NoTask, RootInv, RootHasRepo, BetweenRoots, PairKept, Creating, Setters

LEMMA RootInvStep == Base /\ RootInv /\ [ModelNext]_all => RootInv'
<1> SUFFICES ASSUME Base, RootInv, [ModelNext]_all PROVE RootInv'
  OBVIOUS
<1> USE DEF RootInv
<1>1. ModelNext => Running
  BY ModelRuns
<1>2. ASSUME UNCHANGED rootVars, Running' => Running PROVE RootHasRepo'
  BY <1>2 DEF rootVars, RootHasRepo
<1>3. ASSUME UNCHANGED <<rootVars, callVars>>, Running' => Running PROVE RootInv'
  BY <1>2, <1>3 DEF rootVars, callVars, BetweenRoots, PairKept, OldPair, NoPair
<1>4. ASSUME UNCHANGED gitVars PROVE UNCHANGED <<srsGit_REPO, srsGit_REPO_PATH, srsGIT_READY, gret>>
  BY <1>4 DEF gitVars, git
<1>5. ASSUME Still \/ Leaves PROVE UNCHANGED gitVars
  BY <1>5 DEF Still, Leaves
<1>6. ASSUME NEW path, Enters(path) PROVE UNCHANGED gitVars
  BY <1>6 DEF Enters
<1>7. ASSUME NEW kind, NEW path, Begins(kind, path)
      PROVE  /\ mpc = "idle" /\ task'.kind = kind /\ Running
             /\ origin'.root = srsModel_ROOT_PATH /\ origin'.repo = srsGit_REPO
  BY <1>7 DEF Begins, In, At, Running, State
<1>8. CASE Call
  <2>1. CASE SetRoot_None
    BY <1>7, <2>1 DEF SetRoot_None, Repo_Close, Close, RootHasRepo, BetweenRoots, PairKept,
       Opening, Creating
  <2>2. ASSUME NEW kind, NEW path, Begins(kind, path), Set_Directory(path), Still,
               UNCHANGED <<srsModel_ROOT_PATH, meddled>>
        PROVE  RootInv'
    BY <1>2, <1>4, <1>5, <1>7, <2>2 DEF Set_Directory, rootVars, BetweenRoots, PairKept,
       OldPair, Opening, Creating
  <2>3. CASE SetRoot_Again \/ \E path \in Dir \cup Name : SetRoot(path)
    BY <2>2, <2>3 DEF SetRoot_Again, SetRoot
  <2>4. ASSUME NEW kind \in {"valid", "exists"}, NEW path, Begins(kind, path),
               UNCHANGED <<srsModel_ROOT_PATH, meddled>>, UNCHANGED gitVars,
               mpc' \in {"idle", "valid_check", "exists_search"}
        PROVE  RootInv'
    BY <1>2, <1>4, <1>7, <2>4 DEF rootVars, BetweenRoots, PairKept, Setters, Opening, Creating
  <2>5. ASSUME NEW path, \/ IsValidRoot(path) \/ ExistsInRoot(path) \/ ExistsInRoot_Refused(path)
        PROVE  RootInv'
    <3>1. /\ UNCHANGED gitVars /\ UNCHANGED <<srsModel_ROOT_PATH, meddled>>
          /\ \E kind \in {"valid", "exists"} : Begins(kind, path)
      BY <1>5, <1>6, <2>5 DEF IsValidRoot, ExistsInRoot, ExistsInRoot_Refused
    <3>2. mpc = "idle"
      BY <1>7, <3>1
    <3>3. mpc' \in {"idle", "valid_check", "exists_search"}
      BY <2>5, <3>2 DEF IsValidRoot, ExistsInRoot, ExistsInRoot_Refused
    <3>4. QED
      BY <2>4, <3>1, <3>3
  <2>6. ASSUME NEW kind \in {"create", "create_and_set"}, NEW path, CreateRoot(kind, path)
        PROVE  RootInv'
    BY <1>7, <2>6 DEF CreateRoot, RootHasRepo, BetweenRoots, PairKept, Setters, Opening
  <2>7. QED
    BY <1>8, <2>1, <2>3, <2>5, <2>6 DEF Call
<1>9. CASE Git
  <2>1. CallsGit
    BY <1>9 DEF Git, Caller_Close, Caller_Shutdown, Caller_Add, Caller_Commit
  <2>2. /\ mpc = "idle" /\ mpc' = "idle" /\ task'.kind = "git" /\ meddled' = TRUE
    BY <1>7, <2>1 DEF CallsGit
  <2>3. QED
    BY <2>2 DEF RootHasRepo, BetweenRoots, PairKept, Setters, Creating
<1>10. CASE Set_Repo
  <2>1. /\ UNCHANGED <<srsModel_ROOT_PATH, srsGit_REPO, srsGit_REPO_PATH, meddled, origin, task>>
        /\ mpc = "set_repo" /\ mpc' \in {"set_enter", "idle"}
    BY <1>10 DEF Set_Repo, IsRepo, Dies, git, history, Goto, Answers, In
  <2>2. srsGIT_READY' = srsGIT_READY
    <3>1. srsGIT_READY \in Nat
      BY DEF Base, GitInv, GitTypeOK
    <3>2. QED
      BY <1>10, <3>1 DEF Set_Repo, IsRepo, Dies, git, Looked, INIT_LIB, EXIT_LIB
  <2>3. RootHasRepo'
    BY <1>1, <1>10, <2>1, <2>2 DEF RootHasRepo, ModelNext, Library, Setting
  <2>4. PairKept'
    BY <2>1 DEF PairKept, Opening, Creating, OldPair
  <2>5. QED
    BY <2>1, <2>3, <2>4 DEF BetweenRoots
<1>11. CASE Set_Open
  <2>1. /\ srsModel_ROOT_PATH' = NULL /\ mpc = "set_open" /\ mpc' = "set_opened"
    BY <1>11 DEF Set_Open, Freed, Goto, In
  <2>2. PICK path : Repo_Open(path)
    BY <1>11 DEF Set_Open
  <2>3. BetweenRoots'
    <3>1. CASE Dies("aborted")
      BY <3>1 DEF Dies, BetweenRoots, Running
    <3>2. CASE ~Dies("aborted")
      <4>1. PICK ok \in GitOutcome :
              LET opened == ok /\ IsRepository(Resolve(path))
              IN  /\ srsGit_REPO' = IF opened THEN Resolve(path) ELSE NULL
                  /\ srsGit_REPO_PATH' = NULL
                  /\ gret' = opened
        BY <2>2, <3>2 DEF Repo_Open
      <4>2. IsRepository(Resolve(path)) => Resolve(path) # NULL
        BY RepositoryIsThere, NullAssumption DEF Base, IInv
      <4>3. ok \in BOOLEAN /\ IsRepository(Resolve(path)) \in BOOLEAN
        BY OutcomeAssumption DEF IsRepository
      <4>4. CASE ok /\ IsRepository(Resolve(path))
        BY <2>1, <4>1, <4>2, <4>4 DEF BetweenRoots
      <4>5. CASE ~(ok /\ IsRepository(Resolve(path)))
        BY <2>1, <4>1, <4>5 DEF BetweenRoots
      <4>6. QED
        BY <4>4, <4>5
    <3>3. QED
      BY <3>1, <3>2
  <2>4. QED
    BY <2>1, <2>3 DEF RootHasRepo, PairKept, Opening, Creating
<1>12. CASE Set_Opened
  <2>1. /\ mpc = "set_opened" /\ Running /\ mpc' = "idle"
        /\ UNCHANGED <<srsGit_REPO, srsGIT_READY, origin, task>>
    BY <1>12 DEF Set_Opened, In, At, Running, Answers
  <2>2. /\ srsModel_ROOT_PATH = NULL /\ srsGit_REPO_PATH = NULL
        /\ (gret = TRUE) <=> (srsGit_REPO # NULL)
    BY <2>1 DEF BetweenRoots
  <2>3. CASE gret = TRUE
    <3>1. PICK current \in CurrentPath :
            /\ srsGit_REPO_PATH' = current /\ srsModel_ROOT_PATH' = current
            /\ status' = IF current = NULL THEN "crashed" ELSE status
            /\ mret' = "OK"
      BY <1>12, <2>3 DEF Set_Opened, Answers
    <3>2. current \in {NULL, srsGit_REPO}
      BY <2>2, CurrentPathType DEF Base
    <3>3. srsGIT_READY > 0
      BY <2>1, <2>2, <2>3 DEF Base, GitInv, InitsAreOpens
    <3>4. RootHasRepo'
      BY <2>1, <3>1, <3>2, <3>3 DEF RootHasRepo
    <3>5. QED
      BY <2>1, <3>1, <3>4 DEF BetweenRoots, PairKept, Opening, Creating
  <2>4. CASE gret # TRUE
    <3>1. UNCHANGED <<srsGit_REPO_PATH, srsModel_ROOT_PATH>>
      BY <1>12, <2>4 DEF Set_Opened
    <3>2. QED
      BY <2>1, <2>2, <2>4, <3>1 DEF RootHasRepo, BetweenRoots, PairKept, NoPair, Opening, Creating
  <2>5. QED
    BY <2>3, <2>4
<1>13. ASSUME UNCHANGED rootVars, Running, UNCHANGED <<origin, task>>,
              \/ mpc \in Opening /\ mpc' \in Opening
              \/ mpc \in Opening /\ mpc' = "idle"
              \/ mpc \in Creating /\ mpc' \in Creating
              \/ mpc \in Creating /\ mpc' \in Opening
              \/ mpc \in Creating /\ mpc' = "idle"
       PROVE  RootInv'
  <2>1. BetweenRoots'
    BY <1>13 DEF BetweenRoots, Opening, Creating
  <2>2. PairKept'
    BY <1>13 DEF rootVars, PairKept, Opening, Creating, OldPair
  <2>3. QED
    BY <1>2, <1>13, <2>1, <2>2
<1>14. CASE Set_Enter \/ Set_Check \/ Set_Checked \/ Create_Enter \/ Create_End
  <2>1. UNCHANGED gitVars /\ UNCHANGED <<srsModel_ROOT_PATH, meddled, origin, task>>
    BY <1>5, <1>6, <1>14 DEF Set_Enter, Set_Check, Set_Checked, Create_Enter, Create_End,
       history, Goto, Answers
  <2>2. \/ mpc \in Opening /\ mpc' \in Opening
        \/ mpc \in Opening /\ mpc' = "idle"
        \/ mpc \in Creating /\ mpc' \in Creating
        \/ mpc \in Creating /\ mpc' \in Opening
        \/ mpc \in Creating /\ mpc' = "idle"
    BY <1>14 DEF Set_Enter, Set_Check, Set_Checked, Create_Enter, Create_End, Set_Directory,
       In, Goto, Answers, Opening, Creating
  <2>3. QED
    BY <1>1, <1>4, <1>13, <1>14, <2>1, <2>2 DEF rootVars, ModelNext, Library, Setting
<1>15. CASE Create_File
  <2>1. /\ UNCHANGED rootVars /\ UNCHANGED <<origin, task>>
        /\ mpc \in Creating /\ mpc' \in Creating
    BY <1>4, <1>5, <1>15 DEF Create_File, git, history, Goto, In, rootVars, Creating
  <2>2. QED
    BY <1>1, <1>13, <1>15, <2>1 DEF ModelNext, Library
<1>16. CASE \/ Valid_Check \/ Valid_Checked
            \/ Exists_Search \/ Exists_Left \/ Exists_Compare \/ Exists_End
  <2>1. UNCHANGED gitVars /\ UNCHANGED <<srsModel_ROOT_PATH, meddled, origin>>
    BY <1>5, <1>6, <1>16 DEF Valid_Check, Valid_Checked, Exists_Search, Exists_Left,
       Exists_Compare, Exists_End, Stops, history
  <2>2. mpc' \in {"idle", "valid_checked", "exists_search", "exists_left", "exists_compare",
                  "exists_end"}
    BY <1>16 DEF Valid_Check, Valid_Checked, Exists_Search, Exists_Left,
       Exists_Compare, Exists_End, Stops, Goto, Answers, In
  <2>3. mpc' = "idle" => mret' # "FAIL"
    BY <1>16 DEF Valid_Check, Valid_Checked, Exists_Search, Exists_Left,
       Exists_Compare, Exists_End, Stops, Goto, Answers, In
  <2>4. QED
    BY <1>1, <1>2, <1>4, <1>16, <2>1, <2>2, <2>3
       DEF rootVars, ModelNext, Library, BetweenRoots, PairKept, Opening, Creating
<1>17. CASE Steps /\ UNCHANGED <<gitVars, modelVars>>
  BY <1>1, <1>3, <1>4, <1>17 DEF rootVars, callVars, modelVars, ModelNext, Library, Setting
<1>18. CASE Caller_Moves
  BY <1>1, <1>3, <1>4, <1>6, <1>18 DEF Caller_Moves, rootVars, callVars, modelVars, ModelNext
<1>19. CASE Disturb
  BY <1>1, <1>3, <1>19 DEF Disturb, git, rootVars, callVars, ModelNext
<1>20. CASE UNCHANGED all
  <2>1. UNCHANGED <<rootVars, callVars>> /\ UNCHANGED status
    BY <1>20 DEF all, vars, gitVars, git, modelVars, rootVars, callVars
  <2>2. QED
    BY <1>3, <2>1 DEF Running
<1>21. QED
  BY <1>8, <1>9, <1>10, <1>11, <1>12, <1>14, <1>15, <1>16, <1>17, <1>18, <1>19, <1>20
     DEF ModelNext, Library, Setting

\* RootIsOpenRepo: as long as the caller leaves git alone, a root that is set
\* is the open repository under the name the library gives out, and a SetRoot
\* that fails leaves the old pair or none, whatever fails or vanishes and
\* wherever between its system calls.
THEOREM RootAlwaysOpenRepo == ModelSpec => []RootIsOpenRepo
<1>1. ModelInit => RootInv
  BY RootInvInit
<1>2. RootInv => RootIsOpenRepo
  BY DEF RootInv, RootHasRepo, PairKept, OldPair, NoPair, Setters, RootIsOpenRepo, Returned
<1>3. QED
  BY <1>1, <1>2, RootInvStep, BaseAlways, PTL DEF ModelSpec

-----------------------------------------------------------------------------
(* The caller's working directory.  A call is at home until a push has     *)
(* saved the caller's directory, and again once a pop has come back to it. *)

Pushing == {"set_check", "valid_check", "create_file", "exists_search", "exists_compare"}
Popping == {"set_checked", "valid_checked", "create_end", "exists_left", "exists_end"}
Resting == {"set_repo", "set_enter", "set_open", "set_opened", "create_enter"}

AtHome == /\ dirstack = origin.stack
          /\ sysCwd \in {origin.cwd, NULL}
          /\ directory_current \in {origin.cwd, NULL}
Away   == dirstack = Append(origin.stack, origin.cwd)

Whereabouts ==
    /\ mpc \in Pushing => \/ pc = "push" /\ AtHome
                          \/ pc \in {"chdir", "refresh"} /\ Away
                          \/ pc = "idle" /\ ret = NULL /\ AtHome
                          \/ pc = "idle" /\ ret # NULL /\ Away
    /\ mpc \in Popping => \/ pc = "pop" /\ Away
                          \/ pc = "idle" /\ AtHome
    /\ mpc \in Resting => pc = "idle" /\ AtHome
    /\ mpc = "idle" => \/ task.kind = "none"
                       \/ pc = "idle" /\ AtHome

Places == Pushing \cup Popping \cup Resting \cup {"idle"}

HomeTypes == /\ origin.stack \in Seq(Dir)
             /\ calls \in Nat
             /\ calls = 0 => task.kind = "none"
             /\ mpc \in Places

RestoreInv == /\ HomeTypes
              /\ ~disturbed /\ Running => Whereabouts

LEMMA DisturbedStays ==
    ASSUME TypeOK, [Next]_vars \/ GitStep, ~disturbed'
    PROVE  ~disturbed
  BY StaysUndisturbed DEF GitStep, stack, histVars

\* Where a running push or pop takes the call, as long as nothing fails.
LEMMA WhereaboutsSteps ==
    ASSUME Base, HomeTypes, Whereabouts, Steps, UNCHANGED modelVars,
           ~disturbed', Running'
    PROVE  Whereabouts'
<1>1. TypeOK
  BY DEF Base, IInv
<1>2. UNCHANGED <<mpc, task, origin>>
  BY DEF modelVars
<1>3. ASSUME mpc = "idle", task.kind = "none" PROVE Whereabouts'
  BY <1>2, <1>3 DEF Whereabouts, Pushing, Popping, Resting
<1>4. CASE SetCWD_Refresh
  <2>1. pc = "set_refresh"
    BY <1>4 DEF SetCWD_Refresh, At
  <2>2. mpc = "idle" /\ task.kind = "none"
    BY <2>1 DEF Whereabouts, HomeTypes, Places
  <2>3. QED
    BY <1>3, <2>2
<1>5. CASE PushCWD_Save
  <2>1. PICK cwd \in CachedOrSystem :
          /\ cwd # NULL /\ dirstack' = Append(dirstack, cwd)
          /\ pc' = "chdir"
    BY <1>5 DEF PushCWD_Save, Running
  <2>2. pc = "push"
    BY <1>5 DEF PushCWD_Save, At
  <2>3. CASE mpc \in Pushing
    <3>1. AtHome
      BY <2>2, <2>3 DEF Whereabouts
    <3>2. cwd = origin.cwd
      <4>1. cwd = directory_current \/ cwd = sysCwd
        BY <2>1 DEF CachedOrSystem
      <4>2. QED
        BY <2>1, <3>1, <4>1 DEF AtHome
    <3>3. Away'
      BY <1>2, <2>1, <3>1, <3>2 DEF AtHome, Away
    <3>4. mpc \notin Popping /\ mpc \notin Resting /\ mpc # "idle"
      BY <2>3 DEF Pushing, Popping, Resting
    <3>5. QED
      BY <1>2, <2>1, <3>3, <3>4 DEF Whereabouts
  <2>4. CASE mpc \notin Pushing
    BY <1>3, <2>2, <2>4 DEF Whereabouts, HomeTypes, Places
  <2>5. QED
    BY <2>3, <2>4
<1>6. CASE PushCWD_Chdir
  <2>1. pc = "chdir" /\ pc' = "refresh" /\ UNCHANGED dirstack
    BY <1>6 DEF PushCWD_Chdir, At
  <2>2. CASE mpc \in Pushing
    BY <1>2, <2>1, <2>2 DEF Whereabouts, Away, Pushing, Popping, Resting
  <2>3. CASE mpc \notin Pushing
    BY <1>3, <2>1, <2>3 DEF Whereabouts, HomeTypes, Places
  <2>4. QED
    BY <2>2, <2>3
<1>7. CASE PushCWD_Refresh
  <2>1. pc = "refresh" /\ pc' = "idle" /\ ret' # NULL /\ UNCHANGED dirstack
    BY <1>7 DEF PushCWD_Refresh, At, Return, Running
  <2>2. CASE mpc \in Pushing
    BY <1>2, <2>1, <2>2 DEF Whereabouts, Away, Pushing, Popping, Resting
  <2>3. CASE mpc \notin Pushing
    BY <1>3, <2>1, <2>3 DEF Whereabouts, HomeTypes, Places
  <2>4. QED
    BY <2>2, <2>3
<1>8. CASE PopCWD_Empty
  <2>1. pc = "pop" /\ dirstack = <<>>
    BY <1>8 DEF PopCWD_Empty, At
  <2>2. ~Away
    BY <2>1, FrontOfAppend DEF Away, HomeTypes
  <2>3. QED
    BY <1>3, <2>1, <2>2 DEF Whereabouts, HomeTypes, Places
<1>9. CASE PopCWD_Enter
  <2>1. /\ pc = "pop" /\ pc' = "idle" /\ dirstack' = Front(dirstack)
        /\ sysCwd' = Last(dirstack) /\ directory_current' = NULL
    BY <1>9 DEF PopCWD_Enter, At, Return, Entered, PopSaved
  <2>2. CASE mpc \in Popping
    <3>1. Away
      BY <2>1, <2>2 DEF Whereabouts
    <3>2. AtHome'
      BY <1>2, <2>1, <3>1, FrontOfAppend DEF Away, AtHome, HomeTypes
    <3>3. mpc \notin Pushing /\ mpc \notin Resting /\ mpc # "idle"
      BY <2>2 DEF Pushing, Popping, Resting
    <3>4. QED
      BY <1>2, <2>1, <3>2, <3>3 DEF Whereabouts
  <2>3. CASE mpc \notin Popping
    BY <1>3, <2>1, <2>3 DEF Whereabouts, HomeTypes, Places
  <2>4. QED
    BY <2>2, <2>3
<1>10. CASE PopCWD_Skip
  BY <1>10 DEF PopCWD_Skip
<1>11. QED
  BY <1>4, <1>5, <1>6, <1>7, <1>8, <1>9, <1>10 DEF Steps

\* How a call begins: where the process is, and with a push if with anything.
CallBegins(kind, path) ==
    /\ Begins(kind, path)
    /\ UNCHANGED <<dirstack, sysCwd, directory_current>>
    /\ pc = "idle"
    /\ \/ mpc' \in {"idle", "set_repo", "create_enter"} /\ pc' = "idle"
       \/ mpc' \in {"valid_check", "exists_search"} /\ pc' = "push"
       \/ mpc' \in {"valid_check", "exists_search"} /\ pc' = "idle" /\ ret' = NULL

LEMMA EntersMoves ==
    ASSUME NEW path, Enters(path)
    PROVE  /\ UNCHANGED <<dirstack, sysCwd, directory_current>> /\ pc = "idle"
           /\ \/ pc' = "push"
              \/ pc' = "idle" /\ ret' = NULL
  BY DEF Enters, PushCWD, PushCWD_Missing, Return, fsVars, At

LEMMA CallMoves ==
    ASSUME ModelTypes, Call \/ Git
    PROVE  \E kind \in Kinds \ {"none"}, path \in Argument : CallBegins(kind, path)
<1>1. ASSUME NEW kind, NEW path, Begins(kind, path)
      PROVE  mpc = "idle" /\ pc = "idle"
  BY <1>1 DEF Begins, In, At
<1>2. ASSUME Still
      PROVE  UNCHANGED <<dirstack, sysCwd, directory_current, pc>>
  BY <1>2 DEF Still, vars
<1>3. \A kind \in {"set", "reset", "valid", "create", "create_and_set", "exists", "git"} :
        kind \in Kinds \ {"none"}
  BY DEF Kinds, AnyCall
<1>4. CASE SetRoot_None
  <2>1. UNCHANGED <<dirstack, sysCwd, directory_current, pc>>
    BY <1>4 DEF SetRoot_None, Repo_Close, stack
  <2>2. Begins("set", NULL) /\ mpc' = mpc
    BY <1>4 DEF SetRoot_None
  <2>3. CallBegins("set", NULL)
    BY <1>1, <2>1, <2>2 DEF CallBegins
  <2>4. QED
    BY <1>3, <2>3, ConstantTypes
<1>5. CASE SetRoot_Again
  <2>1. CallBegins("reset", srsModel_ROOT_PATH)
    BY <1>1, <1>2, <1>5 DEF SetRoot_Again, Set_Directory, CallBegins
  <2>2. srsModel_ROOT_PATH \in Argument
    BY DEF ModelTypes, Argument
  <2>3. QED
    BY <1>3, <2>1, <2>2
<1>6. ASSUME NEW path \in Dir \cup Name, SetRoot(path) PROVE CallBegins("set", path)
  BY <1>1, <1>2, <1>6 DEF SetRoot, Set_Directory, CallBegins
<1>7. ASSUME NEW path \in Argument, ExistsInRoot_Refused(path) PROVE CallBegins("exists", path)
  BY <1>1, <1>2, <1>7 DEF ExistsInRoot_Refused, CallBegins
<1>8. ASSUME NEW path \in Dir \cup Name, IsValidRoot(path) PROVE CallBegins("valid", path)
  BY <1>8, EntersMoves DEF IsValidRoot, CallBegins
<1>9. ASSUME NEW path \in Dir \cup Name, ExistsInRoot(path) PROVE CallBegins("exists", path)
  BY <1>9, EntersMoves DEF ExistsInRoot, CallBegins
<1>10. ASSUME NEW kind, NEW path \in Dir \cup Name, CreateRoot(kind, path)
       PROVE  CallBegins(kind, path)
  <2>1. UNCHANGED <<dirstack, sysCwd, directory_current, pc>>
    BY <1>10 DEF CreateRoot, Repo_Create, stack
  <2>2. mpc' \in {"idle", "create_enter"}
    BY <1>10 DEF CreateRoot
  <2>3. QED
    BY <1>1, <1>10, <2>1, <2>2 DEF CreateRoot, CallBegins
<1>11. CASE Git
  <2>1. CallsGit
    BY <1>11 DEF Git, Caller_Close, Caller_Shutdown, Caller_Add, Caller_Commit
  <2>2. UNCHANGED <<dirstack, sysCwd, directory_current, pc>>
    BY <1>11 DEF Git, Caller_Close, Caller_Shutdown, Caller_Add, Caller_Commit,
       Repo_Close, Shutdown, Add, Commit, stack
  <2>3. CallBegins("git", NULL)
    BY <1>1, <2>1, <2>2 DEF CallsGit, CallBegins
  <2>4. QED
    BY <1>3, <2>3, ConstantTypes
<1>12. QED
  BY <1>3, <1>4, <1>5, <1>6, <1>7, <1>8, <1>9, <1>10, <1>11, ConstantTypes DEF Call

\* How a call goes on between the operations of the stack.
CallGoesOn ==
    \/ /\ mpc \in Resting /\ mpc' \in Resting \cup {"idle"}
       /\ UNCHANGED <<dirstack, sysCwd, directory_current, pc>>
    \/ mpc \in Resting \cup {"exists_left"} /\ mpc' \in Pushing /\ \E path : Enters(path)
    \/ mpc \in Popping /\ mpc' \in Resting \cup {"idle"} /\ Still
    \/ mpc \in Pushing /\ ret = NULL /\ Still /\ mpc' \in {"idle", "set_open"} \cup Popping
    \/ mpc \in Pushing /\ ret # NULL /\ PopCWD /\ mpc' \in Popping
    \/ mpc \in Pushing /\ ret # NULL /\ Still /\ mpc' = mpc

LEMMA LibraryMoves ==
    ASSUME ModelTypes, Library, ~(Steps /\ UNCHANGED <<gitVars, modelVars>>)
    PROVE  /\ pc = "idle" /\ UNCHANGED <<origin, calls, changes>>
           /\ task'.kind = task.kind /\ task'.path = task.path
           /\ CallGoesOn
<1>1. UNCHANGED <<origin, calls, changes>>
  BY DEF Library, Setting, Set_Repo, Set_Enter, Set_Check,
     Set_Checked, Set_Open, Set_Opened, Valid_Check, Valid_Checked, Create_Enter, Create_File,
     Create_End, Exists_Search, Exists_Left, Exists_Compare, Exists_End, history
<1>2. pc = "idle"
  BY DEF Library, Setting, Set_Repo, Set_Enter, Set_Check,
     Set_Checked, Set_Open, Set_Opened, Valid_Check, Valid_Checked, Create_Enter, Create_File,
     Create_End, Exists_Search, Exists_Left, Exists_Compare, Exists_End, In, At
<1>3. task'.kind = task.kind /\ task'.path = task.path
  <2>1. CASE UNCHANGED task
    BY <2>1
  <2>2. CASE ~UNCHANGED task
    <3>1. Exists_Search
      BY <2>2 DEF Library, Setting, Set_Repo, Set_Enter, Set_Check,
         Set_Checked, Set_Open, Set_Opened, Valid_Check, Valid_Checked, Create_Enter, Create_File,
         Create_End, Exists_Left, Exists_Compare, Exists_End, Goto, Answers
    <3>2. PICK v : task' = [task EXCEPT !.search = v]
      BY <2>2, <3>1 DEF Exists_Search, Stops, Goto, Answers
    <3>3. QED
      BY <3>2 DEF ModelTypes
  <2>3. QED
    BY <2>1, <2>2
<1>4. CallGoesOn
  <2>1. CASE Set_Repo \/ Set_Open \/ Set_Opened
    <3>1. /\ mpc \in Resting /\ mpc' \in Resting \cup {"idle"}
          /\ UNCHANGED <<dirstack, sysCwd, directory_current, pc>>
      BY <2>1 DEF Set_Repo, Set_Open, Set_Opened, In, IsRepo, Repo_Open, stack, Goto, Answers,
         Resting
    <3>2. QED
      BY <3>1 DEF CallGoesOn
  <2>2. CASE Set_Enter \/ Create_Enter
    <3>1. /\ mpc \in Resting /\ mpc' \in Pushing /\ \E path : Enters(path)
      BY <2>2 DEF Set_Enter, Create_Enter, In, Goto, Resting, Pushing
    <3>2. QED
      BY <3>1 DEF CallGoesOn
  <2>3. CASE Set_Checked \/ Valid_Checked \/ Create_End \/ Exists_End
    <3>1. /\ mpc \in Popping /\ mpc' \in Resting \cup {"idle"} /\ Still
      BY <2>3 DEF Set_Checked, Valid_Checked, Create_End, Exists_End, In, Goto, Answers,
         Set_Directory, Popping, Resting
    <3>2. QED
      BY <3>1 DEF CallGoesOn
  <2>4. CASE Exists_Left
    <3>1. mpc = "exists_left"
      BY <2>4 DEF Exists_Left, In
    <3>2. CASE okay
      <4>1. mpc' \in Pushing /\ \E path : Enters(path)
        BY <2>4, <3>2 DEF Exists_Left, Goto, Pushing
      <4>2. QED
        BY <3>1, <4>1 DEF CallGoesOn
    <3>3. CASE ~okay
      <4>1. mpc' = "idle" /\ Still /\ mpc \in Popping
        BY <2>4, <3>1, <3>3 DEF Exists_Left, Answers, Popping
      <4>2. QED
        BY <4>1 DEF CallGoesOn
    <3>4. QED
      BY <3>2, <3>3
  <2>5. CASE Set_Check \/ Valid_Check \/ Create_File \/ Exists_Search \/ Exists_Compare
    <3>1. mpc \in Pushing
      BY <2>5 DEF Set_Check, Valid_Check, Create_File, Exists_Search, Exists_Compare, In, Pushing
    <3>2. CASE ret = NULL
      <4>1. Still /\ mpc' \in {"idle", "set_open"} \cup Popping
        BY <2>5, <3>2 DEF Set_Check, Valid_Check, Create_File, Exists_Search, Exists_Compare,
           Goto, Answers, Popping
      <4>2. QED
        BY <3>1, <3>2, <4>1 DEF CallGoesOn
    <3>3. CASE ret # NULL
      <4>1. \/ PopCWD /\ mpc' \in Popping
            \/ Still /\ mpc' = mpc
        BY <2>5, <3>3 DEF Set_Check, Valid_Check, Create_File, Exists_Search, Exists_Compare,
           Stops, Leaves, Goto, Popping
      <4>2. QED
        BY <3>1, <3>3, <4>1 DEF CallGoesOn
    <3>4. QED
      BY <3>2, <3>3
  <2>6. QED
    BY <2>1, <2>2, <2>3, <2>4, <2>5 DEF Library, Setting
<1>5. QED
  BY <1>1, <1>2, <1>3, <1>4

LEMMA StillMoves ==
    ASSUME Still
    PROVE  UNCHANGED <<dirstack, sysCwd, directory_current, pc, ret>>
  BY DEF Still, vars

\* The places of a call are of different kinds.
LEMMA PlacesDiffer ==
    /\ \A p \in Pushing : p \notin Popping /\ p \notin Resting /\ p # "idle"
    /\ \A p \in Popping : p \notin Resting /\ p # "idle"
    /\ \A p \in Resting : p # "idle"
    /\ "exists_left" \in Popping /\ "set_open" \in Resting
  BY DEF Pushing, Popping, Resting

\* Between two operations of the stack a call stays at home, or away.
LEMMA WhereaboutsGoesOn ==
    ASSUME Whereabouts, CallGoesOn, pc = "idle", UNCHANGED origin
    PROVE  Whereabouts'
<1>1. ASSUME UNCHANGED <<dirstack, sysCwd, directory_current>>, AtHome PROVE AtHome'
  BY <1>1 DEF AtHome
<1>2. CASE /\ mpc \in Resting /\ mpc' \in Resting \cup {"idle"}
           /\ UNCHANGED <<dirstack, sysCwd, directory_current, pc>>
  <2>1. AtHome'
    BY <1>1, <1>2 DEF Whereabouts
  <2>2. QED
    BY <1>2, <2>1, PlacesDiffer DEF Whereabouts
<1>3. CASE mpc \in Resting \cup {"exists_left"} /\ mpc' \in Pushing /\ \E path : Enters(path)
  <2>1. AtHome' /\ (pc' = "push" \/ (pc' = "idle" /\ ret' = NULL))
    BY <1>1, <1>3, EntersMoves, PlacesDiffer DEF Whereabouts
  <2>2. QED
    BY <1>3, <2>1, PlacesDiffer DEF Whereabouts
<1>4. CASE mpc \in Popping /\ mpc' \in Resting \cup {"idle"} /\ Still
  <2>1. AtHome' /\ pc' = "idle"
    BY <1>1, <1>4, StillMoves DEF Whereabouts
  <2>2. QED
    BY <1>4, <2>1, PlacesDiffer DEF Whereabouts
<1>5. CASE mpc \in Pushing /\ ret = NULL /\ Still /\ mpc' \in {"idle", "set_open"} \cup Popping
  <2>1. AtHome' /\ pc' = "idle"
    BY <1>1, <1>5, StillMoves DEF Whereabouts
  <2>2. QED
    BY <1>5, <2>1, PlacesDiffer DEF Whereabouts
<1>6. CASE mpc \in Pushing /\ ret # NULL /\ PopCWD /\ mpc' \in Popping
  <2>1. pc' = "pop" /\ UNCHANGED dirstack
    BY <1>6 DEF PopCWD
  <2>2. Away'
    BY <1>6, <2>1 DEF Whereabouts, Away
  <2>3. QED
    BY <1>6, <2>1, <2>2, PlacesDiffer DEF Whereabouts
<1>7. CASE mpc \in Pushing /\ ret # NULL /\ Still /\ mpc' = mpc
  <2>1. Away' /\ pc' = "idle" /\ ret' # NULL
    BY <1>7, StillMoves DEF Whereabouts, Away
  <2>2. QED
    BY <1>7, <2>1, PlacesDiffer DEF Whereabouts
<1>8. QED
  BY <1>2, <1>3, <1>4, <1>5, <1>6, <1>7 DEF CallGoesOn

LEMMA RestoreInvInit == ModelInit => RestoreInv
<1> SUFFICES ASSUME ModelInit PROVE RestoreInv
  OBVIOUS
<1>1. Base
  BY BaseInit
<1>2. HomeTypes
  BY <1>1 DEF ModelInit, State, NoTask, HomeTypes, Places, Base, IInv, TypeOK
<1>3. Whereabouts
  BY DEF ModelInit, NoTask, Whereabouts, Pushing, Popping, Resting
<1>4. QED
  BY <1>2, <1>3 DEF RestoreInv

LEMMA RestoreInvStep == Base /\ RestoreInv /\ [ModelNext]_all => RestoreInv'
<1> SUFFICES ASSUME Base, RestoreInv, [ModelNext]_all PROVE RestoreInv'
  OBVIOUS
<1>1. TypeOK /\ CacheCoherent /\ ModelTypes /\ HomeTypes
  BY DEF Base, IInv, RestoreInv
<1>2. [Next]_vars \/ GitStep
  BY <1>1, StackPart DEF all
<1>3. ASSUME UNCHANGED modelVars PROVE HomeTypes'
  BY <1>1, <1>3 DEF HomeTypes, modelVars
<1>4. ASSUME ~disturbed', Running PROVE Whereabouts
  BY <1>1, <1>2, <1>4, DisturbedStays DEF RestoreInv
<1>5. CASE Call \/ Git
  <2>1. PICK kind \in Kinds \ {"none"}, path \in Argument : CallBegins(kind, path)
    BY <1>1, <1>5, CallMoves
  <2>2. /\ origin'.stack = dirstack /\ origin'.stack \in Seq(Dir)
        /\ origin'.cwd = IF sysCwd # NULL THEN sysCwd ELSE directory_current
        /\ calls' \in Nat /\ calls' # 0
    BY <1>1, <2>1 DEF CallBegins, Begins, State, HomeTypes, TypeOK
  <2>3. AtHome'
    BY <1>1, <2>1, <2>2 DEF CallBegins, AtHome, CacheCoherent
  <2>4. HomeTypes'
    BY <2>1, <2>2 DEF CallBegins, HomeTypes, Places, Pushing, Popping, Resting
  <2>5. Whereabouts'
    BY <2>1, <2>3 DEF CallBegins, Whereabouts, Pushing, Popping, Resting
  <2>6. QED
    BY <2>4, <2>5 DEF RestoreInv
<1>6. CASE Library /\ ~(Steps /\ UNCHANGED <<gitVars, modelVars>>)
  <2>1. /\ pc = "idle" /\ UNCHANGED <<origin, calls>> /\ task'.kind = task.kind /\ CallGoesOn
    BY <1>1, <1>6, LibraryMoves
  <2>2. mpc' \in Places
    BY <1>1, <2>1, PlacesDiffer DEF CallGoesOn, HomeTypes, Places
  <2>3. HomeTypes'
    BY <1>1, <2>1, <2>2 DEF HomeTypes
  <2>4. Running
    BY <1>6, ModelRuns DEF ModelNext
  <2>5. QED
    BY <1>4, <2>1, <2>3, <2>4, WhereaboutsGoesOn DEF RestoreInv
<1>7. CASE Steps /\ UNCHANGED <<gitVars, modelVars>>
  <2>1. Running
    BY <1>7, ModelRuns DEF ModelNext, Library, Setting
  <2>2. QED
    BY <1>1, <1>3, <1>4, <1>7, <2>1, WhereaboutsSteps DEF RestoreInv
<1>8. CASE Caller_Moves
  <2>1. UNCHANGED modelVars /\ mpc = "idle" /\ task.kind = "none"
    BY <1>1, <1>8 DEF Caller_Moves, In, HomeTypes
  <2>2. UNCHANGED <<mpc, task>>
    BY <2>1 DEF modelVars
  <2>3. Whereabouts'
    BY <2>1, <2>2 DEF Whereabouts, Pushing, Popping, Resting
  <2>4. QED
    BY <1>3, <2>1, <2>3 DEF RestoreInv
<1>9. CASE Disturb
  <2>1. /\ UNCHANGED <<directory_current, dirstack, pc, ret, status, disturbed>>
        /\ UNCHANGED <<mpc, task, calls, origin>>
        /\ sysCwd' \in {sysCwd, NULL}
    BY <1>9 DEF Disturb, Environment, DirRemoved, DirCreated, histVars
  <2>2. (AtHome => AtHome') /\ (Away => Away')
    BY <2>1 DEF AtHome, Away
  <2>3. Whereabouts => Whereabouts'
    BY <2>1, <2>2 DEF Whereabouts
  <2>4. QED
    BY <1>1, <2>1, <2>3 DEF RestoreInv, HomeTypes, Running
<1>10. CASE UNCHANGED all
  <2>1. /\ UNCHANGED <<dirstack, sysCwd, directory_current, pc, ret, status, disturbed>>
        /\ UNCHANGED <<mpc, task, calls, origin>>
    BY <1>10 DEF all, vars, modelVars
  <2>2. QED
    BY <2>1 DEF RestoreInv, HomeTypes, Whereabouts, AtHome, Away, Running
<1>11. QED
  BY <1>5, <1>6, <1>7, <1>8, <1>9, <1>10 DEF ModelNext

\* ModelRestores: whichever way a call returns, and whatever other processes do
\* meanwhile, the caller is where it was, with the stack it had, as long as no
\* chdir or push has failed.
THEOREM ModelAlwaysRestores == ModelSpec => []ModelRestores
<1>1. ModelInit => RestoreInv
  BY RestoreInvInit
<1>2. RestoreInv => ModelRestores
  <2> SUFFICES ASSUME RestoreInv, Returned(AnyCall), ~disturbed
               PROVE  dirstack = origin.stack /\ sysCwd \in {origin.cwd, NULL}
    BY DEF ModelRestores
  <2>1. Whereabouts /\ mpc = "idle" /\ task.kind # "none"
    BY DEF RestoreInv, Returned, AnyCall, At, Running
  <2>2. QED
    BY <2>1 DEF Whereabouts, AtHome
<1>3. QED
  BY <1>1, <1>2, RestoreInvStep, BaseAlways, PTL DEF ModelSpec

-----------------------------------------------------------------------------
(* What a call's path names.  An undisturbed call that is at home is where *)
(* it began, so what it resolves there is what the path named then.        *)

Undisturbed == Quiet /\ ~disturbed /\ Running

Validating == {"valid_check", "valid_checked"}
Existing   == {"exists_search", "exists_left", "exists_compare", "exists_end"}
Renaming   == {"set", "create_and_set"}

OriginTypes == /\ changes \in Nat /\ origin.changes \in Nat /\ origin.changes <= changes
               /\ origin.at \in Dir \cup {NULL}
               /\ origin.root \in Dir \cup {NULL}
               /\ origin.at # NULL => origin.cwd = origin.at

\* Which calls come to which places, and that a path of a call which goes on
\* has a directory to be relative to.
CallPlaces == /\ mpc \in Validating => task.kind = "valid"
              /\ mpc \in Existing => task.kind = "exists"
              /\ task.kind \in Renaming /\ mpc # "idle" =>
                   \/ task.path \in Dir
                   \/ task.path \in Name /\ origin.at # NULL

\* The process is in the directory of the caller whenever it is at home.
Located == origin.at # NULL =>
    /\ mpc \in Resting => sysCwd = origin.at
    /\ mpc \in Popping /\ pc = "idle" => sysCwd = origin.at
    /\ mpc \in Pushing /\ (pc = "push" \/ (pc = "idle" /\ ret = NULL)) => sysCwd = origin.at

Opened == task.kind \in Renaming =>
    /\ mpc = "set_opened" /\ gret = TRUE => srsGit_REPO = From(origin.at, task.path)
    /\ mpc = "idle" /\ mret = "OK" /\ task.path # NULL =>
         srsModel_ROOT_PATH = From(origin.at, task.path)

\* What the call asks about.
Asked  == IF task.kind = "exists" THEN origin.root ELSE From(origin.at, task.path)
Denied == Asked \notin present \ Unreadable

\* A call that will say no has an error to show, unless its first push found
\* nothing to enter.
Explained ==
    /\ mpc \in {"valid_check", "exists_search"} /\ pc = "idle" /\ ret = NULL => Denied
    /\ mpc \in {"valid_checked", "exists_left", "exists_end"} /\ ~okay => error # "none"
    /\ mpc = "exists_compare" => okay
    /\ mpc = "idle" /\ task.kind \in {"valid", "exists"} /\ mret = "FALSE" /\ error = "none" =>
         Denied

NamedInv == /\ OriginTypes
            /\ CallPlaces
            /\ Undisturbed => Located /\ Opened /\ Explained

\* Paths resolve as they did when the call began.
LEMMA ResolvesAsNamed ==
    ASSUME NEW path, sysCwd = origin.at \/ path \in Dir
    PROVE  Resolve(path) = From(origin.at, path)
  BY NullAssumption DEF Resolve, From

\* A step of another process is the end of the quiet.
LEMMA QuietStays ==
    ASSUME Base, OriginTypes, [ModelNext]_all, Undisturbed', UNCHANGED origin
    PROVE  ~Disturb /\ Undisturbed
<1>1. TypeOK /\ ModelTypes
  BY DEF Base, IInv
<1>2. ~Disturb
  BY DEF Undisturbed, Quiet, OriginTypes, Disturb
<1>3. ~disturbed
  BY <1>1, StackPart, DisturbedStays DEF Undisturbed, all
<1>4. Running
  BY ModelRuns DEF Undisturbed, Running, all, vars
<1>5. UNCHANGED changes \/ \E kind, path : Begins(kind, path)
  <2>1. Call \/ Git => \E kind, path : Begins(kind, path)
    BY <1>1, CallMoves DEF CallBegins
  <2>2. Library => UNCHANGED changes
    BY <1>1, LibraryMoves DEF modelVars
  <2>3. Caller_Moves \/ UNCHANGED all => UNCHANGED changes
    BY DEF Caller_Moves, modelVars, all
  <2>4. QED
    BY <1>2, <2>1, <2>2, <2>3 DEF ModelNext
<1>6. UNCHANGED changes
  BY <1>5 DEF Begins
<1>7. QED
  BY <1>2, <1>3, <1>4, <1>6 DEF Undisturbed, Quiet


LEMMA OriginTypesStep ==
    ASSUME Base, OriginTypes, [ModelNext]_all
    PROVE  OriginTypes'
<1>1. TypeOK /\ ModelTypes
  BY DEF Base, IInv
<1>2. CASE Call \/ Git
  <2>1. PICK kind \in Kinds \ {"none"}, path \in Argument : CallBegins(kind, path)
    BY <1>1, <1>2, CallMoves
  <2>2. UNCHANGED changes /\ origin' = State
    BY <2>1 DEF CallBegins, Begins
  <2>3. QED
    BY <1>1, <2>2 DEF State, OriginTypes, TypeOK, ModelTypes
<1>3. CASE Disturb
  BY <1>3 DEF Disturb, OriginTypes
<1>4. CASE UNCHANGED <<origin, changes>>
  BY <1>4 DEF OriginTypes
<1>5. Library \/ Caller_Moves \/ UNCHANGED all => UNCHANGED <<origin, changes>>
  BY <1>1, LibraryMoves DEF Caller_Moves, modelVars, all
<1>6. QED
  BY <1>2, <1>3, <1>4, <1>5 DEF ModelNext

\* Where a call that goes on comes from.
LEMMA LibraryPlaces ==
    ASSUME Library, ~(Steps /\ UNCHANGED <<gitVars, modelVars>>)
    PROVE  /\ mpc # "idle"
           /\ mpc' \in Validating => mpc \in Validating
           /\ mpc' \in Existing => mpc \in Existing
<1> USE DEF In, Goto, Answers, Validating, Existing
<1>1. CASE Set_Repo \/ Set_Enter \/ Set_Check \/ Set_Checked \/ Set_Open \/ Set_Opened
  BY <1>1 DEF Set_Repo, Set_Enter, Set_Check, Set_Checked, Set_Open, Set_Opened
<1>2. CASE Valid_Check \/ Valid_Checked
  BY <1>2 DEF Valid_Check, Valid_Checked
<1>3. CASE Create_Enter \/ Create_File \/ Create_End
  BY <1>3 DEF Create_Enter, Create_File, Create_End, Set_Directory
<1>4. CASE Exists_Search \/ Exists_Left \/ Exists_Compare \/ Exists_End
  BY <1>4 DEF Exists_Search, Stops, Exists_Left, Exists_Compare, Exists_End
<1>5. QED
  BY <1>1, <1>2, <1>3, <1>4 DEF Library, Setting

LEMMA CallPlacesStep ==
    ASSUME Base, CallPlaces, [ModelNext]_all
    PROVE  CallPlaces'
<1> USE DEF Validating, Existing, Renaming
<1>1. TypeOK /\ ModelTypes
  BY DEF Base, IInv
<1>2. ASSUME NEW kind, NEW path, Begins(kind, path)
      PROVE  /\ mpc = "idle" /\ task'.kind = kind /\ task'.path = path
             /\ origin'.at = sysCwd
  BY <1>2 DEF Begins, In, State
<1>3. CASE Call
  <2>1. CASE SetRoot_None \/ \E path \in Argument : ExistsInRoot_Refused(path)
    BY <1>2, <2>1 DEF SetRoot_None, ExistsInRoot_Refused, CallPlaces
  <2>2. CASE SetRoot_Again
    BY <1>2, <2>2 DEF SetRoot_Again, Set_Directory, CallPlaces
  <2>3. ASSUME NEW path \in Dir \cup Name, SetRoot(path) PROVE CallPlaces'
    <3>1. CASE mpc' = "idle"
      BY <3>1 DEF CallPlaces
    <3>2. CASE Dir_Exists(path) /\ mpc' = "set_repo"
      <4>1. Resolve(path) \in Dir
        BY <1>1, <3>2 DEF Dir_Exists, TypeOK
      <4>2. path \in Dir \/ sysCwd # NULL
        BY <4>1, NullAssumption DEF Resolve
      <4>3. QED
        BY <1>2, <2>3, <3>2, <4>2 DEF SetRoot, CallPlaces
    <3>3. QED
      BY <2>3, <3>1, <3>2 DEF SetRoot, Set_Directory
  <2>4. ASSUME NEW path, IsValidRoot(path) \/ ExistsInRoot(path) PROVE CallPlaces'
    BY <1>2, <2>4 DEF IsValidRoot, ExistsInRoot, CallPlaces
  <2>5. ASSUME NEW kind \in {"create", "create_and_set"}, NEW path \in Dir \cup Name,
               CreateRoot(kind, path)
        PROVE  CallPlaces'
    <3>1. Target(path) \in Dir /\ Begins(kind, path) /\ mpc' \in {"create_enter", "idle"}
      BY <2>5 DEF CreateRoot, Repo_Create
    <3>2. path \in Dir \/ sysCwd # NULL
      BY <3>1, NullAssumption DEF Target
    <3>3. QED
      BY <1>2, <3>1, <3>2 DEF CallPlaces
  <2>6. QED
    BY <1>3, <2>1, <2>2, <2>3, <2>4, <2>5 DEF Call
<1>4. CASE Git
  BY <1>2, <1>4 DEF Git, Caller_Close, Caller_Shutdown, Caller_Add, Caller_Commit, CallsGit,
     CallPlaces
<1>5. CASE Library /\ ~(Steps /\ UNCHANGED <<gitVars, modelVars>>)
  <2>1. UNCHANGED origin /\ task'.kind = task.kind /\ task'.path = task.path
    BY <1>1, <1>5, LibraryMoves
  <2>2. QED
    BY <1>5, <2>1, LibraryPlaces DEF CallPlaces
<1>6. CASE UNCHANGED <<mpc, task, origin>>
  BY <1>6 DEF CallPlaces
<1>7. (Steps /\ UNCHANGED <<gitVars, modelVars>>) \/ Caller_Moves \/ Disturb \/ UNCHANGED all =>
        UNCHANGED <<mpc, task, origin>>
  BY DEF Caller_Moves, Disturb, all, modelVars
<1>8. QED
  BY <1>3, <1>4, <1>5, <1>6, <1>7 DEF ModelNext

\* A push or a pop of the call, when it ends well, ends where it should.
LEMMA LocatedSteps ==
    ASSUME Base, HomeTypes, Whereabouts, OriginTypes, Located, Steps, UNCHANGED modelVars,
           ~disturbed', Running'
    PROVE  Located'
<1>1. UNCHANGED <<mpc, origin>>
  BY DEF modelVars
<1>2. CASE mpc = "idle"
  BY <1>1, <1>2, PlacesDiffer DEF Located
<1>3. CASE PopCWD_Enter /\ mpc # "idle"
  <2>1. mpc \in Popping /\ Away
    BY <1>3 DEF PopCWD_Enter, At, Whereabouts, HomeTypes, Places
  <2>2. sysCwd' = origin.cwd
    BY <1>3, <2>1, FrontOfAppend DEF PopCWD_Enter, Entered, Away, HomeTypes
  <2>3. QED
    BY <1>1, <2>1, <2>2, PlacesDiffer DEF Located, OriginTypes
<1>4. CASE PopCWD_Empty /\ mpc # "idle"
  <2>1. mpc \in Popping /\ Away /\ dirstack = <<>>
    BY <1>4 DEF PopCWD_Empty, At, Whereabouts, HomeTypes, Places
  <2>2. QED
    BY <2>1, FrontOfAppend DEF Away, HomeTypes
<1>5. CASE ~PopCWD_Enter /\ ~PopCWD_Empty /\ mpc # "idle"
  <2>1. mpc \in Pushing
    <3>1. pc \in {"set_refresh", "push", "chdir", "refresh"}
      BY <1>5 DEF Steps, SetCWD_Refresh, PushCWD_Save, PushCWD_Chdir, PushCWD_Refresh,
         PopCWD_Skip, At
    <3>2. QED
      BY <1>5, <3>1 DEF Whereabouts, HomeTypes, Places
  <2>2. pc # "set_refresh"
    BY <2>1 DEF Whereabouts
  <2>3. pc' = "chdir" \/ pc' = "refresh" \/ (pc' = "idle" /\ ret' # NULL)
    BY <1>5, <2>2 DEF Steps, SetCWD_Refresh, PushCWD_Save, PushCWD_Chdir, PushCWD_Refresh,
       PopCWD_Skip, At, Return, Running
  <2>4. QED
    BY <1>1, <2>1, <2>3, PlacesDiffer DEF Located
<1>6. QED
  BY <1>2, <1>3, <1>4, <1>5

LEMMA LocatedGoesOn ==
    ASSUME Located, CallGoesOn, pc = "idle", UNCHANGED origin
    PROVE  Located'
<1>1. CASE /\ mpc \in Resting /\ mpc' \in Resting \cup {"idle"}
           /\ UNCHANGED <<dirstack, sysCwd, directory_current, pc>>
  BY <1>1, PlacesDiffer DEF Located
<1>2. CASE mpc \in Resting \cup {"exists_left"} /\ mpc' \in Pushing /\ \E path : Enters(path)
  BY <1>2, EntersMoves, PlacesDiffer DEF Located
<1>3. CASE mpc \in Popping /\ mpc' \in Resting \cup {"idle"} /\ Still
  BY <1>3, StillMoves, PlacesDiffer DEF Located
<1>4. CASE mpc \in Pushing /\ ret = NULL /\ Still /\ mpc' \in {"idle", "set_open"} \cup Popping
  BY <1>4, StillMoves, PlacesDiffer DEF Located
<1>5. CASE mpc \in Pushing /\ ret # NULL /\ PopCWD /\ mpc' \in Popping
  <2>1. pc' = "pop"
    BY <1>5 DEF PopCWD
  <2>2. QED
    BY <1>5, <2>1, PlacesDiffer DEF Located
<1>6. CASE mpc \in Pushing /\ ret # NULL /\ Still /\ mpc' = mpc
  BY <1>6, StillMoves, PlacesDiffer DEF Located
<1>7. QED
  BY <1>1, <1>2, <1>3, <1>4, <1>5, <1>6 DEF CallGoesOn

\* What a SetRoot opens is what its path named, and what it then takes for its
\* root is what it opened.
LEMMA OpenedStep ==
    ASSUME Base, BetweenRoots, PairKept, OriginTypes, CallPlaces, Located, Opened,
           Running, Running', [ModelNext]_all, UNCHANGED origin,
           ~(Call \/ Git), ~Disturb
    PROVE  Opened'
<1>1. TypeOK /\ ModelTypes
  BY DEF Base, IInv
<1>2. CASE Library /\ ~(Steps /\ UNCHANGED <<gitVars, modelVars>>)
  <2>1. task'.kind = task.kind /\ task'.path = task.path /\ CallGoesOn /\ mpc # "idle"
    BY <1>1, <1>2, LibraryMoves, LibraryPlaces
  <2> SUFFICES ASSUME task.kind \in Renaming PROVE Opened'
    BY <2>1 DEF Opened
  <2>2. CASE Set_Open
    <3>1. task.kind # "reset" /\ mpc \in Resting /\ mpc' = "set_opened"
      BY <2>2 DEF Renaming, Set_Open, In, Resting, Goto
    <3>2. PICK path \in OpenedPath : Repo_Open(path)
      BY <2>2 DEF Set_Open
    <3>3. path = task.path
      BY <3>1, <3>2 DEF OpenedPath
    <3>4. sysCwd = origin.at \/ task.path \in Dir
      BY <2>1, <3>1 DEF Located, CallPlaces
    <3>5. Resolve(path) = From(origin.at, task.path)
      BY <3>3, <3>4, ResolvesAsNamed
    <3>6. gret' = TRUE => srsGit_REPO' = Resolve(path)
      BY <3>2 DEF Repo_Open, Dies, Running
    <3>7. QED
      BY <2>1, <3>1, <3>5, <3>6 DEF Opened
  <2>3. CASE Set_Opened
    <3>1. mpc = "set_opened" /\ mpc' = "idle" /\ (mret' = "OK" => gret = TRUE)
      BY <2>3 DEF Set_Opened, In, Answers
    <3>2. CASE gret = TRUE
      <4>1. srsGit_REPO = From(origin.at, task.path)
        BY <3>1, <3>2 DEF Opened
      <4>2. PICK current \in CurrentPath : /\ srsModel_ROOT_PATH' = current
                                           /\ current # NULL
        BY <2>3, <3>2 DEF Set_Opened, Running
      <4>3. current = srsGit_REPO
        BY <3>1, <3>2, <4>2 DEF BetweenRoots, CurrentPath
      <4>4. QED
        BY <2>1, <3>1, <4>1, <4>2, <4>3 DEF Opened
    <3>3. QED
      BY <3>1, <3>2 DEF Opened
  <2>4. CASE ~Set_Open /\ ~Set_Opened
    <3>1. mpc' # "set_opened" /\ (mpc' = "idle" => mret' # "OK")
      <4>1. CASE Set_Repo \/ Set_Enter \/ Set_Check \/ Set_Checked
        BY <4>1 DEF Set_Repo, Set_Enter, Set_Check, Set_Checked, Goto, Answers
      <4>2. CASE Valid_Check \/ Valid_Checked
        BY <4>2 DEF Valid_Check, Valid_Checked, Goto, Answers
      <4>3. CASE Create_Enter \/ Create_File
        BY <4>3 DEF Create_Enter, Create_File, Goto, Answers
      <4>4. CASE Create_End
        <5>1. task.kind = "create_and_set"
          <6>1. mpc \in Creating
            BY <4>4 DEF Create_End, In, Creating
          <6>2. QED
            BY <6>1 DEF PairKept, Renaming, Setters
        <5>2. QED
          BY <4>4, <5>1 DEF Create_End, Set_Directory, Answers
      <4>5. CASE Exists_Search \/ Exists_Left \/ Exists_Compare \/ Exists_End
        <5>1. mpc \in Existing
          BY <4>5 DEF Exists_Search, Exists_Left, Exists_Compare, Exists_End, In, Existing
        <5>2. QED
          BY <5>1 DEF CallPlaces, Renaming
      <4>6. QED
        BY <1>2, <2>4, <4>1, <4>2, <4>3, <4>4, <4>5 DEF Library, Setting
    <3>2. QED
      BY <3>1 DEF Opened
  <2>5. QED
    BY <2>2, <2>3, <2>4
<1>3. CASE UNCHANGED <<srsGit_REPO, gret, modelVars>>
  BY <1>3 DEF Opened, modelVars
<1>4. (Steps /\ UNCHANGED <<gitVars, modelVars>>) \/ Caller_Moves \/ UNCHANGED all =>
        UNCHANGED <<srsGit_REPO, gret, modelVars>>
  BY DEF Caller_Moves, Enters, all, gitVars, git
<1>5. QED
  BY <1>2, <1>3, <1>4 DEF ModelNext

\* A call that says no has an error, or could not be entered in the beginning.
LEMMA ExplainedStep ==
    ASSUME Base, HomeTypes, Whereabouts, OriginTypes, CallPlaces, Explained,
           Running, Running', ~disturbed', [ModelNext]_all, UNCHANGED origin,
           ~(Call \/ Git), ~Disturb
    PROVE  Explained'
<1>1. TypeOK /\ ModelTypes
  BY DEF Base, IInv
<1>2. CASE Steps /\ UNCHANGED <<gitVars, modelVars>>
  <2>1. UNCHANGED <<mpc, task, okay, error, mret>> /\ UNCHANGED present
    BY <1>2 DEF modelVars, Steps, SetCWD_Refresh, PushCWD_Save, PushCWD_Chdir, PushCWD_Refresh,
       PopCWD_Empty, PopCWD_Enter, PopCWD_Skip, fsVars
  <2>2. Denied' = Denied
    BY <2>1 DEF Denied, Asked
  <2>3. ASSUME mpc \in Pushing, pc' = "idle" PROVE ret' # NULL
    <3>1. pc \in {"push", "chdir", "refresh"}
      BY <1>2, <2>3, PlacesDiffer DEF Whereabouts, Steps, SetCWD_Refresh, PushCWD_Save,
         PushCWD_Chdir, PushCWD_Refresh, PopCWD_Empty, PopCWD_Enter, PopCWD_Skip, At
    <3>2. QED
      BY <1>2, <2>3, <3>1 DEF Steps, SetCWD_Refresh, PushCWD_Save, PushCWD_Chdir,
         PushCWD_Refresh, PopCWD_Empty, PopCWD_Enter, PopCWD_Skip, At, Return, Running
  <2>4. mpc \in {"valid_check", "exists_search"} => mpc \in Pushing
    BY DEF Pushing
  <2>5. QED
    BY <2>1, <2>2, <2>3, <2>4 DEF Explained
<1>3. CASE Library /\ ~(Steps /\ UNCHANGED <<gitVars, modelVars>>)
  <2>1. task'.kind = task.kind /\ task'.path = task.path /\ mpc # "idle"
    BY <1>1, <1>3, LibraryMoves, LibraryPlaces
  <2>2. CASE ~(Valid_Check \/ Valid_Checked \/ Exists_Search \/ Exists_Left \/ Exists_Compare
               \/ Exists_End)
    <3>1. mpc \notin Validating \cup Existing
      BY <1>3, <2>2 DEF Library, Setting, Set_Repo, Set_Enter, Set_Check, Set_Checked, Set_Open,
         Set_Opened, Create_Enter, Create_File, Create_End, In, Validating, Existing
    <3>2. mpc' \notin Validating \cup Existing
      BY <1>3, <3>1, LibraryPlaces
    <3>3. mpc' = "idle" => mret' # "FALSE"
      BY <1>3, <2>2 DEF Library, Setting, Set_Repo, Set_Enter, Set_Check, Set_Checked, Set_Open,
         Set_Opened, Create_Enter, Create_File, Create_End, Goto, Answers, Set_Directory
    <3>4. QED
      BY <3>2, <3>3 DEF Explained, Validating, Existing
  <2>3. CASE /\ Valid_Check \/ Valid_Checked \/ Exists_Search \/ Exists_Left \/ Exists_Compare
                \/ Exists_End
             /\ UNCHANGED present
    <3>1. Denied' = Denied /\ pc = "idle"
      BY <1>1, <1>3, <2>1, <2>3, LibraryMoves DEF Denied, Asked
    <3>2. CASE Valid_Check
      <4>1. CASE ret = NULL
        BY <3>1, <3>2, <4>1 DEF Explained, Valid_Check, In, Answers
      <4>2. CASE ret # NULL
        BY <3>2, <4>2 DEF Explained, Valid_Check, In, Goto
      <4>3. QED
        BY <4>1, <4>2
    <3>3. CASE Valid_Checked
      BY <3>3 DEF Explained, Valid_Checked, In, Answers
    <3>4. CASE Exists_Search
      <4>1. CASE ret = NULL
        BY <3>1, <3>4, <4>1 DEF Explained, Exists_Search, In, Answers
      <4>2. CASE ret # NULL /\ mpc' = mpc
        <5>1. mpc' = "exists_search" /\ ret' # NULL
          BY <3>4, <4>2 DEF Exists_Search, In, Stops, Goto, Still, vars
        <5>2. QED
          BY <5>1 DEF Explained
      <4>3. CASE ret # NULL /\ mpc' # mpc
        <5>1. mpc' = "exists_left" /\ (~okay' => error' # "none")
          BY <3>4, <4>3 DEF Exists_Search, In, Stops, Goto
        <5>2. QED
          BY <5>1 DEF Explained
      <4>4. QED
        BY <4>1, <4>2, <4>3
    <3>5. CASE Exists_Left
      BY <3>5 DEF Explained, Exists_Left, In, Answers, Goto
    <3>6. CASE Exists_Compare
      BY <3>6 DEF Explained, Exists_Compare, In, Goto
    <3>7. CASE Exists_End
      BY <3>7 DEF Explained, Exists_End, In, Answers
    <3>8. QED
      BY <2>3, <3>2, <3>3, <3>4, <3>5, <3>6, <3>7
  <2>4. Valid_Check \/ Valid_Checked \/ Exists_Search \/ Exists_Left \/ Exists_Compare
          \/ Exists_End => UNCHANGED present
    BY DEF Valid_Check, Valid_Checked, Exists_Search, Exists_Left, Exists_Compare, Exists_End,
       Still, Leaves, Stops, Enters, PushCWD, PushCWD_Missing, PopCWD, vars, fsVars
  <2>5. QED
    BY <2>2, <2>3, <2>4
<1>4. CASE Caller_Moves
  <2>1. UNCHANGED modelVars /\ mpc = "idle" /\ task.kind = "none"
    BY <1>4 DEF Caller_Moves, In, HomeTypes
  <2>2. QED
    BY <2>1 DEF Explained, modelVars
<1>5. CASE UNCHANGED all
  BY <1>5 DEF Explained, Denied, Asked, all, vars, modelVars
<1>6. QED
  BY <1>2, <1>3, <1>4, <1>5 DEF ModelNext, Library, Setting

\* A call begins where the caller is, with nothing opened and nothing denied
\* but a directory that is not there.
LEMMA NamedBegins ==
    ASSUME Base, OriginTypes, Call \/ Git, Running'
    PROVE  Located' /\ Opened' /\ Explained'
<1>1. TypeOK /\ ModelTypes
  BY DEF Base, IInv
<1>2. ASSUME NEW kind, NEW path, Begins(kind, path)
      PROVE  /\ mpc = "idle" /\ task'.kind = kind /\ task'.path = path
             /\ origin'.at = sysCwd /\ origin'.root = srsModel_ROOT_PATH
  BY <1>2 DEF Begins, In, State
<1>3. Located'
  <2>1. PICK kind \in Kinds \ {"none"}, path \in Argument : CallBegins(kind, path)
    BY <1>1, CallMoves
  <2>2. QED
    BY <1>2, <2>1 DEF CallBegins, Located
<1>4. ASSUME NEW path, Enters(path)
      PROVE  /\ UNCHANGED present
             /\ pc' = "idle" => path \notin Dir \/ path \notin present \ Unreadable
             /\ pc' = "idle" => From(sysCwd, path) \notin present \ Unreadable
  <2>1. UNCHANGED present
    BY <1>4 DEF Enters, PushCWD, PushCWD_Missing, fsVars
  <2>2. pc' = "idle" => ~Dir_Exists(path)
    BY <1>4 DEF Enters, PushCWD, PushCWD_Missing
  <2>3. Resolve(path) = From(sysCwd, path)
    BY NullAssumption DEF Resolve, From
  <2>4. path \in Dir => Resolve(path) = path
    BY DEF Resolve
  <2>5. QED
    BY <2>1, <2>2, <2>3, <2>4 DEF Dir_Exists
<1>5. CASE \E path \in Dir \cup Name : IsValidRoot(path)
  <2>1. PICK path \in Dir \cup Name : IsValidRoot(path)
    BY <1>5
  <2>2. /\ task'.kind = "valid" /\ task'.path = path /\ origin'.at = sysCwd
        /\ mpc' = "valid_check"
    BY <1>2, <2>1 DEF IsValidRoot
  <2>3. pc' = "idle" => Denied'
    BY <1>4, <2>1, <2>2 DEF IsValidRoot, Denied, Asked, From
  <2>4. QED
    BY <1>3, <2>2, <2>3 DEF Opened, Renaming, Explained
<1>6. CASE \E path \in Dir \cup Name : ExistsInRoot(path)
  <2>1. PICK path \in Dir \cup Name : ExistsInRoot(path)
    BY <1>6
  <2>2. /\ task'.kind = "exists" /\ origin'.root = srsModel_ROOT_PATH
        /\ mpc' = "exists_search" /\ srsModel_ROOT_PATH \in Dir
    BY <1>1, <1>2, <2>1 DEF ExistsInRoot, ModelTypes
  <2>3. pc' = "idle" => Denied'
    BY <1>4, <2>1, <2>2 DEF ExistsInRoot, Denied, Asked
  <2>4. QED
    BY <1>3, <2>2, <2>3 DEF Opened, Renaming, Explained
<1>7. CASE \E path \in Argument : ExistsInRoot_Refused(path)
  BY <1>2, <1>3, <1>7 DEF ExistsInRoot_Refused, Opened, Renaming, Explained
<1>8. CASE SetRoot_None
  BY <1>2, <1>3, <1>8 DEF SetRoot_None, Opened, Explained
<1>9. ASSUME NEW kind \in {"set", "reset"}, NEW path, Begins(kind, path), Set_Directory(path)
      PROVE  Opened' /\ Explained'
  BY <1>2, <1>9 DEF Set_Directory, Opened, Explained
<1>10. CASE SetRoot_Again \/ \E path \in Dir \cup Name : SetRoot(path)
  BY <1>3, <1>9, <1>10 DEF SetRoot_Again, SetRoot
<1>11. ASSUME NEW kind \in {"create", "create_and_set"}, NEW path \in Dir \cup Name,
              CreateRoot(kind, path)
       PROVE  Opened' /\ Explained'
  BY <1>2, <1>11 DEF CreateRoot, Opened, Explained
<1>12. CASE Git
  BY <1>2, <1>3, <1>12 DEF Git, Caller_Close, Caller_Shutdown, Caller_Add, Caller_Commit,
     CallsGit, Opened, Renaming, Explained
<1>13. QED
  BY <1>3, <1>5, <1>6, <1>7, <1>8, <1>10, <1>11, <1>12 DEF Call

\* Root and whereabouts are what the names of an undisturbed call rest on.
Grounds == Base /\ RootInv /\ RestoreInv

LEMMA GroundsAlways == ModelSpec => []Grounds
<1>1. ModelInit => RootInv
  BY RootInvInit
<1>2. ModelInit => RestoreInv
  BY RestoreInvInit
<1>3. QED
  BY <1>1, <1>2, RootInvStep, RestoreInvStep, BaseAlways, PTL DEF ModelSpec, Grounds

LEMMA NamedInvInit == ModelInit => NamedInv
<1> SUFFICES ASSUME ModelInit PROVE NamedInv
  OBVIOUS
<1>1. Base
  BY BaseInit
<1>2. OriginTypes
  BY <1>1 DEF ModelInit, State, OriginTypes, Base, IInv, TypeOK, ModelTypes
<1>3. CallPlaces /\ Located /\ Opened /\ Explained
  BY DEF ModelInit, NoTask, CallPlaces, Located, Opened, Explained, Validating, Existing,
     Renaming, Pushing, Popping, Resting
<1>4. QED
  BY <1>2, <1>3 DEF NamedInv

LEMMA NamedInvStep == Grounds /\ NamedInv /\ [ModelNext]_all => NamedInv'
<1> SUFFICES ASSUME Grounds, NamedInv, [ModelNext]_all PROVE NamedInv'
  OBVIOUS
<1>1. Base /\ RootInv /\ RestoreInv /\ OriginTypes /\ CallPlaces
  BY DEF Grounds, NamedInv
<1>2. OriginTypes' /\ CallPlaces'
  BY <1>1, OriginTypesStep, CallPlacesStep
<1>3. ASSUME Undisturbed' PROVE Located' /\ Opened' /\ Explained'
  <2>1. Running' /\ ~disturbed'
    BY <1>3 DEF Undisturbed, Running
  <2>2. CASE Call \/ Git
    BY <1>1, <2>1, <2>2, NamedBegins
  <2>3. CASE ~(Call \/ Git)
    <3>1. UNCHANGED origin
      BY <1>1, <2>3, LibraryMoves DEF Base, ModelNext, Caller_Moves, Disturb, modelVars, all
    <3>2. ~Disturb /\ Undisturbed
      BY <1>1, <1>3, <3>1, QuietStays
    <3>3. Running /\ HomeTypes /\ Whereabouts /\ Located /\ Opened /\ Explained
      BY <1>1, <3>2 DEF Undisturbed, RestoreInv, NamedInv
    <3>4. Opened' /\ Explained'
      BY <1>1, <2>1, <2>3, <3>1, <3>2, <3>3, OpenedStep, ExplainedStep DEF RootInv
    <3>5. Located'
      <4>1. CASE Steps /\ UNCHANGED <<gitVars, modelVars>>
        BY <1>1, <2>1, <3>3, <4>1, LocatedSteps
      <4>2. CASE Library /\ ~(Steps /\ UNCHANGED <<gitVars, modelVars>>)
        BY <1>1, <3>1, <3>3, <4>2, LibraryMoves, LocatedGoesOn DEF Base
      <4>3. CASE Caller_Moves
        BY <4>3, PlacesDiffer DEF Caller_Moves, In, modelVars, Located
      <4>4. CASE UNCHANGED all
        BY <3>3, <4>4 DEF Located, all, vars, modelVars
      <4>5. QED
        BY <2>3, <3>2, <4>1, <4>2, <4>3, <4>4 DEF ModelNext
    <3>6. QED
      BY <3>4, <3>5
  <2>4. QED
    BY <2>2, <2>3
<1>4. QED
  BY <1>2, <1>3 DEF NamedInv

LEMMA NamedInvAlways == ModelSpec => []NamedInv
  BY NamedInvInit, NamedInvStep, GroundsAlways, PTL DEF ModelSpec

\* SetOpensWhatWasNamed: a root that was set is the directory its path named
\* when the call began, for every tree and every order of calls: relative
\* paths are not read anew after a push has moved the process.
THEOREM SetAlwaysOpensWhatWasNamed == ModelSpec => []SetOpensWhatWasNamed
<1>1. NamedInv => SetOpensWhatWasNamed
  BY DEF NamedInv, Undisturbed, Opened, Renaming, SetOpensWhatWasNamed, Returned, At, Running
<1>2. QED
  BY <1>1, NamedInvAlways, PTL

\* "Error data will be set to indicate why it's invalid", says the header.  A
\* directory that cannot be entered is refused without; what is left is that a
\* negative answer has an error with it when the directory could be entered.
EnteredNoIsExplained ==
    Returned({"valid", "exists"}) /\ mret = "FALSE" /\ Quiet /\ ~disturbed /\ error = "none" =>
        LET d == IF task.kind = "exists" THEN origin.root ELSE From(origin.at, task.path)
        IN  d \notin present \ Unreadable

\* A no about a directory that can be entered comes with an error.
THEOREM NoIsAlwaysExplained == ModelSpec => []EnteredNoIsExplained
<1>1. NamedInv => EnteredNoIsExplained
  BY DEF NamedInv, Undisturbed, Explained, Denied, Asked, EnteredNoIsExplained, Returned, At, Running
<1>2. QED
  BY <1>1, NamedInvAlways, PTL

-----------------------------------------------------------------------------
(* Above and below: what the path search of ExistsInRoot decides.          *)

LEMMA LineOfMember ==
    ASSUME NEW d \in Dir, NEW e \in Line(d)
    PROVE  e \in Dir /\ Line(e) \subseteq Line(d)
<1>1. e \in Dir
  BY LineType
<1>2. \A x \in Line(d) \cap Dir : Above(x) \in Line(d) \cup {NULL}
  BY LineIsClosed
<1>3. QED
  BY <1>1, <1>2, LineIsLeast

\* Of two different directories at most one is above the other.
LEMMA OneIsAbove ==
    ASSUME NEW d \in Dir, NEW r \in Line(d), d \in Line(r)
    PROVE  d = r
<1> SUFFICES ASSUME d # r PROVE FALSE
  OBVIOUS
<1>1. Above(d) = Parent(d) /\ Parent(d) \in Dir \cup {NULL}
  BY NullAssumption, ParentType DEF Above
<1>2. CASE Parent(d) = NULL
  <2>1. Line(d) \subseteq {d}
    BY <1>1, <1>2, LineIsLeast
  <2>2. QED
    BY <2>1
<1>3. CASE Parent(d) # NULL
  <2> DEFINE S == {d} \cup Line(Parent(d))
  <2>1. Parent(d) \in Dir /\ Parent(d) \in Line(Parent(d))
    BY <1>1, <1>3, LineType
  <2>2. \A e \in Line(Parent(d)) : Above(e) \in Line(Parent(d)) \cup {NULL}
    BY <2>1, LineIsClosed
  <2>3. \A e \in S \cap Dir : Above(e) \in S \cup {NULL}
    BY <1>1, <2>1, <2>2
  <2>4. Line(d) \subseteq S
    <3> HIDE DEF S
    <3>1. d \in S
      BY DEF S
    <3>2. QED
      BY <2>3, <3>1, LineIsLeast
  <2>5. r \in Line(Parent(d))
    BY <2>4
  <2>6. d \in Line(Parent(d))
    BY <2>1, <2>5, LineOfMember
  <2>7. QED
    BY <2>6, TreeAssumption
<1>4. QED
  BY <1>2, <1>3

\* The nearest repository is one, at or above the directory.
LEMMA NearestType ==
    ASSUME NEW d \in Dir, Repositories(d) # {}
    PROVE  \E k \in Repositories(d) : /\ Nearest(d) = Up(d)[k]
                                      /\ \A j \in Repositories(d) : k <= j
                                      /\ k \in 0..Cardinality(Dir) /\ Up(d)[k] \in Dir
                                      /\ Nearest(d) \in Line(d)
<1>1. /\ Cardinality(Dir) \in Nat /\ DOMAIN Up(d) = 0..Cardinality(Dir)
      /\ \A k \in 0..Cardinality(Dir) : Up(d)[k] \in Dir \cup {NULL}
  BY UpSteps
<1> DEFINE least == CHOOSE k \in Repositories(d) : \A j \in Repositories(d) : k <= j
<1>2. Repositories(d) \subseteq Nat
  BY <1>1 DEF Repositories
<1>3. least \in Repositories(d) /\ \A j \in Repositories(d) : least <= j
  BY <1>2, LeastNumber
<1>4. Nearest(d) = Up(d)[least]
  BY DEF Nearest
<1> HIDE DEF least
<1>5. least \in 0..Cardinality(Dir) /\ Up(d)[least] # NULL
  BY <1>1, <1>3 DEF Repositories
<1>6. Up(d)[least] \in Line(d)
  BY <1>1, <1>5 DEF Line
<1>7. QED
  BY <1>1, <1>3, <1>4, <1>5, <1>6

\* A repository above a directory is at or above the nearest one.
LEMMA NearestIsBelow ==
    ASSUME NEW d \in Dir, NEW r \in Line(d), IsRepository(r)
    PROVE  Repositories(d) # {} /\ r \in Line(Nearest(d))
<1>1. /\ Cardinality(Dir) \in Nat /\ DOMAIN Up(d) = 0..Cardinality(Dir)
  BY UpSteps
<1>2. PICK j \in 0..Cardinality(Dir) : Up(d)[j] = r /\ r # NULL
  BY <1>1 DEF Line
<1>3. j \in Repositories(d)
  BY <1>1, <1>2 DEF Repositories
<1>4. PICK k \in Repositories(d) : /\ Nearest(d) = Up(d)[k] /\ k <= j
                                   /\ k \in 0..Cardinality(Dir) /\ Up(d)[k] \in Dir
  BY <1>3, NearestType
<1>5. /\ j - k \in 0..(Cardinality(Dir) - k) /\ k + (j - k) = j
      /\ j - k \in 0..Cardinality(Dir)
  BY <1>1, <1>2, <1>4
<1>6. Up(Nearest(d))[j - k] = r
  BY <1>2, <1>4, <1>5, UpFromAbove
<1>7. DOMAIN Up(Nearest(d)) = 0..Cardinality(Dir)
  BY <1>4, UpSteps
<1>8. r \in Line(Nearest(d))
  BY <1>2, <1>5, <1>6, <1>7 DEF Line
<1>9. QED
  BY <1>3, <1>8

\* A turn of the search, from below the root or from elsewhere.
LEMMA SearchTurn ==
    ASSUME NEW from \in Dir, NEW r \in Dir, IsRepository(r)
    PROVE  /\ Repositories(from) = {} => r \notin Line(from)
           /\ Repositories(from) # {} => /\ r \in Line(Nearest(from)) <=> r \in Line(from)
                                         /\ r \notin Line(from) /\ Parent(Nearest(from)) # NULL =>
                                              /\ Parent(Nearest(from)) \in Dir
                                              /\ r \notin Line(Parent(Nearest(from)))
<1>1. CASE Repositories(from) = {}
  BY <1>1, NearestIsBelow
<1>2. CASE Repositories(from) # {}
  <2>1. Nearest(from) \in Line(from)
    BY <1>2, NearestType
  <2>2. Nearest(from) \in Dir /\ Line(Nearest(from)) \subseteq Line(from)
    BY <2>1, LineOfMember
  <2>3. r \in Line(Nearest(from)) <=> r \in Line(from)
    BY <2>2, NearestIsBelow
  <2>4. ASSUME r \notin Line(from), Parent(Nearest(from)) # NULL
        PROVE  /\ Parent(Nearest(from)) \in Dir
               /\ r \notin Line(Parent(Nearest(from)))
    <3>1. Above(Nearest(from)) = Parent(Nearest(from))
      BY <2>2, NullAssumption DEF Above
    <3>2. Parent(Nearest(from)) \in Line(from)
      BY <2>1, <2>4, <3>1, LineIsClosed
    <3>3. QED
      BY <2>4, <3>2, LineOfMember
  <2>5. QED
    BY <1>2, <2>3, <2>4
<1>3. QED
  BY <1>1, <1>2

\* The directory that is asked for, and whether the root is at or above it.
Wanted  == From(origin.root, task.path)
InRoot  == Wanted \in present /\ origin.root \in Line(Wanted)
Askable == /\ origin.root # NULL /\ task.path # NULL
           /\ task.path \in Dir \/ origin.at = origin.root
           /\ Searchable

ExistsPlaces == /\ mpc \in Existing => srsModel_ROOT_PATH = origin.root
                /\ task.kind = "exists" /\ mpc # "idle" =>
                     mpc \in Existing /\ task.path \in Dir \cup Name

\* Where the push of the call leads: first to the root, in the end to what is
\* asked for.
Heading == IF mpc = "exists_search" THEN origin.root ELSE Wanted
Led == mpc \in {"exists_search", "exists_compare"} =>
    /\ pc \in {"push", "chdir"} => Resolve(call.path) = Heading
    /\ pc = "refresh" => sysCwd = Heading /\ directory_current = NULL
    /\ pc = "idle" => IF ret = NULL THEN Heading \notin present \ Unreadable
                      ELSE sysCwd = Heading /\ ret = Heading

\* A search that goes on after its first turn has left the root's tree.
Found ==
    /\ mpc = "exists_search" =>
         \/ task.search = task.path
         \/ task.search \in Dir /\ origin.root \notin Line(task.search) /\ ~InRoot
    /\ mpc = "exists_left" => (okay <=> InRoot)
    /\ mpc = "exists_compare" => InRoot /\ okay
    /\ mpc = "exists_end" => (okay <=> (InRoot /\ Wanted # origin.root))
    /\ mpc = "idle" /\ task.kind = "exists" =>
         ((mret = "TRUE") <=> (InRoot /\ Wanted # origin.root))

FoundInv == /\ ExistsPlaces
            /\ Undisturbed /\ Askable => Led /\ Found

LEMMA ExistsPlacesStep ==
    ASSUME Base, OriginTypes, CallPlaces, ExistsPlaces, [ModelNext]_all
    PROVE  ExistsPlaces'
<1>1. TypeOK /\ ModelTypes
  BY DEF Base, IInv
<1>2. ASSUME NEW kind, NEW path, Begins(kind, path)
      PROVE  /\ mpc = "idle" /\ task'.kind = kind /\ task'.path = path
             /\ origin'.root = srsModel_ROOT_PATH
  BY <1>2 DEF Begins, In, State
<1>3. CASE Call \/ Git
  <2>1. CASE \E path \in Dir \cup Name : ExistsInRoot(path)
    BY <1>2, <2>1 DEF ExistsInRoot, Existing, ExistsPlaces
  <2>2. CASE \E path \in Argument : ExistsInRoot_Refused(path)
    BY <1>2, <2>2 DEF ExistsInRoot_Refused, Existing, ExistsPlaces
  <2>3. ASSUME NEW kind \in Kinds \ {"exists"}, NEW path, Begins(kind, path), mpc' \notin Existing
        PROVE  ExistsPlaces'
    BY <1>2, <2>3 DEF ExistsPlaces
  <2>4. \A kind \in {"set", "reset", "valid", "create", "create_and_set", "git"} :
          kind \in Kinds \ {"exists"}
    BY DEF Kinds, AnyCall
  <2>5. CASE SetRoot_None \/ SetRoot_Again
    BY <1>2, <2>3, <2>4, <2>5 DEF SetRoot_None, SetRoot_Again, Set_Directory, Existing
  <2>6. ASSUME NEW path, SetRoot(path) \/ IsValidRoot(path) PROVE ExistsPlaces'
    BY <1>2, <2>3, <2>4, <2>6 DEF SetRoot, IsValidRoot, Set_Directory, Existing
  <2>7. ASSUME NEW kind \in {"create", "create_and_set"}, NEW path, CreateRoot(kind, path)
        PROVE  ExistsPlaces'
    <3>1. Begins(kind, path) /\ mpc' \in {"create_enter", "idle"}
      BY <2>7 DEF CreateRoot
    <3>2. QED
      BY <2>3, <2>4, <3>1 DEF Existing
  <2>8. CASE Git
    <3>1. Begins("git", NULL) /\ UNCHANGED mpc
      BY <2>8 DEF Git, Caller_Close, Caller_Shutdown, Caller_Add, Caller_Commit, CallsGit
    <3>2. QED
      BY <1>2, <2>3, <2>4, <3>1 DEF Existing
  <2>9. QED
    BY <1>3, <2>1, <2>2, <2>5, <2>6, <2>7, <2>8 DEF Call
<1>4. CASE Library /\ ~(Steps /\ UNCHANGED <<gitVars, modelVars>>)
  <2>1. /\ UNCHANGED origin /\ task'.kind = task.kind /\ task'.path = task.path
        /\ mpc # "idle" /\ (mpc' \in Existing => mpc \in Existing)
    BY <1>1, <1>4, LibraryMoves, LibraryPlaces
  <2>2. CASE mpc \in Existing
    <3>1. Exists_Search \/ Exists_Left \/ Exists_Compare \/ Exists_End
      BY <1>4, <2>2 DEF Library, Setting, Set_Repo, Set_Enter, Set_Check, Set_Checked, Set_Open,
         Set_Opened, Create_Enter, Create_File, Create_End, Valid_Check, Valid_Checked, In,
         Existing
    <3>2. UNCHANGED srsModel_ROOT_PATH /\ mpc' \in Existing \cup {"idle"}
      BY <2>2, <3>1 DEF Exists_Search, Exists_Left, Exists_Compare, Exists_End, Stops, Answers,
         Goto, Existing
    <3>3. QED
      BY <2>1, <2>2, <3>2 DEF ExistsPlaces
  <2>3. CASE mpc \notin Existing
    BY <2>1, <2>3 DEF ExistsPlaces
  <2>4. QED
    BY <2>2, <2>3
<1>5. CASE UNCHANGED <<mpc, task, origin, srsModel_ROOT_PATH>>
  BY <1>5 DEF ExistsPlaces
<1>6. (Steps /\ UNCHANGED <<gitVars, modelVars>>) \/ Caller_Moves \/ Disturb \/ UNCHANGED all =>
        UNCHANGED <<mpc, task, origin, srsModel_ROOT_PATH>>
  BY DEF Caller_Moves, Disturb, all, modelVars
<1>7. QED
  BY <1>3, <1>4, <1>5, <1>6 DEF ModelNext

\* A push of the call goes where it leads, as long as nothing fails.
LEMMA LedSteps ==
    ASSUME Base, HomeTypes, Whereabouts, Led, Steps, UNCHANGED modelVars, Running', ~disturbed'
    PROVE  Led'
<1> SUFFICES ASSUME mpc \in {"exists_search", "exists_compare"} PROVE Led'
  BY DEF Led, modelVars
<1>1. UNCHANGED <<mpc, task, origin>> /\ Heading' = Heading
  BY DEF modelVars, Heading, Wanted
<1>2. mpc \in Pushing
  BY DEF Pushing
<1>3. pc \in {"push", "chdir", "refresh"}
  BY <1>2, PlacesDiffer DEF Whereabouts, Steps, SetCWD_Refresh, PushCWD_Save,
     PushCWD_Chdir, PushCWD_Refresh, PopCWD_Empty, PopCWD_Enter, PopCWD_Skip, At
<1>4. CASE pc = "push"
  <2>1. pc' = "chdir" /\ UNCHANGED <<sysCwd, call>>
    BY <1>4 DEF Steps, SetCWD_Refresh, PushCWD_Save, PushCWD_Chdir, PushCWD_Refresh,
       PopCWD_Empty, PopCWD_Enter, PopCWD_Skip, At, fsVars, Running
  <2>2. QED
    BY <1>1, <1>4, <2>1 DEF Led, Resolve
<1>5. CASE pc = "chdir"
  <2>1. pc' = "refresh" /\ sysCwd' = Resolve(call.path) /\ directory_current' = NULL
    BY <1>5 DEF Steps, SetCWD_Refresh, PushCWD_Save, PushCWD_Chdir, PushCWD_Refresh,
       PopCWD_Empty, PopCWD_Enter, PopCWD_Skip, At, Entered
  <2>2. QED
    BY <1>1, <1>5, <2>1 DEF Led
<1>6. CASE pc = "refresh"
  <2>1. PICK cwd \in CachedOrSystem : /\ pc' = "idle" /\ ret' = cwd /\ cwd # NULL
                                      /\ UNCHANGED sysCwd
    BY <1>6 DEF Steps, SetCWD_Refresh, PushCWD_Save, PushCWD_Chdir, PushCWD_Refresh,
       PopCWD_Empty, PopCWD_Enter, PopCWD_Skip, At, Return, fsVars, Running
  <2>2. sysCwd = Heading /\ directory_current = NULL
    BY <1>6 DEF Led
  <2>3. cwd = sysCwd
    BY <2>1, <2>2 DEF CachedOrSystem
  <2>4. QED
    BY <1>1, <2>1, <2>2, <2>3 DEF Led
<1>7. QED
  BY <1>3, <1>4, <1>5, <1>6

LEMMA EntersLeads ==
    ASSUME NEW path, Enters(path)
    PROVE  /\ UNCHANGED present
           /\ \/ pc' = "push" /\ Resolve(call.path)' = Resolve(path)
              \/ pc' = "idle" /\ ret' = NULL /\ Resolve(path) \notin present \ Unreadable
<1>1. UNCHANGED <<present, sysCwd>>
  BY DEF Enters, PushCWD, PushCWD_Missing, fsVars
<1>2. CASE PushCWD_Missing(path)
  BY <1>1, <1>2 DEF PushCWD_Missing, Return, Dir_Exists
<1>3. CASE PushCWD(path)
  <2>1. pc' = "push" /\ call' = [NoCall EXCEPT !.path = path,
                  !.from = IF sysCwd # NULL THEN sysCwd ELSE directory_current]
    BY <1>3 DEF PushCWD
  <2>2. call'.path = path
    BY <2>1 DEF NoCall
  <2>3. QED
    BY <1>1, <2>1, <2>2 DEF Resolve
<1>4. QED
  BY <1>1, <1>2, <1>3 DEF Enters

\* The call about a directory asks the same to its end.
LEMMA AsksTheSame ==
    ASSUME UNCHANGED <<present, disk, origin>>, task'.path = task.path
    PROVE  /\ Wanted' = Wanted /\ InRoot' = InRoot /\ Askable' = Askable
           /\ origin.root' = origin.root
  BY DEF Wanted, InRoot, Askable, Searchable, IsRepository

LEMMA SearchFinds ==
    ASSUME Base, Undisturbed, Askable, CallPlaces, ExistsPlaces, Led, Found, Exists_Search,
           UNCHANGED <<present, disk, origin>>, task'.kind = task.kind, task'.path = task.path
    PROVE  Led' /\ Found'
<1> DEFINE from == Resolve(task.search)
<1>1. /\ mpc = "exists_search" /\ pc = "idle" /\ mpc \in Existing
      /\ srsModel_ROOT_PATH = origin.root
      /\ origin.root \in Dir /\ IsRepository(origin.root)
      /\ present \subseteq Dir /\ NULL \notin Dir
      /\ task.path \in Dir \cup Name /\ task.kind = "exists"
  <2>1. mpc = "exists_search" /\ pc = "idle" /\ mpc \in Existing
    BY DEF Exists_Search, In, At, Existing
  <2>2. present \subseteq Dir
    BY DEF Base, IInv, TypeOK
  <2>3. srsModel_ROOT_PATH = origin.root /\ srsModel_ROOT_PATH \in Dir \cup {NULL}
    BY <2>1 DEF ExistsPlaces, Base, ModelTypes
  <2>4. origin.root # NULL /\ IsRepository(origin.root)
    BY DEF Askable, Searchable
  <2>5. task.kind = "exists" /\ task.path \in Dir \cup Name
    BY <2>1 DEF ExistsPlaces, CallPlaces
  <2>6. QED
    BY <2>1, <2>2, <2>3, <2>4, <2>5, NullAssumption
<1>2. ret # NULL /\ sysCwd = origin.root
  <2>1. Heading = origin.root /\ origin.root \in present \ Unreadable
    BY <1>1 DEF Heading, Askable, Searchable
  <2>2. QED
    BY <1>1, <2>1 DEF Led
<1>3. Wanted' = Wanted /\ InRoot' = InRoot /\ origin' = origin
  BY AsksTheSame
<1>4. task.search = task.path => from = Wanted
  BY <1>1, <1>2 DEF Resolve, Wanted, From
<1>5. task.search \in Dir => from = task.search
  BY DEF Resolve
<1>6. \/ from = Wanted
      \/ from \in Dir /\ origin.root \notin Line(from) /\ ~InRoot
  BY <1>1, <1>4, <1>5 DEF Found
<1> HIDE DEF from
<1>7. from \in present => from \in Dir
  BY <1>1
<1>8. InRoot => from \in present /\ origin.root \in Line(from)
  BY <1>6 DEF InRoot
<1>9. from \in present /\ origin.root \in Line(from) => InRoot
  BY <1>6 DEF InRoot
<1>10. CASE from \notin present \/ Repositories(from) = {}
  <2>1. okay' = FALSE /\ mpc' = "exists_left"
    BY <1>2, <1>10 DEF Exists_Search, Stops, Goto, from
  <2>2. ~InRoot
    BY <1>1, <1>7, <1>8, <1>10, SearchTurn
  <2>3. QED
    BY <1>3, <2>1, <2>2 DEF Led, Found
<1>11. CASE /\ from \in present /\ Repositories(from) # {}
            /\ AtOrBelowRoot(Nearest(from))
  <2>1. okay' = TRUE /\ mpc' = "exists_left"
    BY <1>2, <1>11 DEF Exists_Search, Stops, Goto, from
  <2>2. InRoot
    BY <1>1, <1>7, <1>9, <1>11, SearchTurn DEF AtOrBelowRoot
  <2>3. QED
    BY <1>3, <2>1, <2>2 DEF Led, Found
<1>12. CASE /\ from \in present /\ Repositories(from) # {}
            /\ ~AtOrBelowRoot(Nearest(from))
  <2>1. ~InRoot /\ origin.root \notin Line(from)
    BY <1>1, <1>7, <1>8, <1>12, SearchTurn DEF AtOrBelowRoot
  <2>2. CASE Onward(Nearest(from)) = NULL
    <3>1. okay' = FALSE /\ mpc' = "exists_left"
      BY <1>2, <1>12, <2>2 DEF Exists_Search, Stops, Goto, from
    <3>2. QED
      BY <1>3, <2>1, <3>1 DEF Led, Found
  <2>3. CASE Onward(Nearest(from)) # NULL
    <3> DEFINE next == Parent(Nearest(from))
    <3>1. next \in Dir /\ origin.root \notin Line(next)
      BY <1>1, <1>7, <1>12, <2>1, <2>3, SearchTurn DEF Onward
    <3> HIDE DEF next
    <3>2. task' = [task EXCEPT !.search = next] /\ Still /\ UNCHANGED mpc
      BY <1>2, <1>12, <2>3 DEF Exists_Search, Onward, next, from
    <3>3. task'.search = next
      BY <3>2 DEF Base, ModelTypes
    <3>4. UNCHANGED <<pc, ret, sysCwd, call, directory_current>> /\ Heading' = Heading
      BY <1>3, <3>2 DEF Still, vars, Heading
    <3>5. QED
      BY <1>1, <1>3, <2>1, <3>1, <3>2, <3>3, <3>4 DEF Led, Found, Resolve
  <2>4. QED
    BY <2>2, <2>3
<1>13. QED
  BY <1>10, <1>11, <1>12

LEMMA FoundGoesOn ==
    ASSUME Base, Undisturbed, Askable, OriginTypes, CallPlaces, ExistsPlaces, Located, Led, Found,
           Exists_Search \/ Exists_Left \/ Exists_Compare \/ Exists_End,
           UNCHANGED <<present, disk, origin>>, task'.kind = task.kind, task'.path = task.path
    PROVE  Led' /\ Found'
<1>1. Wanted' = Wanted /\ InRoot' = InRoot /\ origin' = origin
  BY AsksTheSame
<1>2. CASE Exists_Search
  BY <1>2, SearchFinds
<1>3. CASE Exists_Left
  <2>1. mpc = "exists_left" /\ pc = "idle" /\ (okay <=> InRoot)
    BY <1>3 DEF Exists_Left, In, At, Found
  <2>2. CASE okay
    <3>1. Enters(task.path) /\ mpc' = "exists_compare" /\ okay' = okay
      BY <1>3, <2>2 DEF Exists_Left, Goto
    <3>2. Resolve(task.path) = Wanted
      <4>1. sysCwd = origin.at \/ task.path \in Dir
        BY <2>1 DEF Located, Popping, Askable
      <4>2. From(origin.at, task.path) = Wanted
        BY DEF Askable, From, Wanted
      <4>3. QED
        BY <4>1, <4>2, ResolvesAsNamed
    <3>3. Heading' = Wanted
      BY <1>1, <3>1 DEF Heading
    <3>4. QED
      BY <1>1, <2>1, <2>2, <3>1, <3>2, <3>3, EntersLeads DEF Led, Found
  <2>3. CASE ~okay
    <3>1. mpc' = "idle" /\ mret' = "FALSE"
      BY <1>3, <2>3 DEF Exists_Left, Answers
    <3>2. QED
      BY <1>1, <2>1, <2>3, <3>1 DEF Led, Found
  <2>4. QED
    BY <2>2, <2>3
<1>4. CASE Exists_Compare
  <2>1. mpc = "exists_compare" /\ pc = "idle" /\ InRoot /\ okay /\ Heading = Wanted
    BY <1>4 DEF Exists_Compare, In, At, Found, Heading
  <2>2. origin.root \in present \ Unreadable /\ mpc \in Existing
        /\ srsModel_ROOT_PATH = origin.root
    BY <2>1 DEF Askable, Searchable, ExistsPlaces, Existing
  <2>3. mpc' = "exists_end"
    BY <1>4 DEF Exists_Compare, Goto
  <2>4. CASE ret = NULL
    <3>1. okay' = okay /\ Wanted # origin.root
      BY <1>4, <2>1, <2>2, <2>4 DEF Exists_Compare, Led
    <3>2. QED
      BY <1>1, <2>1, <2>3, <3>1 DEF Led, Found
  <2>5. CASE ret # NULL
    <3>1. okay' = ~RootItself(Wanted)
      BY <1>4, <2>1, <2>5 DEF Exists_Compare, Led
    <3>2. Wanted \in Dir /\ origin.root \in Dir
      BY <2>1, <2>2 DEF InRoot, Base, IInv, TypeOK
    <3>3. RootItself(Wanted) <=> Wanted = origin.root
      BY <2>1, <2>2, <3>2, OneIsAbove, LineType DEF RootItself, InRoot
    <3>4. QED
      BY <1>1, <2>1, <2>3, <3>1, <3>3 DEF Led, Found
  <2>6. QED
    BY <2>4, <2>5
<1>5. CASE Exists_End
  <2>1. mpc = "exists_end" /\ mpc' = "idle" /\ mret' = IF okay THEN "TRUE" ELSE "FALSE"
    BY <1>5 DEF Exists_End, In, Answers
  <2>2. QED
    BY <1>1, <2>1 DEF Led, Found
<1>6. QED
  BY <1>2, <1>3, <1>4, <1>5

LEMMA FoundBegins ==
    ASSUME Base, Call \/ Git
    PROVE  Askable' => Led' /\ Found'
<1>1. TypeOK /\ ModelTypes
  BY DEF Base, IInv
<1>2. ASSUME NEW kind, NEW path, Begins(kind, path)
      PROVE  /\ mpc = "idle" /\ task'.kind = kind /\ task'.path = path /\ task'.search = path
             /\ origin'.root = srsModel_ROOT_PATH
  BY <1>2 DEF Begins, In, State
<1>3. CASE \E path \in Dir \cup Name : ExistsInRoot(path)
  <2>1. PICK path \in Dir \cup Name : ExistsInRoot(path)
    BY <1>3
  <2>2. /\ task'.path = path /\ task'.search = path /\ origin'.root = srsModel_ROOT_PATH
        /\ mpc' = "exists_search" /\ srsModel_ROOT_PATH \in Dir /\ Enters(srsModel_ROOT_PATH)
    BY <1>1, <1>2, <2>1 DEF ExistsInRoot, ModelTypes
  <2>3. Resolve(srsModel_ROOT_PATH) = srsModel_ROOT_PATH /\ Heading' = srsModel_ROOT_PATH
    BY <2>2 DEF Resolve, Heading
  <2>4. QED
    BY <2>2, <2>3, EntersLeads DEF Led, Found
<1>4. CASE \E path \in Argument : ExistsInRoot_Refused(path)
  BY <1>2, <1>4 DEF ExistsInRoot_Refused, Askable
<1>5. ASSUME NEW kind, NEW path, Begins(kind, path), kind # "exists",
             mpc' \notin Existing
      PROVE  Led' /\ Found'
  BY <1>2, <1>5 DEF Led, Found, Existing
<1>6. CASE SetRoot_None \/ SetRoot_Again
  BY <1>2, <1>5, <1>6 DEF SetRoot_None, SetRoot_Again, Set_Directory, Existing
<1>7. ASSUME NEW path, SetRoot(path) \/ IsValidRoot(path) PROVE Led' /\ Found'
  BY <1>2, <1>5, <1>7 DEF SetRoot, IsValidRoot, Set_Directory, Existing
<1>8. ASSUME NEW kind \in {"create", "create_and_set"}, NEW path, CreateRoot(kind, path)
      PROVE  Led' /\ Found'
  BY <1>2, <1>5, <1>8 DEF CreateRoot, Existing
<1>9. CASE Git
  BY <1>2, <1>5, <1>9 DEF Git, Caller_Close, Caller_Shutdown, Caller_Add, Caller_Commit,
     CallsGit, Existing
<1>10. QED
  BY <1>3, <1>4, <1>6, <1>7, <1>8, <1>9 DEF Call

\* All that a call which names a directory rests on.
Named == Grounds /\ NamedInv

LEMMA FoundInvStep == Named /\ FoundInv /\ [ModelNext]_all => FoundInv'
<1> SUFFICES ASSUME Named, FoundInv, [ModelNext]_all PROVE FoundInv'
  OBVIOUS
<1>1. /\ Base /\ RootInv /\ RestoreInv /\ OriginTypes /\ CallPlaces /\ ExistsPlaces
      /\ TypeOK /\ ModelTypes
  BY DEF Named, Grounds, NamedInv, FoundInv, Base, IInv
<1>2. ExistsPlaces' /\ CallPlaces'
  BY <1>1, ExistsPlacesStep, CallPlacesStep
<1>3. ASSUME Undisturbed', Askable' PROVE Led' /\ Found'
  <2>1. Running' /\ ~disturbed'
    BY <1>3 DEF Undisturbed, Running
  <2>2. CASE Call \/ Git
    BY <1>1, <1>3, <2>2, FoundBegins
  <2>3. CASE ~(Call \/ Git)
    <3>1. UNCHANGED origin
      BY <1>1, <2>3, LibraryMoves DEF ModelNext, Caller_Moves, Disturb, modelVars, all
    <3>2. ~Disturb /\ Undisturbed
      BY <1>1, <1>3, <3>1, QuietStays
    <3>3. HomeTypes /\ Whereabouts /\ Located
      BY <1>1, <3>2 DEF Undisturbed, RestoreInv, Named, NamedInv
    <3>4. CASE Library /\ ~(Steps /\ UNCHANGED <<gitVars, modelVars>>)
      <4>1. task'.kind = task.kind /\ task'.path = task.path
        BY <1>1, <3>4, LibraryMoves
      <4>2. CASE Exists_Search \/ Exists_Left \/ Exists_Compare \/ Exists_End
        <5>1. UNCHANGED <<present, disk>>
          BY <4>2 DEF Exists_Search, Exists_Left, Exists_Compare, Exists_End,
             Still, Leaves, Stops, Enters, PushCWD, PushCWD_Missing, PopCWD, vars, fsVars, gitVars
        <5>2. Askable
          BY <1>3, <3>1, <4>1, <5>1, AsksTheSame
        <5>3. Led /\ Found
          BY <3>2, <5>2 DEF FoundInv
        <5>4. QED
          BY <1>1, <3>1, <3>2, <3>3, <4>1, <4>2, <5>1, <5>2, <5>3, FoundGoesOn
      <4>3. CASE ~(Exists_Search \/ Exists_Left \/ Exists_Compare \/ Exists_End)
        <5>1. mpc \notin Existing /\ mpc # "idle"
          BY <3>4, <4>3 DEF Library, Setting, Set_Repo, Set_Enter, Set_Check, Set_Checked,
             Set_Open, Set_Opened, Create_Enter, Create_File, Create_End, Valid_Check,
             Valid_Checked, In, Existing
        <5>2. mpc' \notin Existing /\ task'.kind # "exists"
          BY <1>1, <3>4, <4>1, <5>1, LibraryPlaces DEF ExistsPlaces
        <5>3. QED
          BY <5>2 DEF Led, Found, Existing
      <4>4. QED
        BY <4>2, <4>3
    <3>5. CASE Steps /\ UNCHANGED <<gitVars, modelVars>>
      <4>1. /\ UNCHANGED <<present, disk>> /\ task'.path = task.path
            /\ UNCHANGED <<mpc, task, okay, mret>>
        BY <3>5 DEF Steps, SetCWD_Refresh, PushCWD_Save, PushCWD_Chdir, PushCWD_Refresh,
           PopCWD_Empty, PopCWD_Enter, PopCWD_Skip, fsVars, gitVars, modelVars
      <4>2. /\ Askable' = Askable /\ InRoot' = InRoot /\ Wanted' = Wanted
            /\ origin.root' = origin.root
        BY <3>1, <4>1, AsksTheSame
      <4>3. Led /\ Found
        BY <1>3, <3>2, <4>2 DEF FoundInv
      <4>4. Found'
        BY <4>1, <4>2, <4>3, <3>1 DEF Found
      <4>5. QED
        BY <1>1, <2>1, <3>3, <3>5, <4>3, <4>4, LedSteps
    <3>6. CASE Caller_Moves
      <4>1. mpc' = "idle" /\ task'.kind = "none"
        BY <3>3, <3>6 DEF Caller_Moves, In, HomeTypes, modelVars
      <4>2. QED
        BY <4>1 DEF Led, Found
    <3>7. CASE UNCHANGED all
      <4>1. /\ UNCHANGED <<present, disk>> /\ task'.path = task.path
            /\ UNCHANGED <<mpc, task, okay, mret, pc, call, ret, sysCwd, directory_current>>
        BY <3>7 DEF all, vars, gitVars, modelVars
      <4>2. /\ Askable' = Askable /\ InRoot' = InRoot /\ Wanted' = Wanted
            /\ origin.root' = origin.root
        BY <3>1, <4>1, AsksTheSame
      <4>3. Led /\ Found /\ Heading' = Heading
        BY <1>3, <3>1, <3>2, <4>1, <4>2 DEF FoundInv, Heading
      <4>4. QED
        BY <3>1, <4>1, <4>2, <4>3 DEF Led, Found, Resolve
    <3>8. QED
      BY <2>3, <3>2, <3>4, <3>5, <3>6, <3>7 DEF ModelNext, Library, Setting
  <2>4. QED
    BY <2>2, <2>3
<1>4. QED
  BY <1>2, <1>3 DEF FoundInv

\* ExistsMeansBelow: a directory exists in the root if and only if it is there
\* and lies below it, for every tree, whichever of its directories are
\* repositories: asked from the root or by an absolute path, undisturbed.
THEOREM ExistsAlwaysMeansBelow == ModelSpec => []ExistsMeansBelow
<1>1. ModelInit => FoundInv
  BY DEF ModelInit, NoTask, FoundInv, ExistsPlaces, Led, Found, Existing
<1>2. FoundInv => ExistsMeansBelow
  <2> SUFFICES ASSUME FoundInv, Returned({"exists"}), origin.root # NULL, task.path # NULL,
                      ~disturbed, Quiet, task.path \in Dir \/ origin.at = origin.root, Searchable
               PROVE  (mret = "TRUE") <=> Wanted \in present /\ Below(Wanted, origin.root)
    BY DEF ExistsMeansBelow, Wanted
  <2>1. Undisturbed /\ Askable /\ mpc = "idle" /\ task.kind = "exists"
    BY DEF Undisturbed, Askable, Returned, At, Running
  <2>2. QED
    BY <2>1 DEF FoundInv, Found, InRoot, Below
<1>3. QED
  BY <1>1, <1>2, FoundInvStep, GroundsAlways, NamedInvAlways, PTL DEF ModelSpec, Named
=============================================================================
