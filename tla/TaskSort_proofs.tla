--------------------------- MODULE TaskSort_proofs ---------------------------
(***************************************************************************)
(* Proofs about task_swap(), the one step task_basic_sort() takes         *)
(* (module TaskSort), for tables of every size and every labelling.  What *)
(* the two loops compute as a whole needs induction over the recursive    *)
(* functions InnerPass and BasicSort and stays with TLC (TaskSortCheck);  *)
(* what is proved here is the fact each iteration rests on: a swap of two *)
(* neighbours in the wrong order keeps the table a permutation and        *)
(* removes exactly one inversion, so the sort only ever makes progress.   *)
(***************************************************************************)
EXTENDS TaskSort, FiniteSetTheorems, TLAPS

(* The pairs of cells of table t (cells 0..n) whose labels are out of      *)
(* order.                                                                  *)
Inversions(t, n, key) ==
  {p \in (0..n) \X (0..n) : p[1] < p[2] /\ key[t[p[1]]] > key[t[p[2]]]}

(* The cell whose old content cell i holds after task_swap(&t[j-1], &t[j]). *)
Sigma(j, i) == IF i = j - 1 THEN j ELSE IF i = j THEN j - 1 ELSE i

(* task_swap() on neighbours moves contents along Sigma, an involution of *)
(* the cells that keeps the order of every pair but the swapped one.      *)
LEMMA SwapMoves ==
  ASSUME NEW n \in Nat, NEW T, NEW t \in [0..n -> T], NEW j \in 1..n
  PROVE  /\ TaskSwap(t, j - 1, j) \in [0..n -> T]
         /\ \A i \in 0..n : /\ Sigma(j, i) \in 0..n
                            /\ Sigma(j, Sigma(j, i)) = i
                            /\ TaskSwap(t, j - 1, j)[i] = t[Sigma(j, i)]
         /\ \A i, k \in 0..n : i < k /\ <<i, k>> # <<j - 1, j>> =>
                                 Sigma(j, i) < Sigma(j, k)
BY DEF TaskSwap, Sigma

(* Swapping two cells of a permutation of the cells gives a permutation:  *)
(* task_swap() neither loses nor duplicates a task.                       *)
THEOREM SwapKeepsPermutation ==
  ASSUME NEW S, NEW t \in Bijection(S, S), NEW a \in S, NEW b \in S
  PROVE  TaskSwap(t, a, b) \in Bijection(S, S)
<1> DEFINE s == TaskSwap(t, a, b)
<1>1. s \in [S -> S]
  BY DEF TaskSwap, Bijection, Injection
<1>2. \A x \in S : s[x] = t[IF x = a THEN b ELSE IF x = b THEN a ELSE x]
  BY DEF TaskSwap, Bijection, Injection
<1>3. IsInjective(s)
  BY <1>1, <1>2 DEF Bijection, Injection, IsInjective
<1>4. \A y \in S : \E x \in S : s[x] = y
  <2> TAKE y \in S
  <2>1. PICK z \in S : t[z] = y
    BY DEF Bijection, Surjection
  <2>2. QED
    BY <1>2, <2>1
<1>5. QED
  BY <1>1, <1>3, <1>4 DEF Bijection, Injection, Surjection

(* One step of the inner loop of task_basic_sort(): swapping neighbours   *)
(* j - 1 and j whose labels are in the wrong order leaves exactly one      *)
(* inversion fewer in the table.                                           *)
THEOREM SwapRemovesOneInversion ==
  ASSUME NEW n \in Nat, NEW T, NEW t \in [0..n -> T], NEW key \in [T -> Int],
         NEW j \in 1..n, key[t[j - 1]] > key[t[j]]
  PROVE  Cardinality(Inversions(TaskSwap(t, j - 1, j), n, key))
           = Cardinality(Inversions(t, n, key)) - 1
<1> DEFINE s == TaskSwap(t, j - 1, j)
           I == Inversions(t, n, key)
           J == Inversions(s, n, key)
           x == <<j - 1, j>>
           tau == [p \in J |-> <<Sigma(j, p[1]), Sigma(j, p[2])>>]
<1>1. /\ s \in [0..n -> T]
      /\ \A i \in 0..n : /\ Sigma(j, i) \in 0..n
                         /\ Sigma(j, Sigma(j, i)) = i
                         /\ s[i] = t[Sigma(j, i)]
      /\ \A i, k \in 0..n : i < k /\ <<i, k>> # x =>
                              Sigma(j, i) < Sigma(j, k)
  BY SwapMoves
<1>2. IsFiniteSet((0..n) \X (0..n))
  <2>1. IsFiniteSet(0..n)
    BY FS_Interval
  <2>2. QED
    BY <2>1, FS_Product
<1>3. IsFiniteSet(I) /\ IsFiniteSet(J)
  BY <1>2, FS_Subset DEF Inversions
<1>4. x \in I /\ x \notin J
  BY <1>1 DEF Inversions, Sigma
<1>5. tau \in [J -> I \ {x}]
  <2> SUFFICES ASSUME NEW p \in J PROVE tau[p] \in I \ {x}
    OBVIOUS
  <2>1. PICK i \in 0..n, k \in 0..n : p = <<i, k>>
    BY DEF Inversions
  <2>2. i < k /\ key[t[Sigma(j, i)]] > key[t[Sigma(j, k)]]
    BY <1>1, <2>1 DEF Inversions
  <2>3. p # x
    BY <1>4
  <2>4. Sigma(j, i) < Sigma(j, k)
    BY <1>1, <2>1, <2>2, <2>3
  <2>5. tau[p] = <<Sigma(j, i), Sigma(j, k)>>
    BY <2>1
  <2>6. tau[p] # x
    BY <2>1, <2>2, <2>4, <2>5 DEF Sigma
  <2>7. QED
    BY <1>1, <2>2, <2>4, <2>5, <2>6 DEF Inversions
<1>6. \A p, q \in J : tau[p] = tau[q] => p = q
  <2> SUFFICES ASSUME NEW p \in J, NEW q \in J, tau[p] = tau[q] PROVE p = q
    OBVIOUS
  <2>1. PICK i \in 0..n, k \in 0..n : p = <<i, k>>
    BY DEF Inversions
  <2>2. PICK a \in 0..n, b \in 0..n : q = <<a, b>>
    BY DEF Inversions
  <2>3. Sigma(j, i) = Sigma(j, a) /\ Sigma(j, k) = Sigma(j, b)
    BY <2>1, <2>2
  <2>4. i = a /\ k = b
    BY <1>1, <2>3
  <2>5. QED
    BY <2>1, <2>2, <2>4
<1>7. \A y \in I \ {x} : \E p \in J : tau[p] = y
  <2> SUFFICES ASSUME NEW y \in I \ {x} PROVE \E p \in J : tau[p] = y
    OBVIOUS
  <2>1. PICK a \in 0..n, b \in 0..n : y = <<a, b>>
    BY DEF Inversions
  <2>2. a < b /\ key[t[a]] > key[t[b]] /\ <<a, b>> # x
    BY <2>1 DEF Inversions
  <2>3. Sigma(j, a) < Sigma(j, b)
    BY <1>1, <2>2
  <2>4. <<Sigma(j, a), Sigma(j, b)>> \in J
    <3>1. Sigma(j, a) \in 0..n /\ Sigma(j, b) \in 0..n
          /\ s[Sigma(j, a)] = t[a] /\ s[Sigma(j, b)] = t[b]
      BY <1>1
    <3>2. QED
      BY <2>2, <2>3, <3>1 DEF Inversions
  <2>5. tau[<<Sigma(j, a), Sigma(j, b)>>] = y
    BY <1>1, <2>1, <2>4
  <2>6. QED
    BY <2>4, <2>5
<1>8. ExistsBijection(J, I \ {x})
  BY <1>5, <1>6, <1>7
  DEF ExistsBijection, Bijection, Injection, Surjection, IsInjective
<1>9. Cardinality(I \ {x}) = Cardinality(J)
  BY <1>3, <1>8, FS_Bijection
<1>10. Cardinality(I \ {x}) = Cardinality(I) - 1
  BY <1>3, <1>4, FS_RemoveElement
<1>11. QED
  BY <1>9, <1>10

=============================================================================
