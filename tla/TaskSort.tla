------------------------------ MODULE TaskSort ------------------------------
(***************************************************************************)
(* The sort that ends the task-manager initialisation automaton:          *)
(* task_basic_sort() and task_swap() of src/src/managers/task/task_init.c. *)
(*                                                                         *)
(* The runtime task table is a function from cell indices 0..n to cells,  *)
(* where n = task_get_num(); a cell is compared through key[cell], which  *)
(* stands for table[j].metadata->handle.id.  The loops are written as     *)
(* recursive functions (not RECURSIVE operators) so that modules that are *)
(* proved about may use this one.                                          *)
(***************************************************************************)
EXTENDS Naturals

(* Mutant: task_swap() copying t[b] over t[a] without the pivot copy.    *)
TaskSwapNoPivot(t, a, b) == [t EXCEPT ![a] = t[b]]

(* task_swap(&t[a], &t[b]): exchange the contents of two cells.            *)
TaskSwap(t, a, b) == [t EXCEPT ![a] = t[b], ![b] = t[a]]

(* Mutant: the pass compares with >= and so swaps equal labels.           *)
InnerPassGe(t, n, i, key) ==
  LET pass[j \in 0..(n - i)] ==
        IF j = 0 THEN [tab |-> t, swapped |-> FALSE]
        ELSE LET p == pass[j - 1]
             IN  IF key[p.tab[j - 1]] >= key[p.tab[j]]
                   THEN [tab |-> TaskSwap(p.tab, j - 1, j), swapped |-> TRUE]
                   ELSE p
  IN  pass[n - i]

(* The inner loop of pass i: for (j = 0; j < n - i; j++), swapping a pair *)
(* of neighbours when the first has the larger key.  Returns the table    *)
(* and whether the pass swapped anything.                                  *)
InnerPass(t, n, i, key) ==
  LET pass[j \in 0..(n - i)] ==
        IF j = 0 THEN [tab |-> t, swapped |-> FALSE]
        ELSE LET p == pass[j - 1]
             IN  IF key[p.tab[j - 1]] > key[p.tab[j]]
                   THEN [tab |-> TaskSwap(p.tab, j - 1, j), swapped |-> TRUE]
                   ELSE p
  IN  pass[n - i]

(* The outer loop: for (i = 0; i < n + 1; i++) { pass; if (swapped ==     *)
(* SECURE_TRUE) break; }.  outer[i] is the state before iteration i.       *)
BasicSort(t, n, key) ==
  LET outer[i \in 0..(n + 1)] ==
        IF i = 0 THEN [tab |-> t, stop |-> FALSE]
        ELSE LET o == outer[i - 1]
                 p == InnerPass(o.tab, n, i - 1, key)
             IN  IF o.stop THEN o ELSE [tab |-> p.tab, stop |-> p.swapped]
  IN  outer[n + 1].tab

(* Reference: a table is ordered when keys do not decrease along it.       *)
IsOrdered(t, n, key) == \A j \in 0..(n - 1) : key[t[j]] <= key[t[j + 1]]

=============================================================================
