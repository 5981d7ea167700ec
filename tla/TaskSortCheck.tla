--------------------------- MODULE TaskSortCheck ---------------------------
(***************************************************************************)
(* Checks task_basic_sort() (module TaskSort) over every assignment of    *)
(* task labels to the n + 1 cells of the runtime task table.  The table   *)
(* starts as the identity (cell c holds task c) and key gives each task's *)
(* handle.id; out is what the sort leaves in the table.                    *)
(***************************************************************************)
EXTENDS Naturals, Functions, TaskSort

CONSTANTS
  N,     \* task_get_num(): the table holds N + 1 cells, idle included
  Ids    \* the labels (handle.id values) a task may carry

ASSUME SortConstants == N \in Nat /\ Ids \subseteq Nat /\ Ids # {}

VARIABLES key, out
vars == <<key, out>>

Cells == 0..N
Identity == [c \in Cells |-> c]

Init == /\ key \in [Cells -> Ids]
        /\ out = BasicSort(Identity, N, key)

Next == UNCHANGED vars

Spec == Init /\ [][Next]_vars

(* The swaps of task_basic_sort() neither lose nor duplicate a task: the   *)
(* table after the sort is a permutation of the table before it.           *)
SortKeepsEveryTask == out \in Bijection(Cells, Cells)

(* A table already ordered by label comes out of the sort unchanged, so   *)
(* the sort is stable on sorted input (spec section 8, sort property).     *)
SortedTableUnchanged == IsOrdered(Identity, N, key) => out = Identity

(* After the sort the table is ordered by handle.id, as the binary search *)
(* over task labels that task_init.c relies on requires.                   *)
SortOrdersById == IsOrdered(out, N, key)

=============================================================================
