------------------------------ MODULE TaskLoad ------------------------------
(***************************************************************************)
(* What the task-manager initialisation pass promises, stated without its *)
(* automaton: the metadata table is walked once, in order; each entry is  *)
(* first validated (a bad magic aborts the whole pass with a security     *)
(* error), then loaded (its .data copied and .bss zeroed), then, if it    *)
(* asks for autostart, registered with the scheduler (a refusal aborts    *)
(* the pass with a runtime error); once every entry is through, the pass  *)
(* is finished and the finalisation step runs.                            *)
(*                                                                         *)
(* Nothing is undone on an abort: the entries loaded and registered       *)
(* before it stay so.  What the finalisation step returns is not part of  *)
(* this specification.  TaskInit implements it, under the mapping given   *)
(* there.                                                                  *)
(***************************************************************************)
EXTENDS Naturals, TLAPS

CONSTANT NumTasks   \* entries of the metadata table

Entries == 0..(NumTasks - 1)

VARIABLES
  table,       \* the metadata table: .magic and .autostart of each entry
  next,        \* the entry the pass is at
  loaded,      \* entries loaded into their runtime memory
  registered,  \* entries registered with the scheduler
  outcome      \* "running", or how the pass ended: "security", "runtime",
               \* "finished"

vars == <<table, next, loaded, registered, outcome>>

Init ==
  /\ DOMAIN table = Entries
  /\ next = 0 /\ loaded = {} /\ registered = {}
  /\ outcome = "running"

(* The current entry carries a bad magic: the pass stops here.            *)
Reject ==
  /\ outcome = "running" /\ next < NumTasks /\ next \notin loaded
  /\ ~table[next].magic
  /\ outcome' = "security"
  /\ UNCHANGED <<table, next, loaded, registered>>

(* The current entry is valid: it is loaded.                              *)
Load ==
  /\ outcome = "running" /\ next < NumTasks /\ next \notin loaded
  /\ table[next].magic
  /\ loaded' = loaded \cup {next}
  /\ UNCHANGED <<table, next, registered, outcome>>

(* The loaded current entry is registered if it asks for autostart, and  *)
(* the pass moves on; or the scheduler refuses it and the pass stops.     *)
Conclude ==
  /\ outcome = "running" /\ next \in loaded
  /\ \/ /\ table[next].autostart
        /\ registered' = registered \cup {next} /\ next' = next + 1
        /\ UNCHANGED outcome
     \/ /\ table[next].autostart
        /\ outcome' = "runtime"
        /\ UNCHANGED <<next, registered>>
     \/ /\ ~table[next].autostart
        /\ next' = next + 1
        /\ UNCHANGED <<registered, outcome>>
  /\ UNCHANGED <<table, loaded>>

(* Every entry is through: the pass is finished.                          *)
Finish ==
  /\ outcome = "running" /\ next = NumTasks
  /\ outcome' = "finished"
  /\ UNCHANGED <<table, next, loaded, registered>>

Next == Reject \/ Load \/ Conclude \/ Finish

SafetySpec == Init /\ [][Next]_vars

(* The pass does not stop half-way.                                        *)
Spec == SafetySpec /\ WF_vars(Next)

-----------------------------------------------------------------------------
(* The entries the pass has gone through.                                  *)
Behind == 0..(next - 1)

(* How the pass ends says what happened to the table.  Finished: every    *)
(* entry was valid and loaded, and exactly the autostart entries were     *)
(* registered.  A security error: the current entry is the first bad one  *)
(* and exactly the entries before it were loaded.  A runtime error: the   *)
(* scheduler refused the current entry, loaded and autostart, after the   *)
(* autostart entries before it were registered.                           *)
PassOutcome ==
  /\ outcome = "finished" =>
       /\ loaded = Entries /\ \A e \in Entries : table[e].magic
       /\ registered = {e \in Entries : table[e].autostart}
  /\ outcome = "security" =>
       /\ next \in Entries /\ ~table[next].magic
       /\ \A e \in Behind : table[e].magic
       /\ loaded = Behind
  /\ outcome = "runtime" =>
       /\ next \in loaded /\ table[next].autostart
       /\ registered = {e \in Behind : table[e].autostart}

(* The inductive invariant behind PassOutcome: the entries behind the     *)
(* index are valid, loaded and, if autostart, registered; the current     *)
(* entry is loaded only if valid; each outcome is reached from the state  *)
(* its action requires.                                                    *)
LoadInv ==
  /\ next \in 0..NumTasks
  /\ outcome \in {"running", "security", "runtime", "finished"}
  /\ \A e \in Behind : table[e].magic
  /\ loaded \in {Behind, Behind \cup {next}}
  /\ next \in loaded => next \in Entries /\ table[next].magic
  /\ registered = {e \in Behind : table[e].autostart}
  /\ outcome = "finished" => next = NumTasks
  /\ outcome = "security" => next \in Entries /\ next \notin loaded
                             /\ ~table[next].magic
  /\ outcome = "runtime" => next \in loaded /\ table[next].autostart

(* The pass starts in the invariant.                                       *)
LEMMA LoadInit ==
  ASSUME NumTasks \in Nat
  PROVE  Init => LoadInv
BY DEF Init, LoadInv, Behind

(* Every step of the pass preserves it.                                    *)
LEMMA LoadStep ==
  ASSUME NumTasks \in Nat
  PROVE  LoadInv /\ [Next]_vars => LoadInv'
<1> SUFFICES ASSUME LoadInv, [Next]_vars PROVE LoadInv'
  OBVIOUS
<1> USE DEF LoadInv, Behind, Entries
<1>1. CASE Reject
  BY <1>1 DEF Reject
<1>2. CASE Load
  BY <1>2 DEF Load
<1>3. CASE Conclude
  <2>1. next \in loaded /\ next \in Entries /\ table[next].magic
        /\ loaded = Behind \cup {next} /\ outcome = "running"
    BY <1>3 DEF Conclude
  <2>2. CASE table[next].autostart /\ registered' = registered \cup {next}
             /\ next' = next + 1 /\ UNCHANGED outcome
    BY <1>3, <2>1, <2>2 DEF Conclude
  <2>3. CASE table[next].autostart /\ outcome' = "runtime"
             /\ UNCHANGED <<next, registered>>
    BY <1>3, <2>1, <2>3 DEF Conclude
  <2>4. CASE ~table[next].autostart /\ next' = next + 1
             /\ UNCHANGED <<registered, outcome>>
    BY <1>3, <2>1, <2>4 DEF Conclude
  <2>5. QED
    BY <1>3, <2>2, <2>3, <2>4 DEF Conclude
<1>4. CASE Finish
  BY <1>4 DEF Finish
<1>5. CASE UNCHANGED vars
  BY <1>5 DEF vars
<1>6. QED
  BY <1>1, <1>2, <1>3, <1>4, <1>5 DEF Next

(* Every run of the pass ends as PassOutcome says, whatever the size and  *)
(* the contents of the metadata table.                                    *)
THEOREM OutcomeMatchesTable ==
  ASSUME NumTasks \in Nat
  PROVE  SafetySpec => []PassOutcome
<1>1. LoadInv => PassOutcome
  BY DEF LoadInv, PassOutcome, Behind, Entries
<1>2. QED
  BY <1>1, LoadInit, LoadStep, PTL DEF SafetySpec

=============================================================================
