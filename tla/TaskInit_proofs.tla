--------------------------- MODULE TaskInit_proofs ---------------------------
(***************************************************************************)
(* Proofs about the task-manager initialisation automaton (TaskInit), for *)
(* every number of declared tasks, table capacity and label set allowed   *)
(* by TaskInitConstants.  The argument is one inductive invariant,        *)
(* InitInv: it ties each point of task_init() to the automaton state it   *)
(* is reached in, records that every entry before the loop index passed   *)
(* the magic check, and carries the safety properties themselves.         *)
(***************************************************************************)
EXTENDS TaskInit, TLAPS

USE TaskInitConstants

(* The initial state satisfies the invariant.                              *)
LEMMA InitEstablishes == Init => InitInv
BY DEF Init, InitInv, TypeOK, PcMatchesState, PrefixAuthentic,
       AbortsOnFirstBadMagic, RegisteredOnlyWhenMapped, MgrStates, Statuses,
       Pcs, MetaRefs, TableIdx

(* Every step of task_init() preserves it.                                 *)
LEMMA StepPreserves == InitInv /\ [Next]_vars => InitInv'
<1> SUFFICES ASSUME InitInv, [Next]_vars PROVE InitInv'
  OBVIOUS
<1> USE DEF InitInv, TypeOK, PcMatchesState, PrefixAuthentic,
           AbortsOnFirstBadMagic, RegisteredOnlyWhenMapped, MgrStates,
           Statuses, Pcs, MetaRefs, TableIdx, Cells, MetaRecs,
           BOOT, DISCOVER_SANITATION, CHECK_META_INTEGRITY,
           CHECK_TSK_INTEGRITY, INIT_LOCALINFO, TSK_MAP, TSK_SCHEDULE,
           FINALIZE, READY, ERROR_SECURITY, ERROR_RUNTIME,
           OKAY, SECURITY_INTEGRITY, SCHED_ERROR
<1>1. CASE TaskInitStart
  BY <1>1 DEF TaskInitStart
<1>2. CASE LoopTest
  BY <1>2 DEF LoopTest
<1>3. CASE DiscoverSanitation
  <2>1. pc = "discover" /\ state = DISCOVER_SANITATION /\ cell < NumTasks
    BY <1>3 DEF DiscoverSanitation
  <2>2. UNCHANGED <<meta_table, numtask, cell, task_table, mapped, scheduled>>
    BY <1>3 DEF DiscoverSanitation
  <2>3. CASE meta_table[cell].magic
    <3>1. state' = CHECK_META_INTEGRITY /\ status' = OKAY /\ pc' = "meta"
      BY <1>3, <2>1, <2>3 DEF DiscoverSanitation, Continue
    <3>2. QED
      BY <3>1, <2>1, <2>2, <2>3
  <2>4. CASE ~meta_table[cell].magic
    <3>1. state' = ERROR_SECURITY /\ status' = SECURITY_INTEGRITY /\ pc' = "done"
      BY <1>3, <2>4 DEF DiscoverSanitation, SecurityFail
    <3>2. QED
      BY <3>1, <2>2
  <2>5. QED
    BY <2>3, <2>4
<1>4. CASE CheckMetaIntegrity
  BY <1>4 DEF CheckMetaIntegrity, Continue, SecurityFail
<1>5. CASE CheckTskIntegrity
  BY <1>5 DEF CheckTskIntegrity, Continue, SecurityFail
<1>6. CASE InitiateLocalinfo
  BY <1>6 DEF InitiateLocalinfo, Continue, SecurityFail
<1>7. CASE TaskInitMap
  <2>1. pc = "map" /\ state = TSK_MAP /\ cell < NumTasks /\ meta_table[cell].magic
    BY <1>7 DEF TaskInitMap
  <2>2. /\ mapped' = mapped \cup {cell}
        /\ state' = TSK_SCHEDULE /\ status' = OKAY /\ pc' = "schedule"
        /\ UNCHANGED <<meta_table, numtask, cell, task_table, scheduled>>
    BY <1>7, <2>1 DEF TaskInitMap, Continue
  <2>3. \A d \in 0..cell : meta_table[d].magic
    BY <2>1
  <2>4. QED
    BY <2>1, <2>2, <2>3
<1>8. CASE TaskInitSchedule
  <2>1. PICK r \in {OKAY, SCHED_ERROR} :
          LET auto == meta_table[cell].autostart
              res  == IF auto THEN r ELSE OKAY
          IN  IF state # TSK_SCHEDULE
                THEN /\ state' = ERROR_SECURITY /\ status' = OKAY
                     /\ pc' = "loop" /\ cell' = cell + 1
                     /\ UNCHANGED scheduled
                ELSE /\ scheduled' = IF auto /\ r = OKAY
                                       THEN scheduled \cup {cell}
                                       ELSE scheduled
                     /\ IF res # OKAY
                          THEN /\ state' = ERROR_RUNTIME /\ status' = res
                               /\ pc' = "done" /\ UNCHANGED cell
                          ELSE /\ state' = IF numtask = NumTasks THEN FINALIZE
                                           ELSE DISCOVER_SANITATION
                               /\ status' = OKAY
                               /\ pc' = "loop" /\ cell' = cell + 1
    BY <1>8 DEF TaskInitSchedule, ScheduleStep
  <2>2. pc = "schedule" /\ state = TSK_SCHEDULE /\ cell < NumTasks
        /\ cell \in mapped /\ meta_table[cell].magic
    BY <1>8 DEF TaskInitSchedule, ScheduleStep
  <2>3. UNCHANGED <<meta_table, numtask, task_table, mapped>>
    BY <1>8 DEF TaskInitSchedule, ScheduleStep
  <2>4. numtask # NumTasks
    BY <2>2
  <2>5. CASE meta_table[cell].autostart /\ r = SCHED_ERROR
    <3>1. /\ state' = ERROR_RUNTIME /\ status' = SCHED_ERROR /\ pc' = "done"
          /\ UNCHANGED <<cell, scheduled>>
      BY <2>1, <2>2, <2>5
    <3>2. QED
      BY <3>1, <2>2, <2>3
  <2>6. CASE ~(meta_table[cell].autostart /\ r = SCHED_ERROR)
    <3>1. state' = DISCOVER_SANITATION /\ status' = OKAY /\ pc' = "loop"
          /\ cell' = cell + 1
      BY <2>1, <2>2, <2>4, <2>6
    <3>2. scheduled' \subseteq scheduled \cup {cell}
      BY <2>1, <2>2
    <3>3. \A c \in scheduled' : c \in mapped /\ meta_table[c].autostart
      <4>1. \A c \in scheduled : c \in mapped /\ meta_table[c].autostart
        BY DEF InitInv, RegisteredOnlyWhenMapped
      <4>2. CASE meta_table[cell].autostart /\ r = OKAY
        <5>1. scheduled' = scheduled \cup {cell}
          BY <2>1, <2>2, <4>2
        <5>2. QED
          BY <5>1, <4>1, <4>2, <2>2
      <4>3. CASE ~(meta_table[cell].autostart /\ r = OKAY)
        <5>1. scheduled' = scheduled
          BY <2>1, <2>2, <4>3
        <5>2. QED
          BY <5>1, <4>1
      <4>4. QED
        BY <4>2, <4>3
    <3>4. \A d \in 0..cell : meta_table[d].magic
      BY <2>2
    <3>5. QED
      BY <3>1, <3>2, <3>3, <3>4, <2>2, <2>3
  <2>7. QED
    BY <2>5, <2>6
<1>9. CASE TaskInitFinalize
  <2>1. pc = "finalize" /\ state = DISCOVER_SANITATION
    BY <1>9 DEF TaskInitFinalize, FinalizeWhen
  <2>2. /\ status' = SECURITY_INTEGRITY /\ pc' = "done"
        /\ UNCHANGED <<task_table, numtask, state>>
        /\ UNCHANGED <<meta_table, cell, mapped, scheduled>>
    BY <1>9, <2>1 DEF TaskInitFinalize, FinalizeWhen
  <2>3. QED
    BY <2>2
<1>10. CASE Done
  BY <1>10 DEF Done, vars
<1>11. CASE UNCHANGED vars
  BY <1>11 DEF vars
<1>12. QED
  BY <1>1, <1>2, <1>3, <1>4, <1>5, <1>6, <1>7, <1>8, <1>9, <1>10, <1>11
  DEF Next

(* The inductive invariant holds in every reachable state.                 *)
THEOREM InvariantHolds == Spec => []InitInv
BY InitEstablishes, StepPreserves, PTL DEF Spec

(* Type correctness of the automaton's state.                              *)
THEOREM TypeCorrect == Spec => []TypeOK
BY InvariantHolds, PTL DEF InitInv

(* Fail-closed pass: a task is mapped or registered with the scheduler    *)
(* only if it and every entry before it carry the expected magic.         *)
THEOREM FailClosedPass == Spec => []AbortsOnFirstBadMagic
BY InvariantHolds, PTL DEF InitInv

(* sched_schedule() is called only for mapped autostart tasks.            *)
THEOREM RegisterAfterMap == Spec => []RegisteredOnlyWhenMapped
BY InvariantHolds, PTL DEF InitInv

(* ctx.numtask is never advanced by the per-task pass, and so task_init() *)
(* never returns K_STATUS_OKAY, whatever the metadata table holds.        *)
(* The positive form of the violation of TaskInitAsDocumented on a clear *)
(* table, for every table and task count.                                  *)
THEOREM InitNeverSucceeds ==
  Spec => [](numtask = 0 /\ (pc = "done" => status # OKAY))
BY InvariantHolds, PTL DEF InitInv, PcMatchesState

-----------------------------------------------------------------------------
(* The refinement of TaskLoad.                                             *)

LEMMA LoadOrderInit == Init => LoadOrder
BY DEF Init, LoadOrder

LEMMA LoadOrderStep == InitInv /\ LoadOrder /\ [Next]_vars => LoadOrder'
<1> SUFFICES ASSUME InitInv, LoadOrder, [Next]_vars PROVE LoadOrder'
  OBVIOUS
<1> USE DEF InitInv, TypeOK, PcMatchesState, LoadOrder, Pcs, Cells,
           DISCOVER_SANITATION, CHECK_META_INTEGRITY, CHECK_TSK_INTEGRITY,
           INIT_LOCALINFO, TSK_MAP, TSK_SCHEDULE, OKAY, SCHED_ERROR
<1>1. CASE TaskInitStart
  BY <1>1 DEF TaskInitStart
<1>2. CASE LoopTest
  BY <1>2 DEF LoopTest
<1>3. CASE DiscoverSanitation
  BY <1>3 DEF DiscoverSanitation, Continue, SecurityFail
<1>4. CASE CheckMetaIntegrity
  BY <1>4 DEF CheckMetaIntegrity, Continue, SecurityFail
<1>5. CASE CheckTskIntegrity
  BY <1>5 DEF CheckTskIntegrity, Continue, SecurityFail
<1>6. CASE InitiateLocalinfo
  BY <1>6 DEF InitiateLocalinfo, Continue, SecurityFail
<1>7. CASE TaskInitMap
  <2>1. pc = "map" /\ state = TSK_MAP
    BY <1>7 DEF TaskInitMap
  <2>2. mapped' = mapped \cup {cell} /\ pc' = "schedule" /\ cell' = cell
    BY <1>7, <2>1 DEF TaskInitMap, Continue
  <2>3. \A c \in mapped' : c <= cell
    BY <2>1, <2>2
  <2>4. QED
    BY <2>2, <2>3
<1>8. CASE TaskInitSchedule
  <2>1. pc = "schedule" /\ state = TSK_SCHEDULE /\ UNCHANGED mapped
        /\ \A c \in mapped : c <= cell
    BY <1>8 DEF TaskInitSchedule, ScheduleStep
  <2>2. pc' = "done" \/ (pc' = "loop" /\ cell' = cell + 1)
    BY <1>8, <2>1 DEF TaskInitSchedule, ScheduleStep
  <2>3. QED
    BY <2>1, <2>2
<1>9. CASE TaskInitFinalize
  BY <1>9 DEF TaskInitFinalize, FinalizeWhen
<1>10. CASE Done
  BY <1>10 DEF Done, vars
<1>11. CASE UNCHANGED vars
  BY <1>11 DEF vars
<1>12. QED
  BY <1>1, <1>2, <1>3, <1>4, <1>5, <1>6, <1>7, <1>8, <1>9, <1>10, <1>11
  DEF Next

(* The initial state of task_init() is an initial state of the pass.      *)
LEMMA MappingInit == Init => Pass!Init
BY DEF Init, Pass!Init, Pass!Entries, outcomeBar, Cells

(* Every step of task_init() is a step of the pass, or leaves the mapped  *)
(* state alone.                                                            *)
LEMMA MappingStep ==
  InitInv /\ LoadOrder /\ [Next]_vars => [Pass!Next]_(Pass!vars)
<1> SUFFICES ASSUME InitInv, LoadOrder, [Next]_vars
             PROVE  [Pass!Next]_(Pass!vars)
  OBVIOUS
<1> USE DEF InitInv, TypeOK, PcMatchesState, LoadOrder, Pcs, Cells,
           Pass!vars, outcomeBar,
           DISCOVER_SANITATION, CHECK_META_INTEGRITY, CHECK_TSK_INTEGRITY,
           INIT_LOCALINFO, TSK_MAP, TSK_SCHEDULE, ERROR_SECURITY,
           ERROR_RUNTIME, OKAY, SECURITY_INTEGRITY, SCHED_ERROR
<1>1. CASE TaskInitStart
  BY <1>1 DEF TaskInitStart
<1>2. CASE LoopTest
  BY <1>2 DEF LoopTest
<1>3. CASE DiscoverSanitation
  <2>1. pc = "discover" /\ state = DISCOVER_SANITATION /\ cell < NumTasks
        /\ UNCHANGED <<meta_table, cell, mapped, scheduled>>
    BY <1>3 DEF DiscoverSanitation
  <2>2. CASE meta_table[cell].magic
    BY <1>3, <2>1, <2>2 DEF DiscoverSanitation, Continue
  <2>3. CASE ~meta_table[cell].magic
    <3>1. pc' = "done" /\ state' = ERROR_SECURITY
      BY <1>3, <2>1, <2>3 DEF DiscoverSanitation, SecurityFail
    <3>2. Pass!Reject
      BY <2>1, <2>3, <3>1 DEF Pass!Reject
    <3>3. QED
      BY <3>2 DEF Pass!Next
  <2>4. QED
    BY <2>2, <2>3
<1>4. CASE CheckMetaIntegrity
  BY <1>4 DEF CheckMetaIntegrity, Continue
<1>5. CASE CheckTskIntegrity
  BY <1>5 DEF CheckTskIntegrity, Continue
<1>6. CASE InitiateLocalinfo
  BY <1>6 DEF InitiateLocalinfo, Continue
<1>7. CASE TaskInitMap
  <2>1. pc = "map" /\ state = TSK_MAP /\ cell < NumTasks
        /\ meta_table[cell].magic /\ cell \notin mapped
    BY <1>7 DEF TaskInitMap
  <2>2. /\ mapped' = mapped \cup {cell} /\ pc' = "schedule"
        /\ UNCHANGED <<meta_table, cell, scheduled>>
    BY <1>7, <2>1 DEF TaskInitMap, Continue
  <2>3. Pass!Load
    BY <2>1, <2>2 DEF Pass!Load
  <2>4. QED
    BY <2>3 DEF Pass!Next
<1>8. CASE TaskInitSchedule
  <2>1. pc = "schedule" /\ state = TSK_SCHEDULE /\ cell \in mapped
        /\ cell < NumTasks /\ numtask # NumTasks
        /\ UNCHANGED <<meta_table, mapped>>
    BY <1>8 DEF TaskInitSchedule, ScheduleStep
  <2>2. PICK r \in {OKAY, SCHED_ERROR} :
          /\ scheduled' = IF meta_table[cell].autostart /\ r = OKAY
                            THEN scheduled \cup {cell} ELSE scheduled
          /\ IF meta_table[cell].autostart /\ r = SCHED_ERROR
               THEN /\ state' = ERROR_RUNTIME /\ pc' = "done"
                    /\ UNCHANGED cell
               ELSE pc' = "loop" /\ cell' = cell + 1
    BY <1>8, <2>1 DEF TaskInitSchedule, ScheduleStep
  <2>3. Pass!Conclude
    BY <2>1, <2>2 DEF Pass!Conclude
  <2>4. QED
    BY <2>3 DEF Pass!Next
<1>9. CASE TaskInitFinalize
  <2>1. pc = "finalize" /\ state = DISCOVER_SANITATION /\ cell = NumTasks
    BY <1>9 DEF TaskInitFinalize, FinalizeWhen
  <2>2. /\ pc' = "done" /\ state' = state
        /\ UNCHANGED <<meta_table, cell, mapped, scheduled>>
    BY <1>9, <2>1 DEF TaskInitFinalize, FinalizeWhen, FINALIZE
  <2>3. Pass!Finish
    BY <2>1, <2>2 DEF Pass!Finish
  <2>4. QED
    BY <2>3 DEF Pass!Next
<1>10. CASE Done
  BY <1>10 DEF Done, vars
<1>11. CASE UNCHANGED vars
  BY <1>11 DEF vars
<1>12. QED
  BY <1>1, <1>2, <1>3, <1>4, <1>5, <1>6, <1>7, <1>8, <1>9, <1>10, <1>11
  DEF Next

(* task_init() implements the one-entry-at-a-time pass of TaskLoad (its   *)
(* safety part): entries are validated, loaded and registered in table    *)
(* order, an abort is final and keeps its kind, and the loop ends only    *)
(* after the last entry.                                                   *)
THEOREM ImplementsPass == Spec => Pass!SafetySpec
<1>1. Spec => []LoadOrder
  BY LoadOrderInit, LoadOrderStep, InvariantHolds, PTL DEF Spec
<1>2. QED
  BY <1>1, InvariantHolds, MappingInit, MappingStep, PTL
  DEF Spec, Pass!SafetySpec

(* When task_init() returns, the tables match how it ended: after the    *)
(* whole loop every task was valid and mapped and exactly the autostart  *)
(* ones were scheduled; on an abort, exactly the tasks before the first  *)
(* bad (or refused) entry were mapped.  Proved on TaskLoad               *)
(* (OutcomeMatchesTable) and carried down the refinement.                 *)
THEOREM EndsAsPromised == Spec => []PassEndsAsPromised
<1>1. Pass!SafetySpec => []Pass!PassOutcome
  BY TaskInitConstants, Pass!OutcomeMatchesTable
<1>2. QED
  BY <1>1, ImplementsPass DEF PassEndsAsPromised

=============================================================================
