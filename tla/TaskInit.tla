------------------------------ MODULE TaskInit ------------------------------
(***************************************************************************)
(* The task-manager initialisation automaton of the Sentry kernel,        *)
(* src/src/managers/task/task_init.c: task_init() and the state handlers  *)
(* it calls for every cell of the build-provisioned metadata table.       *)
(*                                                                         *)
(* ctx (state, numtask, status) is the static automaton context; pc is    *)
(* the point task_init() has reached, that is which handler it calls      *)
(* next.  The two are kept apart because every handler first checks that  *)
(* ctx.state is the one it expects: pc says what the code does next, ctx  *)
(* says what the automaton believes.                                       *)
(*                                                                         *)
(* Data is abstracted to what the properties tell apart: a metadata entry *)
(* is its magic check, its HMAC verdict, its autostart flag and its       *)
(* label; the runtime table holds for every cell a reference to the       *)
(* metadata it was built from (the saved sp is a function of it); the     *)
(* data copy and bss zeroing of a task are recorded as the set mapped;    *)
(* the scheduler's queue as the set of table entries handed to            *)
(* sched_schedule().                                                       *)
(***************************************************************************)
EXTENDS Naturals, FiniteSets, TaskSort

CONSTANTS
  NumTasks,   \* task_get_num(): the number of tasks the build declares
  MaxTasks,   \* CONFIG_MAX_TASKS: the runtime table has MaxTasks + 1 cells
  Ids,        \* labels a task handle may carry (handle.id)
  NoMeta,     \* the NULL metadata reference of a zeroed runtime cell
  IdleMeta    \* the reference to the idle task's metadata

ASSUME TaskInitConstants ==
  /\ NumTasks \in Nat
  /\ MaxTasks \in Nat \ {0}
  /\ NumTasks <= MaxTasks
  /\ Ids \subseteq Nat \ {0}
  /\ NoMeta \notin Nat /\ IdleMeta \notin Nat /\ NoMeta # IdleMeta

(* task_mgr_state_t *)
BOOT == "BOOT"
DISCOVER_SANITATION == "DISCOVER_SANITATION"
CHECK_META_INTEGRITY == "CHECK_META_INTEGRITY"
CHECK_TSK_INTEGRITY == "CHECK_TSK_INTEGRITY"
INIT_LOCALINFO == "INIT_LOCALINFO"
TSK_MAP == "TSK_MAP"
TSK_SCHEDULE == "TSK_SCHEDULE"
FINALIZE == "FINALIZE"
READY == "READY"
ERROR_SECURITY == "ERROR_SECURITY"
ERROR_RUNTIME == "ERROR_RUNTIME"
MgrStates == {BOOT, DISCOVER_SANITATION, CHECK_META_INTEGRITY,
              CHECK_TSK_INTEGRITY, INIT_LOCALINFO, TSK_MAP, TSK_SCHEDULE,
              FINALIZE, READY, ERROR_SECURITY, ERROR_RUNTIME}

(* kstatus_t values the automaton stores; SCHED_ERROR stands for any     *)
(* error status sched_schedule() may return.                              *)
OKAY == "K_STATUS_OKAY"
SECURITY_INTEGRITY == "K_SECURITY_INTEGRITY"
SCHED_ERROR == "SCHED_ERROR"
Statuses == {OKAY, SECURITY_INTEGRITY, SCHED_ERROR}

(* Points of task_init(): "start" before its first line, one per handler *)
(* it calls, "loop" at the for-loop test, "done" after return.           *)
Pcs == {"start", "loop", "discover", "meta", "tsk", "localinfo", "map",
        "schedule", "finalize", "done"}

Cells == 0..(NumTasks - 1)          \* used cells of __task_meta_table
TableIdx == 0..MaxTasks             \* cells of the runtime task table
MetaRefs == Cells \cup {NoMeta, IdleMeta}

(* task_meta_t, abstracted: magic = (meta->magic == CONFIG_TASK_MAGIC_VALUE), *)
(* hmac = whether the metadata and the task image carry valid HMACs.      *)
MetaRecs == [magic : BOOLEAN, hmac : BOOLEAN, autostart : BOOLEAN, id : Ids]

VARIABLES
  meta_table,  \* __task_meta_table[0..NumTasks-1], read-only
  state,       \* ctx.state
  numtask,     \* ctx.numtask
  status,      \* ctx.status
  cell,        \* the loop index of task_init()
  pc,          \* where task_init() is
  task_table,  \* task_get_table(): metadata reference of every cell
  mapped,      \* metadata cells whose data/bss were copied and zeroed
  scheduled    \* metadata cells handed to sched_schedule()

vars == <<meta_table, state, numtask, status, cell, pc, task_table,
          mapped, scheduled>>

-----------------------------------------------------------------------------
(* The handler's outcome, followed by task_init()'s                       *)
(* "if (ctx.status != K_STATUS_OKAY) goto end;".                           *)
Continue(next, nextPc) ==
  /\ state' = next /\ status' = OKAY /\ pc' = nextPc

SecurityFail ==
  /\ state' = ERROR_SECURITY /\ status' = SECURITY_INTEGRITY /\ pc' = "done"

Init ==
  /\ meta_table \in [Cells -> MetaRecs]
  /\ state = BOOT /\ numtask = 0 /\ status = OKAY
  /\ cell = 0 /\ pc = "start"
  /\ task_table = [i \in TableIdx |-> NoMeta]
  /\ mapped = {} /\ scheduled = {}

(* task_init(), up to the loop: reset ctx, zero the table, enter          *)
(* DISCOVER_SANITATION.                                                    *)
TaskInitStart ==
  /\ pc = "start"
  /\ state' = DISCOVER_SANITATION /\ numtask' = 0 /\ status' = OKAY
  /\ task_table' = [i \in TableIdx |-> NoMeta]
  /\ cell' = 0 /\ pc' = "loop"
  /\ UNCHANGED <<meta_table, mapped, scheduled>>

(* Mutant: the loop bound off by one, the last entry never visited.     *)
LoopTestSkipLast ==
  /\ pc = "loop"
  /\ pc' = IF cell < NumTasks - 1 THEN "discover" ELSE "finalize"
  /\ UNCHANGED <<meta_table, state, numtask, status, cell, task_table,
                 mapped, scheduled>>

(* for (cell = 0; cell < task_get_num(); ++cell): the loop test.           *)
LoopTest ==
  /\ pc = "loop"
  /\ pc' = IF cell < NumTasks THEN "discover" ELSE "finalize"
  /\ UNCHANGED <<meta_table, state, numtask, status, cell, task_table,
                 mapped, scheduled>>

(* Mutant: the magic check of task_init_discover_sanitation() dropped.   *)
DiscoverSanitationNoMagic ==
  /\ pc = "discover"
  /\ IF state = DISCOVER_SANITATION
       THEN Continue(CHECK_META_INTEGRITY, "meta")
       ELSE SecurityFail
  /\ UNCHANGED <<meta_table, numtask, cell, task_table, mapped, scheduled>>

(* task_init_discover_sanitation(): the magic check.                      *)
DiscoverSanitation ==
  /\ pc = "discover"
  /\ IF state = DISCOVER_SANITATION /\ meta_table[cell].magic
       THEN Continue(CHECK_META_INTEGRITY, "meta")
       ELSE SecurityFail
  /\ UNCHANGED <<meta_table, numtask, cell, task_table, mapped, scheduled>>

(* task_init_check_meta_integrity(): the HMAC service is not called yet  *)
(* (FIXME in the code); only the entering state is checked.               *)
CheckMetaIntegrity ==
  /\ pc = "meta"
  /\ IF state = CHECK_META_INTEGRITY
       THEN Continue(CHECK_TSK_INTEGRITY, "tsk")
       ELSE SecurityFail
  /\ UNCHANGED <<meta_table, numtask, cell, task_table, mapped, scheduled>>

(* task_init_check_tsk_integrity(): as above, for the task image.         *)
CheckTskIntegrity ==
  /\ pc = "tsk"
  /\ IF state = CHECK_TSK_INTEGRITY
       THEN Continue(INIT_LOCALINFO, "localinfo")
       ELSE SecurityFail
  /\ UNCHANGED <<meta_table, numtask, cell, task_table, mapped, scheduled>>

(* task_init_initiate_localinfo(): fill runtime cell ctx.numtask with the *)
(* metadata reference (and the sp derived from it).                       *)
InitiateLocalinfo ==
  /\ pc = "localinfo"
  /\ IF state = INIT_LOCALINFO /\ numtask # MaxTasks + 1
       THEN /\ task_table' = [task_table EXCEPT ![numtask] = cell]
            /\ Continue(TSK_MAP, "map")
       ELSE /\ SecurityFail
            /\ UNCHANGED task_table
  /\ UNCHANGED <<meta_table, numtask, cell, mapped, scheduled>>

(* task_init_map(): copy .data and zero .bss.  On a state mismatch the    *)
(* handler moves to ERROR_SECURITY but still returns K_STATUS_OKAY.       *)
TaskInitMap ==
  /\ pc = "map"
  /\ IF state = TSK_MAP
       THEN /\ mapped' = mapped \cup {cell}
            /\ Continue(TSK_SCHEDULE, "schedule")
       ELSE /\ state' = ERROR_SECURITY /\ status' = OKAY /\ pc' = "schedule"
            /\ UNCHANGED mapped
  /\ UNCHANGED <<meta_table, numtask, cell, task_table, scheduled>>

(* Mutant: task_init_schedule() without its "status != K_STATUS_OKAY"    *)
(* test: a refused task leaves ctx.state at DISCOVER_SANITATION (or       *)
(* FINALIZE), and only the caller's status test ends the loop.            *)
ScheduleStepNoStatusCheck(auto, step) ==
  /\ pc = "schedule"
  /\ \E r \in {OKAY, SCHED_ERROR} :
       LET res == IF auto THEN r ELSE OKAY
       IN
       IF state # TSK_SCHEDULE
         THEN /\ state' = ERROR_SECURITY /\ status' = OKAY
              /\ pc' = "loop" /\ cell' = cell + step
              /\ UNCHANGED scheduled
         ELSE /\ scheduled' = IF auto /\ r = OKAY THEN scheduled \cup {cell}
                                ELSE scheduled
              /\ state' = IF numtask = NumTasks THEN FINALIZE
                          ELSE DISCOVER_SANITATION
              /\ status' = res
              /\ IF res # OKAY
                   THEN pc' = "done" /\ UNCHANGED cell
                   ELSE pc' = "loop" /\ cell' = cell + step
  /\ UNCHANGED <<meta_table, numtask, task_table, mapped>>

(* task_init_schedule() for an autostart verdict auto, followed by the    *)
(* loop increment cell := cell + step: register the task with the         *)
(* scheduler, whose answer r is not under the automaton's control, then   *)
(* move to FINALIZE or back to DISCOVER_SANITATION.                       *)
ScheduleStep(auto, step) ==
  /\ pc = "schedule"
  /\ \E r \in {OKAY, SCHED_ERROR} :
       LET res == IF auto THEN r ELSE OKAY
       IN
       IF state # TSK_SCHEDULE
         THEN /\ state' = ERROR_SECURITY /\ status' = OKAY
              /\ pc' = "loop" /\ cell' = cell + step
              /\ UNCHANGED scheduled
         ELSE /\ scheduled' = IF auto /\ r = OKAY THEN scheduled \cup {cell}
                                ELSE scheduled
              /\ IF res # OKAY
                   THEN /\ state' = ERROR_RUNTIME /\ status' = res
                        /\ pc' = "done" /\ UNCHANGED cell
                   ELSE /\ state' = IF numtask = NumTasks THEN FINALIZE
                                    ELSE DISCOVER_SANITATION
                        /\ status' = OKAY
                        /\ pc' = "loop" /\ cell' = cell + step
  /\ UNCHANGED <<meta_table, numtask, task_table, mapped>>

(* Mutants: the autostart flag test dropped; the cell index not advanced; *)
(* advanced twice.                                                         *)
TaskInitScheduleAll == ScheduleStep(TRUE, 1)
TaskInitScheduleStuck == ScheduleStep(meta_table[cell].autostart, 0)
TaskInitScheduleTwice == ScheduleStep(meta_table[cell].autostart, 2)

(* task_init_schedule() on the current metadata entry, then ++cell.       *)
TaskInitSchedule == ScheduleStep(meta_table[cell].autostart, 1)

(* task_init_finalize() whose entering-state check is the test entered:  *)
(* append the idle task and sort the table; on a state mismatch only      *)
(* ctx.status is set.  Then task_init() returns.                          *)
FinalizeWhen(entered) ==
  /\ pc = "finalize"
  /\ IF entered
       THEN LET withIdle == [task_table EXCEPT ![numtask] = IdleMeta]
                \* the idle metadata is zeroed after being filled: label 0;
                \* an empty cell is keyed 0 as well
                key == [m \in MetaRefs |->
                          IF m \in Cells THEN meta_table[m].id ELSE 0]
                sorted == BasicSort(withIdle, NumTasks, key)
            IN  /\ task_table' = [i \in TableIdx |->
                                    IF i <= NumTasks THEN sorted[i]
                                    ELSE withIdle[i]]
                /\ numtask' = numtask + 1
                /\ status' = OKAY /\ state' = READY
       ELSE /\ status' = SECURITY_INTEGRITY
            /\ UNCHANGED <<task_table, numtask, state>>
  /\ pc' = "done"
  /\ UNCHANGED <<meta_table, cell, mapped, scheduled>>

(* task_init_finalize(), entered only in FINALIZE.                        *)
TaskInitFinalize == FinalizeWhen(state = FINALIZE)

(* task_init() has returned: nothing more happens.                        *)
Done == pc = "done" /\ UNCHANGED vars

Next ==
  \/ TaskInitStart
  \/ LoopTest
  \/ DiscoverSanitation
  \/ CheckMetaIntegrity
  \/ CheckTskIntegrity
  \/ InitiateLocalinfo
  \/ TaskInitMap
  \/ TaskInitSchedule
  \/ TaskInitFinalize
  \/ Done

(* task_init() runs once at boot, single-threaded and to its end.        *)
Spec == Init /\ [][Next]_vars /\ WF_vars(Next)

-----------------------------------------------------------------------------
TypeOK ==
  /\ meta_table \in [Cells -> MetaRecs]
  /\ state \in MgrStates
  /\ numtask \in 0..(MaxTasks + 1)
  /\ status \in Statuses
  /\ cell \in 0..NumTasks
  /\ pc \in Pcs
  /\ task_table \in [TableIdx -> MetaRefs]
  /\ mapped \subseteq Cells
  /\ scheduled \subseteq Cells

(* Fail-closed pass (spec 4.2, 7): a task is mapped or handed to the      *)
(* scheduler only if its own magic and the magic of every task before it  *)
(* in the metadata table were valid; a bad entry aborts the rest of the   *)
(* pass instead of being skipped.                                         *)
AbortsOnFirstBadMagic ==
  \A c \in mapped \cup scheduled : \A d \in 0..c : meta_table[d].magic

(* A task is registered with sched_schedule() only once its .data was     *)
(* copied and its .bss zeroed by task_init_map(), and only if its         *)
(* metadata asks for autostart.                                            *)
RegisteredOnlyWhenMapped ==
  \A c \in scheduled : c \in mapped /\ meta_table[c].autostart

(* task_init() returns: the pass over the metadata table ends.            *)
InitTerminates == <>(pc = "done")

(* Only tasks whose metadata and image HMACs verify are mapped (spec 3,   *)
(* 4.2: both integrity checks pass, in order, before an entry is used).  *)
OnlyAuthenticTasksMapped == \A c \in mapped : meta_table[c].hmac

-----------------------------------------------------------------------------
(* The refinement mapping to TaskLoad: the loop index is the entry the    *)
(* pass is at, mapped and scheduled are the loaded and registered sets,   *)
(* and the return of task_init() says how the pass ended -- a runtime     *)
(* error, the loop run to its end (whatever finalize then returns), or    *)
(* a security error.                                                       *)
outcomeBar ==
  IF pc # "done" THEN "running"
  ELSE IF state = ERROR_RUNTIME THEN "runtime"
  ELSE IF cell = NumTasks THEN "finished"
  ELSE "security"

Pass == INSTANCE TaskLoad WITH
          table <- meta_table, next <- cell, loaded <- mapped,
          registered <- scheduled, outcome <- outcomeBar

(* The seven handlers, their entering-state checks and the goto-end tests *)
(* of task_init() implement the one-entry-at-a-time pass of TaskLoad:     *)
(* entries are validated, loaded and registered in table order, an abort *)
(* is final and keeps its kind (security or runtime), and the loop ends  *)
(* only after the last entry.                                              *)
ImplementsTaskLoad == Pass!Spec

(* When task_init() returns, what it did to the tables matches how it     *)
(* ended (TaskLoad's PassOutcome): after the whole loop every task was    *)
(* valid and mapped and exactly the autostart ones were scheduled; on a   *)
(* security abort the entry at the loop index is the first bad one and    *)
(* exactly the tasks before it were mapped; on a runtime abort the        *)
(* scheduler refused the mapped autostart task at the index.              *)
PassEndsAsPromised == Pass!PassOutcome


-----------------------------------------------------------------------------
(* The strengthening that makes the properties above inductive.           *)

(* Which automaton state each point of task_init() is reached in.  In     *)
(* particular ctx.numtask is never advanced by the pass, so FINALIZE is   *)
(* never entered and the finalize handler always meets the mismatch.      *)
PcMatchesState ==
  /\ numtask = 0
  /\ pc \in {"loop", "discover", "finalize"} => state = DISCOVER_SANITATION
  /\ pc \in {"discover", "meta", "tsk", "localinfo", "map", "schedule"} =>
       cell < NumTasks
  /\ pc \in {"meta", "tsk", "localinfo", "map", "schedule"} =>
       meta_table[cell].magic
  /\ pc = "meta" => state = CHECK_META_INTEGRITY
  /\ pc = "tsk" => state = CHECK_TSK_INTEGRITY
  /\ pc = "localinfo" => state = INIT_LOCALINFO
  /\ pc = "map" => state = TSK_MAP
  /\ pc = "schedule" => state = TSK_SCHEDULE /\ cell \in mapped
  /\ pc = "done" => status # OKAY

(* Every table entry before the loop index passed the magic check.        *)
PrefixAuthentic == \A d \in 0..(cell - 1) : meta_table[d].magic

(* The inductive invariant proved in TaskInit_proofs.                     *)
InitInv ==
  /\ TypeOK
  /\ PcMatchesState
  /\ PrefixAuthentic
  /\ AbortsOnFirstBadMagic
  /\ RegisteredOnlyWhenMapped

(* What the refinement to TaskLoad needs beyond InitInv: the loop index  *)
(* starts at 0 with nothing mapped, the finalize point is reached with    *)
(* the index at the end, and every mapped entry lies behind the index,    *)
(* the current one included only once task_init_map() has run.           *)
LoadOrder ==
  /\ pc = "start" => cell = 0 /\ mapped = {} /\ scheduled = {}
  /\ pc = "finalize" => cell = NumTasks
  /\ pc \in {"loop", "discover", "meta", "tsk", "localinfo", "map",
            "finalize"} => \A c \in mapped : c < cell
  /\ pc = "schedule" => \A c \in mapped : c <= cell

(* Every used cell of the metadata table is clear, integrity and         *)
(* authenticity (I+A): its magic and both its HMACs are valid.            *)
TableClear == \A c \in Cells : meta_table[c].magic /\ meta_table[c].hmac

(* task_init() does what its header comment and the spec (3, 4.2, 8) say *)
(* of it: only tasks whose HMACs verify are mapped, and on a table whose  *)
(* tasks are all clear (I+A) it returns K_STATUS_OKAY unless the          *)
(* scheduler refused a task (ERROR_RUNTIME).                               *)
TaskInitAsDocumented ==
  /\ OnlyAuthenticTasksMapped
  /\ (pc = "done" /\ TableClear /\ state # ERROR_RUNTIME) => status = OKAY

=============================================================================
