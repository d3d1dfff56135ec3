--------------------------- MODULE OperatorConsole ---------------------------
(* The operator's page (the script in main.py): its lists of repair jobs, the *)
(* forms from which a measurement is saved, and the uploads it asks the       *)
(* gateway for. JavaScript runs one handler at a time and others come in at   *)
(* every await; confirm() blocks the page, so what follows it runs in the     *)
(* same step. The gateway and ERPNext behind it are MeasurementRegistry,      *)
(* which ErpUpload implements.                                                *)
EXTENDS Naturals, Sequences

CONSTANTS
    Jobs,         \* repair jobs
    JobLists,     \* the lists of open repair jobs ERPNext may answer with
    ModuleCount,  \* module_count of each job, 0 if ERPNext has none
    Tabs,         \* tabs with a form: "cell", "resistance", ...
    Processes,    \* process keys whose buttons are pressed
    Stages,       \* measurement stages by their code
    MaxModule,    \* bound: modules a form offers
    Calls,        \* uploads, in the order they are asked for
    Loads,        \* bound: requests for the job list in flight
    Typed,        \* jobs the operator types into the report form
    Edits,        \* bound: names of records ERPNext's users add and delete
    None, Foreign

ASSUME ListsOfJobs == JobLists \subseteq Seq(Jobs)
ASSUME CountsNat == MaxModule \in Nat \ {0} /\ ModuleCount \in [Jobs -> 0 .. MaxModule]
ASSUME CallsNat == Calls \subseteq Nat
ASSUME NoneIsNoJob == None \notin Jobs
ASSUME TypedJobs == Typed \subseteq Jobs

VARIABLES
    open,      \* the list of open jobs in ERPNext
    load,      \* loadErpNextJobs calls in flight, each with its answer
    jobs,      \* erpnextJobs
    options,   \* the list each select element shows
    picked,    \* the position picked in each, 0 if the list is empty
    selected,  \* selectedErpNextJob
    workOrder, \* reportWorkOrderId, the work order of the report form
    count,     \* the module count field of each tab
    module,    \* the measured module picked in each tab
    stage,     \* the measurement stage picked in each tab
    run,       \* each startServiceProcess call that asked for an upload
    holder, upload   \* the registry

formVars == <<jobs, options, picked, selected, workOrder, count, module, stage>>
registryVars == <<holder, upload>>
vars == <<open, load, run, formVars, registryVars>>

-----------------------------------------------------------------------------
(* Names                                                                      *)

(* SERVICE_PROCESSES: test_type and measurement_stage of a process, by the    *)
(* codes of TEST_TYPE_CODES and MEASUREMENT_STAGE_CODES.                      *)
TestOf(key) ==
    CASE key = "cell_voltage_measurement" -> 1
      [] key \in {"incoming_resistance", "module_cell_resistance",
                  "post_discharge_resistance"} -> 2
      [] key = "short_discharge_test" -> 3
      [] key = "pack_charge" -> 4
      [] key \in {"balance_to_highest_cell", "final_balancing"} -> 5
      [] key = "full_post_repair_cycle" -> 9

StageOf(key) ==
    CASE key \in {"cell_voltage_measurement", "incoming_resistance"} -> 1
      [] key = "post_discharge_resistance" -> 3
      [] key \in {"final_balancing", "full_post_repair_cycle"} -> 4
      [] OTHER -> 2

(* modulePrefix: the tab whose form a process reads.                          *)
TabOf(key) ==
    CASE TestOf(key) = 2 -> "resistance"
      [] TestOf(key) = 3 -> "discharge"
      [] TestOf(key) = 4 -> "charge"
      [] TestOf(key) = 5 -> "balancing"
      [] OTHER -> "cell"

(* repairJob of startServiceProcess: the selected job or else the work order  *)
(* of the report form, which every selected job is copied to and which stays  *)
(* there when none is selected any more.                                      *)
RepairJob == IF selected # None THEN selected ELSE workOrder

(* The name the gateway gives the record for what the page asks: the picked   *)
(* stage goes before the one of the process.                                  *)
RecordName(key) ==
    <<RepairJob, module[TabOf(key)], TestOf(key), stage[TabOf(key)]>>

Names == Jobs \X (1 .. MaxModule) \X {TestOf(k) : k \in Processes} \X Stages

Registry == INSTANCE MeasurementRegistry

-----------------------------------------------------------------------------
Selects == Tabs \cup {"main"}

NewRun == [phase |-> "unused", key |-> None, confirmed |-> None]

Init ==
    /\ open \in JobLists
    /\ load = [l \in Loads |-> None]
    /\ jobs = <<>>
    /\ options = [s \in Selects |-> <<>>]
    /\ picked = [s \in Selects |-> 0]
    /\ selected = None
    /\ workOrder = None
    /\ count = [t \in Tabs |-> 1]
    /\ module = [t \in Tabs |-> 1]
    /\ stage \in [Tabs -> Stages]
    /\ run = [c \in Calls |-> NewRun]
    /\ Registry!Init

-----------------------------------------------------------------------------
(* loadErpNextJobs and the selection                                          *)

(* Asked when the page opens, by a button, and after an upload. The gateway's *)
(* answer is the list as it is then; answers may overtake one another.        *)
LoadAsked(l) ==
    /\ load[l] = None
    /\ load' = [load EXCEPT ![l] = <<open>>]

Load(l) ==
    /\ LoadAsked(l)
    /\ UNCHANGED <<open, run, formVars, registryVars>>

(* Mutant: the module lists are not made anew for another job.                *)
SelectKeepsModules(list, i) ==
    LET job == IF i \in DOMAIN list THEN list[i] ELSE None IN
    /\ selected' = job
    /\ workOrder' = IF job # None THEN job ELSE workOrder
    /\ picked' = [s \in Selects |-> i]
    /\ count' = IF job # None /\ ModuleCount[job] > 0
                THEN [t \in Tabs |-> ModuleCount[job]] ELSE count
    /\ UNCHANGED module

(* Mutant: a job whose module count is unknown sets the field, too.           *)
SelectTakesAnyCount(list, i) ==
    LET job == IF i \in DOMAIN list THEN list[i] ELSE None IN
    /\ selected' = job
    /\ workOrder' = IF job # None THEN job ELSE workOrder
    /\ picked' = [s \in Selects |-> i]
    /\ count' = IF job # None THEN [t \in Tabs |-> ModuleCount[job]] ELSE count
    /\ module' = [t \in Tabs |-> IF module[t] <= count'[t] THEN module[t] ELSE 1]

(* selectErpNextJob with position i of `list` picked: every tab follows, and  *)
(* takes over the job's module count; a module beyond it becomes module 1.    *)
Select(list, i) ==
    LET job == IF i \in DOMAIN list THEN list[i] ELSE None IN
    /\ selected' = job
    /\ workOrder' = IF job # None THEN job ELSE workOrder
    /\ picked' = [s \in Selects |-> i]
    /\ count' = IF job # None /\ ModuleCount[job] > 0
                THEN [t \in Tabs |-> ModuleCount[job]] ELSE count
    /\ module' = [t \in Tabs |-> IF module[t] <= count'[t] THEN module[t] ELSE 1]

(* Mutant: only the list of the ERP tab is made anew.                         *)
LoadArrivesMainOnly(l) ==
    /\ load[l] # None
    /\ load' = [load EXCEPT ![l] = None]
    /\ LET list == load[l][1] IN
       /\ jobs' = list
       /\ options' = [options EXCEPT !["main"] = list]
       /\ Select(list, IF list = <<>> THEN 0 ELSE 1)
    /\ UNCHANGED <<open, stage, run, registryVars>>

(* The answer replaces the list in every select, which picks the first job.   *)
LoadArrives(l) ==
    /\ load[l] # None
    /\ load' = [load EXCEPT ![l] = None]
    /\ LET list == load[l][1] IN
       /\ jobs' = list
       /\ options' = [s \in Selects |-> list]
       /\ Select(list, IF list = <<>> THEN 0 ELSE 1)
    /\ UNCHANGED <<open, stage, run, registryVars>>

LoadFails(l) ==
    /\ load[l] # None
    /\ load' = [load EXCEPT ![l] = None]
    /\ UNCHANGED <<open, run, formVars, registryVars>>

(* The operator picks a job in the list of some tab; the choice is copied to  *)
(* the main list and from there to all.                                       *)
Choose(s, i) ==
    /\ i \in DOMAIN options[s]
    /\ Select(jobs, i)
    /\ UNCHANGED <<open, load, jobs, options, stage, run, registryVars>>

-----------------------------------------------------------------------------
(* The form of a tab                                                          *)

PickModule(t, m) ==
    /\ m \in 1 .. count[t]
    /\ module' = [module EXCEPT ![t] = m]
    /\ UNCHANGED <<open, load, jobs, options, picked, selected, count, stage,
                   workOrder, run, registryVars>>

PickStage(t, g) ==
    /\ stage' = [stage EXCEPT ![t] = g]
    /\ UNCHANGED <<open, load, jobs, options, picked, selected, count, module,
                   workOrder, run, registryVars>>

(* The module count can be typed in two tabs, unless it came from ERPNext.    *)
TypeCount(t, n) ==
    /\ t \in {"cell", "resistance"}
    /\ selected # None => ModuleCount[selected] = 0
    /\ count' = [count EXCEPT ![t] = n]
    /\ module' = [module EXCEPT ![t] = IF @ <= n THEN @ ELSE 1]
    /\ UNCHANGED <<open, load, jobs, options, picked, selected, workOrder,
                   stage, run, registryVars>>

(* The work order of the report form can be typed, or emptied.                *)
TypeWorkOrder(j) ==
    /\ workOrder' = j
    /\ UNCHANGED <<open, load, jobs, options, picked, selected, count, module,
                   stage, run, registryVars>>

-----------------------------------------------------------------------------
(* startServiceProcess                                                        *)

NextCall(c) == run[c] = NewRun /\ \A d \in Calls : d < c => run[d] # NewRun

(* The payload is read from the form as it is now; `prompt` is the name in    *)
(* the question whether to overwrite, if there was one.                       *)
Post(c, key, prompt) ==
    [phase |-> "sent", key |-> key, confirmed |-> prompt]

(* A button is pressed with a repair job; without one nothing is uploaded.    *)
Press(c, key) ==
    /\ NextCall(c) /\ RepairJob # None
    /\ run' = [run EXCEPT ![c] = Post(c, key, None)]
    /\ Registry!Ask(c, RecordName(key), "create")
    /\ UNCHANGED <<open, load, formVars>>

(* 409, and the operator answers yes to "<name> már létezik. Valóban felül    *)
(* akarod írni?": startServiceProcess is called again and reads the form      *)
(* again.                                                                     *)
Overwrite(c, d) ==
    /\ run[c].phase = "sent" /\ upload[c].state = "refused"
    /\ NextCall(d) /\ RepairJob # None
    /\ run' = [run EXCEPT ![c].phase = "ended",
                          ![d] = Post(d, run[c].key, upload[c].name)]
    /\ Registry!Ask(d, RecordName(run[c].key), "overwrite")
    /\ UNCHANGED <<open, load, formVars>>

(* The answer is shown, and unless it was a bare server error or a refusal    *)
(* the operator left at that, the list is loaded again.                       *)
Shown(c) ==
    /\ run[c].phase = "sent"
    /\ run' = [run EXCEPT ![c].phase = "ended"]
    /\ \/ /\ upload[c].state \in {"stored", "failed"}
          /\ \E l \in Loads : LoadAsked(l)
       \/ /\ upload[c].state \in {"refused", "failed"}
          /\ UNCHANGED load
    /\ UNCHANGED <<open, formVars, registryVars>>

-----------------------------------------------------------------------------
(* The gateway and ERPNext                                                    *)

JobsChange ==
    /\ open' \in JobLists \ {open}
    /\ UNCHANGED <<load, run, formVars, registryVars>>

Serve ==
    /\ \E c \in Calls :
           Registry!Take(c) \/ Registry!AnswerStored(c)
               \/ Registry!AnswerRefused(c) \/ Registry!AnswerFailed(c)
    /\ UNCHANGED <<open, load, run, formVars>>

Edited ==
    /\ \E n \in Names \cap Edits : Registry!Edit(n)
    /\ UNCHANGED <<open, load, run, formVars>>

-----------------------------------------------------------------------------
Next ==
    \/ \E l \in Loads : Load(l) \/ LoadArrives(l) \/ LoadFails(l)
    \/ \E s \in Selects, i \in DOMAIN jobs : Choose(s, i)
    \/ \E t \in Tabs, m \in 1 .. MaxModule : PickModule(t, m) \/ TypeCount(t, m)
    \/ \E t \in Tabs, g \in Stages : PickStage(t, g)
    \/ \E j \in Typed \cup {None} : TypeWorkOrder(j)
    \/ \E c \in Calls, k \in Processes : Press(c, k)
    \/ \E c, d \in Calls : Overwrite(c, d)
    \/ \E c \in Calls : Shown(c)
    \/ JobsChange \/ Serve \/ Edited

Spec == Init /\ [][Next]_vars

-----------------------------------------------------------------------------
(* Properties                                                                 *)

TypeOK ==
    /\ open \in JobLists
    /\ \A l \in Loads : load[l] \in {None} \cup {<<j>> : j \in JobLists}
    /\ jobs \in JobLists \cup {<<>>}
    /\ selected \in Jobs \cup {None}
    /\ workOrder \in Jobs \cup {None}
    /\ count \in [Tabs -> 1 .. MaxModule]
    /\ module \in [Tabs -> 1 .. MaxModule]
    /\ stage \in [Tabs -> Stages]

(* The job a tab shows is the job a measurement saved in it goes to: all      *)
(* lists have the selected job picked, in whatever order lists arrive and     *)
(* jobs are picked in whatever tab.                                           *)
ShownJobIsSelected ==
    \A s \in Selects :
        IF selected = None THEN options[s] = <<>>
        ELSE picked[s] \in DOMAIN options[s] /\ options[s][picked[s]] = selected

(* A module count that came from ERPNext cannot be strayed from: no tab has a *)
(* module beyond it, whichever job was selected and picked from before.       *)
ModuleWithinJob ==
    selected # None /\ ModuleCount[selected] > 0 =>
        \A t \in Tabs : count[t] = ModuleCount[selected] /\ module[t] <= count[t]

Asked == {c \in Calls : run[c].phase # "unused"}

(* "<name> már létezik. Valóban felül akarod írni?": the record that is       *)
(* overwritten is the one the operator was asked about.                       *)
OverwritesWhatWasConfirmed ==
    \A c \in Asked :
        upload[c].mode = "overwrite" => upload[c].name = run[c].confirmed

=============================================================================
