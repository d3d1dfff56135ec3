------------------------ MODULE OperatorConsoleProofs ------------------------
(* For any jobs, tabs and bounds: the forms agree with the selected job.      *)
EXTENDS OperatorConsole, SequenceTheorems, TLAPS

-----------------------------------------------------------------------------
(* The forms                                                                  *)

(* The selection: every list shows the same jobs with the same one picked,    *)
(* and no tab has a module beyond its count.                                  *)
OneList ==
    /\ options = [s \in Selects |-> jobs]
    /\ \E i \in Nat :
          /\ picked = [s \in Selects |-> i]
          /\ IF selected = None THEN jobs = <<>>
             ELSE i \in DOMAIN jobs /\ jobs[i] = selected

WithinCount == \A t \in Tabs : module[t] <= count[t]

CountOfJob ==
    selected # None /\ ModuleCount[selected] > 0 =>
        \A t \in Tabs : count[t] = ModuleCount[selected]

FormInv == TypeOK /\ OneList /\ WithinCount /\ CountOfJob

LEMMA ListTypes ==
    ASSUME NEW list \in JobLists \cup {<<>>}
    PROVE  /\ list \in Seq(Jobs)
           /\ \A i \in DOMAIN list : i \in Nat /\ list[i] \in Jobs /\ list[i] # None
           /\ list # <<>> => 1 \in DOMAIN list
<1>1. list \in Seq(Jobs)
  BY ListsOfJobs, EmptySeq
<1>2. Len(list) \in Nat /\ DOMAIN list = 1 .. Len(list)
  BY <1>1, LenProperties
<1>3. \A i \in DOMAIN list : list[i] \in Jobs
  BY <1>1, <1>2, ElementOfSeq
<1>4. list # <<>> => Len(list) # 0
  BY <1>1, EmptySeq
<1> QED BY <1>1, <1>2, <1>3, <1>4, NoneIsNoJob

(* What Select leaves, for a list whose position is picked in every tab.      *)
LEMMA Selected ==
    ASSUME FormInv, NEW list \in JobLists \cup {<<>>}, NEW i \in Nat,
           IF list = <<>> THEN i = 0 ELSE i \in DOMAIN list,
           Select(list, i), jobs' = list, options' = [s \in Selects |-> list],
           UNCHANGED stage, open' \in JobLists,
           \A l \in Loads : load'[l] \in {None} \cup {<<j>> : j \in JobLists}
    PROVE  FormInv'
<1> DEFINE job == IF i \in DOMAIN list THEN list[i] ELSE None
<1>1. /\ selected' = job
      /\ workOrder' = IF job # None THEN job ELSE workOrder
      /\ picked' = [s \in Selects |-> i]
      /\ count' = IF job # None /\ ModuleCount[job] > 0
                  THEN [t \in Tabs |-> ModuleCount[job]] ELSE count
      /\ module' = [t \in Tabs |-> IF module[t] <= count'[t] THEN module[t] ELSE 1]
  BY DEF Select
<1>2. job \in Jobs \cup {None}
  BY ListTypes
<1>3. IF job = None THEN list = <<>> ELSE i \in DOMAIN list /\ list[i] = job
  BY ListTypes
<1> HIDE DEF job
<1>4. OneList'
  BY <1>1, <1>3 DEF OneList
<1>5. count' \in [Tabs -> 1 .. MaxModule]
  BY <1>1, <1>2, CountsNat DEF FormInv, TypeOK
<1>6. /\ module' \in [Tabs -> 1 .. MaxModule]
      /\ \A t \in Tabs : module'[t] <= count'[t]
  BY <1>1, <1>5, CountsNat DEF FormInv, TypeOK
<1>7. CountOfJob'
  BY <1>1, <1>2 DEF CountOfJob
<1>8. workOrder' \in Jobs \cup {None}
  BY <1>1, <1>2 DEF FormInv, TypeOK
<1>9. TypeOK'
  BY <1>1, <1>2, <1>5, <1>6, <1>8 DEF FormInv, TypeOK
<1> QED BY <1>4, <1>6, <1>7, <1>9 DEF FormInv, WithinCount

(* A load asked for: the answer is the list as it is.                         *)
LEMMA Asks ==
    ASSUME FormInv, NEW l \in Loads, LoadAsked(l)
    PROVE  \A k \in Loads : load'[k] \in {None} \cup {<<j>> : j \in JobLists}
  BY DEF FormInv, TypeOK, LoadAsked

LEMMA FormsUnchanged ==
    ASSUME FormInv, UNCHANGED formVars, open' \in JobLists,
           \A k \in Loads : load'[k] \in {None} \cup {<<j>> : j \in JobLists}
    PROVE  FormInv'
  BY DEF formVars, FormInv, TypeOK, OneList, WithinCount, CountOfJob

LEMMA LoadStep ==
    ASSUME FormInv, NEW l \in Loads, Load(l) \/ LoadArrives(l) \/ LoadFails(l)
    PROVE  FormInv'
<1>1. CASE Load(l)
  BY <1>1, Asks, FormsUnchanged DEF Load, FormInv, TypeOK
<1>2. CASE LoadFails(l)
  <2>1. \A k \in Loads : load'[k] \in {None} \cup {<<j>> : j \in JobLists}
    BY <1>2 DEF LoadFails, FormInv, TypeOK
  <2> QED BY <1>2, <2>1, FormsUnchanged DEF LoadFails, FormInv, TypeOK
<1>3. CASE LoadArrives(l)
  <2>1. \A k \in Loads : load'[k] \in {None} \cup {<<j>> : j \in JobLists}
    BY <1>3 DEF LoadArrives, FormInv, TypeOK
  <2>2. PICK list \in JobLists : load[l] = <<list>>
    BY <1>3 DEF LoadArrives, FormInv, TypeOK
  <2> DEFINE i == IF list = <<>> THEN 0 ELSE 1
  <2>3. /\ jobs' = list /\ options' = [s \in Selects |-> list] /\ Select(list, i)
    BY <1>3, <2>2 DEF LoadArrives
  <2>4. i \in Nat /\ (IF list = <<>> THEN i = 0 ELSE i \in DOMAIN list)
    BY ListTypes
  <2> HIDE DEF i
  <2> QED BY <1>3, <2>1, <2>3, <2>4, Selected DEF LoadArrives, FormInv, TypeOK
<1> QED BY <1>1, <1>2, <1>3

LEMMA ChooseStep ==
    ASSUME FormInv, NEW s \in Selects, NEW i \in DOMAIN jobs, Choose(s, i)
    PROVE  FormInv'
<1>1. jobs \in JobLists \cup {<<>>}
  BY DEF FormInv, TypeOK
<1>2. i \in Nat /\ jobs # <<>>
  BY <1>1, ListTypes, EmptySeq
<1>3. options' = [x \in Selects |-> jobs] /\ jobs' = jobs /\ Select(jobs, i)
  BY DEF Choose, FormInv, OneList
<1> QED BY <1>1, <1>2, <1>3, Selected DEF Choose, FormInv, TypeOK

LEMMA FormStep ==
    ASSUME FormInv, NEW t \in Tabs, NEW m \in 1 .. MaxModule,
           PickModule(t, m) \/ TypeCount(t, m)
    PROVE  FormInv'
<1>1. OneList'
  BY DEF PickModule, TypeCount, FormInv, OneList
<1>2. 1 \in 1 .. MaxModule
  BY CountsNat
<1>3. CASE PickModule(t, m)
  BY <1>1, <1>3 DEF PickModule, FormInv, TypeOK, WithinCount, CountOfJob
<1>4. CASE TypeCount(t, m)
  <2>1. TypeOK'
    BY <1>2, <1>4 DEF TypeCount, FormInv, TypeOK
  <2>2. WithinCount'
    BY <1>4 DEF TypeCount, FormInv, TypeOK, WithinCount
  <2>3. CountOfJob'
    BY <1>4 DEF TypeCount, FormInv, CountOfJob
  <2> QED BY <1>1, <2>1, <2>2, <2>3 DEF FormInv
<1> QED BY <1>3, <1>4

LEMMA OtherFieldStep ==
    ASSUME FormInv,
           \/ \E t \in Tabs, g \in Stages : PickStage(t, g)
           \/ \E j \in Typed \cup {None} : TypeWorkOrder(j)
    PROVE  FormInv'
<1>1. OneList' /\ WithinCount' /\ CountOfJob'
  BY DEF PickStage, TypeWorkOrder, FormInv, OneList, WithinCount, CountOfJob
<1>2. TypeOK'
  BY TypedJobs DEF PickStage, TypeWorkOrder, FormInv, TypeOK
<1> QED BY <1>1, <1>2 DEF FormInv

(* Buttons, the gateway and ERPNext leave the forms alone; an answer shown    *)
(* may ask for the list again, and the list in ERPNext may change.            *)
LEMMA UploadStep ==
    ASSUME FormInv,
           \/ \E c \in Calls, k \in Processes : Press(c, k)
           \/ \E c, d \in Calls : Overwrite(c, d)
           \/ \E c \in Calls : Shown(c)
           \/ JobsChange \/ Serve \/ Edited
    PROVE  FormInv'
<1>1. /\ open \in JobLists
      /\ \A k \in Loads : load[k] \in {None} \cup {<<j>> : j \in JobLists}
  BY DEF FormInv, TypeOK
<1>2. UNCHANGED formVars /\ open' \in JobLists
  BY <1>1 DEF Press, Overwrite, Shown, JobsChange, Serve, Edited
<1>3. UNCHANGED load \/ \E l \in Loads : LoadAsked(l)
  BY DEF Press, Overwrite, Shown, JobsChange, Serve, Edited
<1>4. \A k \in Loads : load'[k] \in {None} \cup {<<j>> : j \in JobLists}
  BY <1>1, <1>3, Asks
<1> QED BY <1>2, <1>4, FormsUnchanged

LEMMA FormsFirst == Init => FormInv
<1> SUFFICES ASSUME Init PROVE FormInv
  OBVIOUS
<1>1. TypeOK
  BY CountsNat DEF Init, TypeOK
<1>2. OneList
  <2>1. picked = [s \in Selects |-> 0] /\ 0 \in Nat
    BY DEF Init
  <2> QED BY <2>1 DEF Init, OneList
<1>3. WithinCount /\ CountOfJob
  BY DEF Init, WithinCount, CountOfJob
<1> QED BY <1>1, <1>2, <1>3 DEF FormInv

LEMMA FormsStep == FormInv /\ [Next]_vars => FormInv'
<1> SUFFICES ASSUME FormInv, [Next]_vars PROVE FormInv'
  OBVIOUS
<1>1. CASE \E l \in Loads : Load(l) \/ LoadArrives(l) \/ LoadFails(l)
  BY <1>1, LoadStep
<1>2. CASE \E s \in Selects, i \in DOMAIN jobs : Choose(s, i)
  BY <1>2, ChooseStep
<1>3. CASE \E t \in Tabs, m \in 1 .. MaxModule : PickModule(t, m) \/ TypeCount(t, m)
  BY <1>3, FormStep
<1>4. CASE \/ \E t \in Tabs, g \in Stages : PickStage(t, g)
           \/ \E j \in Typed \cup {None} : TypeWorkOrder(j)
  BY <1>4, OtherFieldStep
<1>5. CASE \/ \E c \in Calls, k \in Processes : Press(c, k)
           \/ \E c, d \in Calls : Overwrite(c, d)
           \/ \E c \in Calls : Shown(c)
           \/ JobsChange \/ Serve \/ Edited
  BY <1>5, UploadStep
<1>6. CASE UNCHANGED vars
  BY <1>6, FormsUnchanged DEF vars, FormInv, TypeOK
<1> QED BY <1>1, <1>2, <1>3, <1>4, <1>5, <1>6 DEF Next

(* The forms stay consistent with the selected job, for lists of any length   *)
(* that arrive in any order.                                                  *)
THEOREM Forms == Spec => []FormInv
<1> QED BY FormsFirst, FormsStep, PTL DEF Spec

(* Every variable of the page's script keeps its type.                        *)
THEOREM TypeCorrect == Spec => []TypeOK
<1>1. FormInv => TypeOK
  BY DEF FormInv
<1> QED BY <1>1, Forms, PTL

(* The job a tab shows is the job its measurements go to (updateJobSelectors, *)
(* selectErpNextJob).                                                         *)
THEOREM ShownIsSelected == Spec => []ShownJobIsSelected
<1>1. FormInv => ShownJobIsSelected
  <2> SUFFICES ASSUME FormInv, NEW s \in Selects
               PROVE  IF selected = None THEN options[s] = <<>>
                      ELSE picked[s] \in DOMAIN options[s]
                               /\ options[s][picked[s]] = selected
    BY DEF ShownJobIsSelected
  <2>1. PICK i \in Nat :
          /\ picked = [x \in Selects |-> i]
          /\ IF selected = None THEN jobs = <<>>
             ELSE i \in DOMAIN jobs /\ jobs[i] = selected
    BY DEF FormInv, OneList
  <2>2. options[s] = jobs /\ picked[s] = i
    BY <2>1 DEF FormInv, OneList
  <2> QED BY <2>1, <2>2
<1> QED BY <1>1, Forms, PTL

(* No tab measures a module the selected job does not have                    *)
(* (setModuleCounts, updateModuleSelector).                                   *)
THEOREM ModuleWithin == Spec => []ModuleWithinJob
<1>1. FormInv => ModuleWithinJob
  BY DEF FormInv, WithinCount, CountOfJob, ModuleWithinJob
<1> QED BY <1>1, Forms, PTL

=============================================================================
