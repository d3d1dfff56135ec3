CONSTANTS
    None = None
    Foreign = Foreign
    j1 = j1
    j2 = j2
    l1 = l1
    l2 = l2
    Jobs <- MCJobs
    JobLists <- MCJobLists
    ModuleCount <- MCModuleCount
    Tabs = {"cell", "resistance"}
    Processes = {"module_cell_resistance"}
    Stages = {1}
    MaxModule = 2
    Calls = {1, 2}
    Edits <- MCEdits
    Loads = {l1, l2}
    Typed = {}
SPECIFICATION Spec
SYMMETRY LoadsAlike
INVARIANTS
    TypeOK
    ShownJobIsSelected
    ModuleWithinJob
CHECK_DEADLOCK FALSE
