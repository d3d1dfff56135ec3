CONSTANTS
    None = None
    Foreign = Foreign
    j1 = j1
    j2 = j2
    l1 = l1
    l2 = l2
    Jobs <- MCJobs
    JobLists <- MCTwoJobs
    ModuleCount <- MCOneModule
    Tabs = {"cell"}
    Processes = {"cell_voltage_measurement"}
    Stages = {1}
    MaxModule = 1
    Calls = {1, 2}
    Edits <- MCEdits
    Loads = {l1}
    Typed = {}
SPECIFICATION Spec
INVARIANT
    OverwritesWhatWasConfirmed
CHECK_DEADLOCK FALSE
