CONSTANTS
    first = first
    redelivery = redelivery
    again = again
    later = later
    d1 = d1
    d2 = d2
    d3 = d3
    run1 = run1
    run2 = run2
    branch = branch
    None = None
    Entries = {first, redelivery, later}
    Deliveries = {d1, d2, d3}
    Workflows = {run1, run2}
    QueueKeys = {branch}
    DeliveryOf <- MCDeliveryOf
    WorkflowOf <- MCWorkflowOf
    QueueKeyOf <- MCQueueKeyOf
    MaxPending = 2
    MaxRestarts = 1
    MaxLapses = 1
SPECIFICATION Spec
SYMMETRY Symmetry
CHECK_DEADLOCK FALSE
INVARIANTS
    TypeOK
    LiveRecordsReserved
    CompletedOnce
    InterruptedReplayable
    NoOvertaking
PROPERTIES
    QuietAfterClose
