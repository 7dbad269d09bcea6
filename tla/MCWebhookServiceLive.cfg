CONSTANTS
    first = first
    redelivery = redelivery
    again = again
    later = later
    d1 = d1
    d2 = d2
    d3 = d3
    run1 = run1
    run2 = run2
    branch = branch
    None = None
    Entries = {first, again}
    Deliveries = {d1, d2, d3}
    Workflows = {run1, run2}
    QueueKeys = {branch}
    DeliveryOf <- MCDeliveryOf
    WorkflowOf <- MCWorkflowOf
    QueueKeyOf <- MCQueueKeyOf
    MaxPending = 1
    MaxRestarts = 2
    MaxLapses = 0
SPECIFICATION FairSpec
CHECK_DEADLOCK FALSE
PROPERTY AcceptedResolved
