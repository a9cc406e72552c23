\* One call at a time, nothing failing, three events: the claim of getProof's comment.
SPECIFICATION Spec
CONSTANTS
    Call = {c1}
    Event = {e1, e2, e3}
    MaxFaults = 0
    MaxClears = 0
INVARIANT EventsVerify
CHECK_DEADLOCK FALSE
