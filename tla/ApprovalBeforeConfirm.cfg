SPECIFICATION Spec
CONSTANT EventTypes <- MCEventTypes
PROPERTY ApprovalBeforeConfirm
