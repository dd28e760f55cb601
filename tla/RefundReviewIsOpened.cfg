SPECIFICATION Spec
CONSTANT Scenarios <- RefundScenario
PROPERTY RefundReviewIsOpened
