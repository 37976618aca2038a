SPECIFICATION Spec
CONSTANTS
  Adapters = 3
  MaxCuts = 2
INVARIANTS TypeOK RefactorRestores ColdPlugged
PROPERTY Repairable
