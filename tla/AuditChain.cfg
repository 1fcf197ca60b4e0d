\* Up to four events with two contents each, and one change at any moment.
CONSTANTS
  Bodies = {b1, b2}
  Others = {o1, o2}
  Genesis = Genesis
  Forged = Forged
  NoChange = NoChange
  MaxEvents = 4
SPECIFICATION Spec
INVARIANTS TypeOK UntouchedVerifies ChangeDetected ChangeLocated
CHECK_DEADLOCK FALSE
