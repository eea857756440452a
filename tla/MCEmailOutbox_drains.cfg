SPECIFICATION OutboxSpec
CONSTANTS
  schedule = schedule
  admin = admin
  Mails = 3
  Schedule = schedule
  Drainer = {schedule, admin}
  Scope <- MCScope
  Limit = 2
  Refused <- MCRefused
  MaxMailFaults = 2
INVARIANTS
  LeaseHolds
PROPERTIES
  Drains
