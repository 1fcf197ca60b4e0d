\* Two reservations on one lifetime budget that only one of them fits.
CONSTANTS
  wallet = wallet
  single = single
  Ids = {r1, r2}
  Contracts = {wallet}
  Cap <- MCCap
  Period <- MCLifetime
  CalendarStart <- MCCalendarStart
  Timeout = 1
  MaxAmount = 2
  MaxTime = 2
  MaxLag = 0
  NoRow = NoRow
SPECIFICATION Spec
INVARIANT SpendWithinLimit
