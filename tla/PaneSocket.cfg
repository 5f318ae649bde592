\* Interval = Timeout, as in the code.
CONSTANTS Interval = 3
          Timeout = 3
          Refs = {r1, r2, r3, r4, r5, r6, r7, r8, r9, r10, r11, r12}
          MaxMail = 3
          None = None
SPECIFICATION Spec
INVARIANTS TypeOK LiveNeverTimedOut DeadNoticedInTime OneHeartbeat
CHECK_DEADLOCK FALSE
