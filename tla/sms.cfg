SPECIFICATION SmsSpec
CONSTANTS
  n1 = n1
  n2 = n2
  Tabs = {t1, t2}
  Numbers = {n1, n2}
  Texts <- Typed
  SMS_BULK_MAX_RECIPIENTS = 2
  PageMax = 3
  MaxJobs = 2
SYMMETRY Interchangeable
INVARIANTS
  ReportAddsUp
  OncePerJob
CHECK_DEADLOCK FALSE
