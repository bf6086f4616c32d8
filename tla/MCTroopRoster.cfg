CONSTANTS
  h1 = h1  h2 = h2  fay = fay  gus = gus  m1 = m1
  Hands = {h1, h2}
  MaxAsks = 7
  Motions = {m1}
  Amendments = {"a1"}
  Members = {fay, gus}
  Rules <- MCRules
  Thresholds = {"simple_majority"}
  MaxVersions = 2
  Missions = {1}
  Mentors = {"u"}
  MaxAppeals = 1
  MaxPlans = 1
  Subscriptions = {"motion.", "accords.", "mission.", "debrief"}
  FiledRefs <- MCFiled
  Depth = 5
  MaxRecords = 5
  WeekLen = 3
  MonthLengths <- MCLengths
  MonthsInYear = 3
  LastMonth = 22
  MaxPeriods = 3
  Schedules <- MCMeetings
  Moves = {2}
  People = {fay}
  ProbeLimit = 3
  MaxEvents = 2
  Windows = {0, 6, 14}
  Limits = {0, 2, 9}
  Items = {1, 2}
  MaxRows = 1
  Grades = {1, 3, 4}
  LastDay = 1
  MaxLog = 2
  OpenEnded = OpenEnded  Unborn = Unborn  Deleted = Deleted
  Cases = {"c1"}
  Folk = {fay, gus}
  NudgeBatch = 1
  Notices = {"n"}
  Readers = {fay}
  Acts = {"x", "y", "z"}
  MaxTries = 2
  MaxPresses = 4
  Lodges = {"fox", "elk"}
  Patrols = {"p"}
  Persons = {"a", "b"}
  Handle <- MCHandle
  Logins = {"jo"}
  Subjects = {"s", "t"}
  Called <- MCCalled
  Ranks = {"r"}
  Tasks = {"t1", "t2", "t3"}
SPECIFICATION MCSpec
INVARIANT MovedPatrolsAreCovered
CHECK_DEADLOCK FALSE
