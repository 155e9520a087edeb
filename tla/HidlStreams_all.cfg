\* Two streams, whose clients may die or close at any moment.
CONSTANTS
  s1 = s1
  s2 = s2
  Streams = {s1, s2}
  Served = {s1}
  Versions = {5, 7}
  Capacity = 1
  MaxCount = 2
SPECIFICATION FairSpec
INVARIANTS NothingDangles CountExact AnswerMatchesData
PROPERTIES DestructorEnds Answered
