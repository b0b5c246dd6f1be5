CONSTANTS
    c1 = c1  c2 = c2  s1 = s1  s2 = s2  t1 = t1  t2 = t2
    Containers = {c1, c2}
    Subs = {s1}
    Topics = {t1}
    TopicOf <- MCTopicOf
    NoId = NoId
    CLOSE = CLOSE
    MaxSeq = 3
    BatchSize = 2
    QueueSize = 2
    ReplaySize = 2
    MaxRows = 3
    Environment = {"leave", "close", "crash"}
SPECIFICATION Spec
SYMMETRY Symmetry
INVARIANT ResumeIsExact
INVARIANT NothingFromBefore
