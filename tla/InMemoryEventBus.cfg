CONSTANTS
    s1 = s1  s2 = s2  t1 = t1  t2 = t2
    Subs = {s1, s2}
    Topics = {t1, t2}
    TopicOf <- MCTopicOf
    NoId = NoId
    CLOSE = CLOSE
    MaxSeq = 5
    QueueSize = 2
    ReplaySize = 2
SPECIFICATION Spec
INVARIANT TypeOK
INVARIANT ExactlySinceStart
PROPERTY ImplementsContract
