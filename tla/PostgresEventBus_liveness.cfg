CONSTANTS
    c1 = c1  c2 = c2  s1 = s1  s2 = s2  t1 = t1  t2 = t2
    Containers = {c1}
    Subs = {s1}
    Topics = {t1}
    TopicOf <- MCTopicOf
    NoId = NoId
    CLOSE = CLOSE
    MaxSeq = 3
    BatchSize = 3
    QueueSize = 1
    ReplaySize = 1
    MaxRows = 1
    Environment = {"leave", "close", "prune"}
SPECIFICATION FairSpec
PROPERTY EventuallyDelivered
PROPERTY CloseEndsStreams
PROPERTY OnlyBacklogOverflows
