CONSTANTS
    p1 = p1
    p2 = p2
    p3 = p3
    r1 = r1
    r2 = r2
    Nil = Nil
    Publishers <- MCPublishers
    Replicas <- MCReplicas
SPECIFICATION FairSpec
PROPERTY PublishCompletes
CHECK_DEADLOCK FALSE
