SPECIFICATION FairSpec
CONSTANT Threads = {t1, t2, t3}
INVARIANTS NoConsumerLost ResumedInOrder
           AliveWhileFinishing ToldWhenBothAreDone
PROPERTY EveryConsumerReleased
