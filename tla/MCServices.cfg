SPECIFICATION Spec
CONSTANT Parts = {"usage", "config", "health", "token", "people", "addresses",
                  "signin", "stream", "racing", "planning", "limiter", "mitm",
                  "chat", "database", "directory", "answer", "combos", "relay",
                  "lists", "skills", "logs", "rules", "intercepts"}
INVARIANTS
    TypeOK
    
    AccountsAreOwn
    StreamFaithful
    
    
    
    
    AnswerIsWhole
    
    
PROPERTIES
    
    
    StatusFollowsUpstream
    CachedTokenLives
    
    IsTokenBucket
    TrafficServed
CHECK_DEADLOCK FALSE
