\* Three handlers, one key, two bodies and a conversation others write to.
SPECIFICATION FairSpec
CONSTANTS
    Keys = {k1}
    Fingerprints = {f1, f2}
    Requests = {q1, q2, q3}
    Threads = {t1}
    ThreadOf <- MCOneThread
    MaxEvents = 3
    None = None
INVARIANTS InvokedOnce ToldIsFinal OneCallInFlight ReplyFollowsItsTurn ConversationMatchesJob
PROPERTIES ImplementsIdempotentCall RunningEnds
