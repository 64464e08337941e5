SPECIFICATION FairSpec
CONSTANTS
    p1 = p1  o1 = o1  d1 = d1  r1 = r1  l1 = l1  l2 = l2
    h1 = h1  t1 = t1  g1 = g1  g2 = g2  e1 = e1
    Timers = {p1, o1, d1, r1}
    OneShot = {o1, d1, r1}
    Delays = {d1, r1}
    Reentrant = {r1}
    Users = {u1}
    MaxFires = 2
    Loopers = {l1, l2}
    Ops = {"loop", "loop_for", "wait_for_tasks", "wait_for_tasks_for"}
    MaxCount = 2
    Peers = {h1, t1, g1, g2, e1}
    HttpCalls = {h1}
    TcpCalls = {t1}
    Pipelined = {g2}
    Echoed = {e1}
    Messages <- MCMessages
    Requests <- MCRequests
    HttpRequest <- MCHttpRequest
    BufferSize = 32
    MaxRequests = 2
    Posts <- MCPosts
    Programs <- MCPrograms
INVARIANTS CancelStopsTimer NothingOutlivesRuntime TimerThreadSurvives AnswersMatchRequests
           ServerKeepsUp CallEndsUnlessUnnoticed
PROPERTIES ExecutorsKeepContract DueTimersFire DestructorReturns
CHECK_DEADLOCK FALSE
