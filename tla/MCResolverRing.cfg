SPECIFICATION FairSpec
CONSTANTS
  h1 = h1
  h2 = h2
  h3 = h3
  h4 = h4
  h5 = h5
  t1 = t1
  t2 = t2
  NoRequest = NoRequest
  Handlers <- FourHandlers
  Threads <- TwoThreads
  MaxClients = 2
INVARIANT OneAnswerEach
PROPERTY QueuedIsAnswered
 
