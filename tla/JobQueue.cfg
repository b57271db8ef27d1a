SPECIFICATION FairSpec
CONSTANTS
  Threads = {t1, t2}
  Queues = {q1, q2}
  NoQueue = NoQueue
  MaxJobs = 3
INVARIANTS TypeOK OneCarrier
PROPERTIES ImplementsFairSerial
