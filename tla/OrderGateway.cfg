\* Two requests of one client and one of another, every cut of the streams.
SPECIFICATION Spec
CONSTANTS
  c1 = c1
  c2 = c2
  Clients <- MCClients
  MaxRequests <- MCMaxRequests
  InsertionLimit = 16
INVARIANTS
  TypeOK
  RequestsInOrder
  ResponsesInOrder
PROPERTIES
  EveryRequestIsSequenced
  EveryAnswerArrives
