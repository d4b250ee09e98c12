SPECIFICATION Spec
CONSTANTS
  Client = {"a", "b"}
  RequestsOf <- MCRequestsOf
  Key = {"k1", "k2"}
  AuthorizedKeys = {"k1"}
  NaN = NaN
  Absent = Absent
  DefaultLimit = 2
  MaxLimit = 3
  StartHeight = 1
  TopHeight = 1
INVARIANTS OnlyAuthorized OneReply PageEndsAtTheHeightTold
PROPERTIES EveryCallReturns
