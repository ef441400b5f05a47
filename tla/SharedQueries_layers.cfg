SPECIFICATION Spec
CONSTANTS
  Callers = {c1, c2}
  Keys = {k1, k2}
  Results = {good, bad}
  Objects = {1, 2, 3}
  Nil = Nil
  Clients = {q1, q2}
  Queried = {f1}
  States = {s1, s2}
  Failed = Failed
  Zero = Zero
INVARIANT LayerTypeOK
INVARIANT NoNilResult
INVARIANT OneRunPerKey
INVARIANT AnswersWereSaid
PROPERTY SharesCalls
PROPERTY SharesQueries
PROPERTY EveryCallerReturns
