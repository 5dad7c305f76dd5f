SPECIFICATION Spec
CONSTANTS
  Row <- MCRow
  Column <- MCColumn
  Cond <- BareCond
  Target <- MCTarget
  Attrs <- MCAttrs
  Holds <- MCHolds
  RemoteHolds <- MCRemoteHolds
  ForeignExpr <- MCForeignExpr
  ForeignParam <- MCForeignParam
  ForeignAggs <- MCForeignAggs
  Undeparsable <- MCUndeparsable
  Malformed <- MCMalformed
  Queries <- BareQueries
  NoInfo = NoInfo
INVARIANT AnswerIsRight
