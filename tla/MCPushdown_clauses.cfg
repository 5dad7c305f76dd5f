SPECIFICATION Spec
CONSTANTS
  Row <- MCRow
  Column <- MCColumn
  Cond <- MCCond
  Target <- MCTarget
  Attrs <- MCAttrs
  Holds <- MCHolds
  RemoteHolds <- MCRemoteHolds
  ForeignExpr <- MCForeignExpr
  ForeignParam <- MCForeignParam
  ForeignAggs <- MCForeignAggs
  Undeparsable <- MCUndeparsable
  Malformed <- MCMalformed
  Queries <- MCQueries
  NoInfo = NoInfo
INVARIANTS TypeOK AnswerIsRight PushedAboveAllConds
