SPECIFICATION Spec
CONSTANTS
  ba = ba
  bb = bb
  tri = tri
  str = str
  text1 = text1
  text2 = text2
  Bools = {ba, bb}
  Tris = {tri}
  Strs = {str}
  Texts = {text1, text2}
  TriValues = {"y", "n"}
  Nobody = Nobody
  Deps <- SomeDeps
  Owners <- SomeOwners
  NextDeps <- SomeNextDeps
  Prompts <- SomePrompts
  CallValue <- RunValue
  CallEliminateYn <- RunEliminateYn
  CallExprEq <- RunExprEq
  CallCancelLoop <- RunCancelLoop
  CallTransform <- RunTransform
  CallDups1 <- RunDups1
  CallDups1Loop <- RunDups1Loop
  CallDups2 <- RunDups2
  CallDups2Loop <- RunDups2Loop
  CallEliminateDups <- RunEliminateDups
  CallTransBool <- RunTransBool
  CallCompare <- RunCompare
  CallContainsSymbol <- RunContainsSymbol
  CallIsExpr <- RunIsExpr
INVARIANTS TypeOK MeaningKept ChildNeedsParent
CHECK_DEADLOCK FALSE
