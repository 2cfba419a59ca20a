SPECIFICATION RenameSpec
CONSTANTS
  arch = arch
  tool = tool
  lib = lib
  static = static
  shared = shared
  prefix = prefix
  ch = ch
  empty = empty
  word = word
  None = None
  NoFile = NoFile
  Syms <- MCSyms
  Strs <- MCStrs
  Choices = {ch}
  InChoice <- MCInChoice
  Place <- MCPlace
  Under <- MCUnder
  Prompt <- MCPrompt
  SelectedBy <- MCSelectedBy
  Defaults <- MCDefaults
  ChoiceDefaults <- MCChoiceDefaults
  Texts = {empty, word}
  EmptyText = empty
  FirstFiles <- FirstTime
  OtherFiles <- MCOther
INVARIANT SavedIsCurrent
