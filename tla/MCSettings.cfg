SPECIFICATION Spec
CONSTANTS
  TextFields = {}
  SliderFields = {"minSeekingAge"}
  Values = {v1}
  Blank = Blank
  Nil = Nil
  Zero = Zero
  NoDoc = NoDoc
  MaxSaves = 2
  MaxElsewhere = 1
INVARIANTS TypeOK LoadsLastSave ScreenTruth AnsweredSaveLeaves
PROPERTY SaveKeepsTheRest
