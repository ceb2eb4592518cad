SPECIFICATION TextsSpec
CONSTANTS
  Lines = 3
  Bold = 0
  MinRun = 2
  BottomPercent = 70
  Pictures <- MarkedSheets
  Junk <- JunkPoints
  Kilo = 4
  Radix = 4
  Room0 = 2
  Contexts = {"c1", "c2", "c3"}
  MaxSlots = 2
  MaxValue = 4
  Bits = 4
  Host = "h"
  Libs = {"l"}
INVARIANTS
  SheetRecognised
  IniSound
  TextSound
  CodecSound
  Utf8Sound
  DatesSound
CHECK_DEADLOCK FALSE
