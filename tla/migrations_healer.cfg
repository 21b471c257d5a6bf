\* The Healer regenerates after a deployment, with a snapshot of its own.
SPECIFICATION Spec
CONSTANTS
  Table = {tickets}
  Column = {subject}
  Type = {text, int}
  Absent = Absent
  Generator = {forge, healer}
  MaxVersion = 3
  MaxMishaps = 0
PROPERTIES
  FilesTakeEffect
CHECK_DEADLOCK FALSE
