CONSTANTS
  Absent = Absent
  Stems = {"heap", "tree"}
  Types = {"Node", "Leaf"}
  Names = {"sign", "size"}
  SectionOrder <- MCOrder
  Children <- MCChildren
  Start <- MCStart
  MaxChanges = 4
SPECIFICATION DocsSpec
INVARIANT EveryPageTrue
