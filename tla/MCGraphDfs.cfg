CONSTANTS
  n1 = n1
  n2 = n2
  n3 = n3
  free = free
  MaxEdges = 3
  Nodes = {n1, n2, n3}
  Edge <- MCEdge
  EdgeLists <- MCEdgeLists
  Exclusions <- MCExclusions
SPECIFICATION Spec
INVARIANTS StackIsPath DfsCorrect GrayNeverPopped
PROPERTIES Terminates
