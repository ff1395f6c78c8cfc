SPECIFICATION Spec
CONSTANTS
  FifoSize = 2
  Words = {w1, w2}
  Controls <- GuestControls
PROPERTIES RefinesChannel RecvEdgeRequested DrainEdgeRequested
