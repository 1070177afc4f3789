\* Two flow ids and room for one flow; datagrams of five and three bytes, cut
\* into two, three or one pieces.
SPECIFICATION Spec
CONSTANTS
    FlowId = {f1, f2}
    Ecn = {"NotEct", "Ect0", "Ce"}
    MaxFlows = 1
    Timeout = 2
    Align = 2
    MaxChunk = {2, 5}
    Datagram = {1, 2}
    Length <- Lengths
INVARIANTS WholeOrNothing MarksSurvive
PROPERTIES DiscardedStays DiscardEnds
