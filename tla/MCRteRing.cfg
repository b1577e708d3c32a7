CONSTANTS
  Producers = {p1, p2}
  Consumers = {d1}
  Single = {"cons"}
  Variable = {p2, d1}
  Size = 4
  Width = 8
  Items = {"a", "b"}
  Bursts <- MCBursts
  MaxBurst = 2
  NONE = none
SPECIFICATION Spec
INVARIANTS SlotsApart TurnComes
PROPERTIES RefusedForCause ImplementsFifo
