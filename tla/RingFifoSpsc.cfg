\* One producer and one consumer, a fifo of five slots, whose length is
\* returned in two bits (fifo8_size with more slots than a uint8_t counts).
CONSTANTS
  p1 = p1  c1 = c1  v1 = v1  v2 = v2
  Producers = {p1}
  Consumers = {c1}
  Values = {v1, v2}
  size = 5
  Wrap = 16
  Lengths = 4
  NULL = NULL
SPECIFICATION Spec
PROPERTIES ImplementsQueue LengthOffByOneLap
