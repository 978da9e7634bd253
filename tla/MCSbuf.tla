--------------------------------- MODULE MCSbuf ---------------------------------
(* Small instances of the bounded buffer. *)
EXTENDS Sbuf

CONSTANTS p1, p2, c1, c2

TwoProducers == {p1, p2}
OneProducer == {p1}
TwoConsumers == {c1, c2}

================================================================================
