--------------------------- MODULE MCMessageBuffer ---------------------------
EXTENDS MessageBuffer

CONSTANTS x1, x2, m1

TwoOwn == {x1, x2}
OneOther == {m1}
Counts == {1, 2}
====
