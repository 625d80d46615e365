---------------------------- MODULE MCGameScreen ----------------------------
EXTENDS GameScreen

\* A field of 7 by 7 cells with two positions to a cell.
Lists == {<<<<2, 2>>, <<4, 2>>>>, <<<<4, 2>>, <<2, 2>>>>, <<<<2, 2>>, <<2, 2>>>>}
Rocks == {<<<<3, 3>>, <<1, 3>>>>, <<<<1, 3>>, <<1, 1>>>>}
MCAnywhere == {AtRest(-1, -1), AtRest(5, 4), AtRest(7, 4), AtRest(13, 20)}
MCStart == AtRest(6, 4)
MCWeight == [d2 \in Reach |-> 16 \div d2]
=============================================================================
