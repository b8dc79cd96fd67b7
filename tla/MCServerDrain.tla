---------------------------- MODULE MCServerDrain ----------------------------
EXTENDS ServerDrain

\* Two connections, one of which has a request.
TwoConns == {1, 2}
OneReq == {1}
OnFirst == [r \in OneReq |-> 1]

\* One connection with more requests than it may have in flight.
OneConn == {1}
TwoReqs == {1, 2}
BothOnOne == [r \in TwoReqs |-> 1]
=============================================================================
