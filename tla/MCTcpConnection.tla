--------------------------- MODULE MCTcpConnection ---------------------------
(***************************************************************************)
(* Small instances of TcpConnection: segments of two bytes.                *)
(***************************************************************************)
EXTENDS TcpConnection

Msg(len, eof) == [len |-> len, eof |-> eof]
Script(a, b) == [e \in Ends |-> IF e = "A" THEN a ELSE b]

\* A sends two messages, the last with MSG_EOF; B answers.
Exchange == Script(<<Msg(2, FALSE), Msg(2, TRUE)>>, <<Msg(2, FALSE)>>)

\* A sends two segments and closes, perhaps while it sends the first one again.
TwoSegments == Script(<<Msg(4, FALSE)>>, <<>>)

BothScripts == {Exchange, TwoSegments}
CloseScript == {TwoSegments}
=============================================================================
