------------------------------- MODULE MCPipe -------------------------------
EXTENDS Pipe

CONSTANTS p1, p2

\* A parent, and a child that may have a second thread.
MCTasks == {<<p1, 0>>, <<p2, 0>>, <<p2, 1>>}

\* The pipe does not look at the bytes: distinct ones show every loss and every
\* exchange.  The longer buffer does not fit into the ring.
MCBuffers == {<<>>, <<1>>, <<2, 3, 4>>}
=============================================================================
