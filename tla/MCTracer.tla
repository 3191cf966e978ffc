------------------------------- MODULE MCTracer -------------------------------
\* A build of up to three processes or threads.
EXTENDS Tracer
=============================================================================
