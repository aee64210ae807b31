------------------------- MODULE DecisionLifecycleMC ------------------------
\* Three decisions, of any kind each: enough for one to be open and one to be
\* canceled while another is created in the same batch.
EXTENDS DecisionLifecycle
=============================================================================
