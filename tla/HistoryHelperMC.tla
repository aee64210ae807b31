--------------------------- MODULE HistoryHelperMC --------------------------
\* Answers of up to two decisions, of which one may close the workflow.
EXTENDS HistoryHelper

MCAnswers ==
  LET activity == Event("ScheduleActivityTask", 0, "")
      marker == Event("RecordMarker", 1, "change")
      complete == Event("CompleteWorkflowExecution", 0, "")
  IN  {<<>>, <<activity>>, <<marker, activity>>, <<activity, complete>>}
=============================================================================
