------------------------------- MODULE Errors -------------------------------
(***************************************************************************)
(* How the stub tells its caller of an error that the service reports: an  *)
(* answer that carries one has a field of its own for it, and find_error   *)
(* makes an exception of the field's value.                                *)
(***************************************************************************)

\* The fields of the exceptions in shared.thrift, in whose names find_error speaks.
ThriftFields(error) ==
  CASE error \in {"sessionAlreadyExistError", "workflowAlreadyStartedError"} ->
         {"message", "startRequestId", "runId"}
    [] error = "domainNotActiveError" ->
         {"message", "domainName", "currentCluster", "activeCluster"}
    [] error = "clientVersionNotSupportedError" ->
         {"featureVersion", "clientImpl", "supportedVersions"}
    [] OTHER -> {"message"}

\* The parameters of the Python exception's constructor.
ExceptionFields(error) ==
  IF error = "clientVersionNotSupportedError"
  THEN {"feature_version", "client_impl", "supported_versions"}
  ELSE ThriftFields(error)

CADENCE_ERROR_FIELDS ==
  {"badRequestError", "internalServiceError", "domainExistsError", "sessionAlreadyExistError",
   "entityNotExistError", "serviceBusyError", "cancellationAlreadyRequestedError",
   "queryFailedError", "domainNotActiveError", "limitExceededError",
   "workflowAlreadyStartedError", "clientVersionNotSupportedError"}

\* What the caller gets: the error beside the value, or an exception when the error's
\* own cannot be made.
find_error(error) ==
  IF ThriftFields(error) = ExceptionFields(error) THEN "error" ELSE "exception"

\* What a call amounts to for its caller: an answer without an error counts as it is.
\* An error frame is raised by read_frame.
Heard(kind) ==
  IF kind = "error frame" THEN "exception"
  ELSE IF kind \in CADENCE_ERROR_FIELDS THEN find_error(kind) ELSE kind
=============================================================================
