---------------------------- MODULE RetryPolicy ----------------------------
(***************************************************************************)
(* The failure policy shared by the worker and the outbox dispatcher:      *)
(* which exceptions are worth another attempt and what becomes of the      *)
(* attempt that raised one (fraudlatch/queue/retry.py).                    *)
(*                                                                         *)
(* An exception is abstracted to its kind, one per branch of               *)
(* classify_processing_error.  "database" is what SQLAlchemy raises for a  *)
(* failed statement or commit: DBAPIError and its subclasses, which are    *)
(* none of the classes the function tests for.                             *)
(***************************************************************************)
EXTENDS Naturals

TransientKinds == {"timeout", "connection", "redis", "transient"}

PermanentKinds == {"unsupported_version", "permanent", "value", "database"}

ErrorKinds == TransientKinds \cup PermanentKinds

ErrorCodes == {"dependency_timeout", "dependency_unavailable",
               "unsupported_schema_version", "invalid_event",
               "processing_error"}

ErrorCode(kind) ==
    CASE kind = "timeout" -> "dependency_timeout"
      [] kind \in {"connection", "redis", "transient"} -> "dependency_unavailable"
      [] kind = "unsupported_version" -> "unsupported_schema_version"
      [] kind \in {"permanent", "value"} -> "invalid_event"
      [] OTHER -> "processing_error"

\* Mutant: RedisError is not taken for a dependency failure.
IsTransientButRedis(kind) == kind \in TransientKinds \ {"redis"}

IsTransient(kind) == kind \in TransientKinds

MaxAttempts == 3

RetryDelaySeconds == <<1, 5>>

\* The attempts RetryPolicy.decide accepts; any other raises ValueError.
Attempts == 1 .. MaxAttempts

ShouldRetry(attempt, kind) == IsTransient(kind) /\ attempt < MaxAttempts

RetryDelay(attempt, kind) ==
    IF ShouldRetry(attempt, kind) THEN RetryDelaySeconds[attempt] ELSE 0
=============================================================================
