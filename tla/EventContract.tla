--------------------------- MODULE EventContract ---------------------------
(***************************************************************************)
(* The versioned event envelope (fraudlatch/contracts/events.py): what the *)
(* dispatcher may publish, and what a worker can read from the stream.     *)
(*                                                                         *)
(* An envelope is abstracted to the fields a check looks at.  A time is    *)
(* "aware" or "naive"; identified says that the ids are well formed and    *)
(* not empty, bounded that the payload's texts are not empty and its step  *)
(* is not negative; amount counts hundredths.                              *)
(***************************************************************************)
EXTENDS Integers

Times == {"aware", "naive"}

Payloads == [bounded : BOOLEAN, amount : Int, event_time : Times]

Envelopes ==
    [identified : BOOLEAN, event_type : {"transaction.received", "other"},
     schema_version : Nat, occurred_at : Times, payload : Payloads]

\* TransactionReceivedPayload
ValidPayload(p) == p.bounded /\ p.amount > 0 /\ p.event_time = "aware"

\* EventEnvelope.SUPPORTED_VERSIONS
SupportedVersions == [t \in {"transaction.received"} |-> {1}]

\* Mutant: the version is not looked at.
SupportedType(e) == e.event_type \in DOMAIN SupportedVersions

\* validate_schema_version
Supported(e) ==
    /\ e.event_type \in DOMAIN SupportedVersions
    /\ e.schema_version \in SupportedVersions[e.event_type]

\* EventEnvelope[TransactionReceivedPayload] accepts the fields.
ValidEnvelope(e) ==
    /\ e.identified
    /\ e.schema_version > 0
    /\ e.occurred_at = "aware"
    /\ ValidPayload(e.payload)
    /\ Supported(e)

\* deserialize_event returns: it dispatches on one type and one version before
\* it validates, and raises otherwise.
Deserializes(e) ==
    /\ e.event_type = "transaction.received"
    /\ e.schema_version = 1
    /\ ValidEnvelope(e)
=============================================================================
