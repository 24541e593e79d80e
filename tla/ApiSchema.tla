------------------------------ MODULE ApiSchema ------------------------------
(***************************************************************************)
(* The data types of the public API, as the generated package              *)
(* backend/internal/gen/openapi declares them (oas_schemas_gen.go), and    *)
(* the Validate method of each (oas_validators_gen.go).                    *)
(*                                                                         *)
(* A Go struct is a record keyed by the names of its fields on the wire.   *)
(* A string is an element of Text of which only its length and the regular *)
(* expressions it matches are known.  A string type - RequestId and both   *)
(* Status types are string types in Go - holds any string: the language    *)
(* checks nothing, Validate does.  The result of a Validate method is the  *)
(* set of the fields it names; it returns nil when that set is empty.      *)
(***************************************************************************)
EXTENDS Integers, FiniteSets, Sequences

CONSTANTS
    Text,       \* strings
    UUID,       \* parsed identifiers
    Timestamp,  \* parsed instants
    Number,     \* integers a header may carry
    ParseUUID,  \* the strings uuid.Parse accepts, and what it returns
    Length,     \* the number of runes of a string
    Matches     \* pattern |-> the strings it matches

Patterns == {"id", "code", "etag"}

ASSUME TextAssumption ==
    /\ {"", "ok", "ACTIVE", "SUSPENDED"} \subseteq Text
    /\ Length \in [Text -> Nat]
    /\ Length[""] = 0
    /\ Matches \in [Patterns -> SUBSET Text]
    /\ Number \subseteq Int
    /\ 0 \in Number
    /\ DOMAIN ParseUUID \subseteq Text
    /\ ParseUUID \in [DOMAIN ParseUUID -> UUID]

-----------------------------------------------------------------------------
(* Optional values: the zero value when unset.                             *)

OptInt == [Value: Number, Set: BOOLEAN]

UnsetInt == [Value |-> 0, Set |-> FALSE]

OptRequestId == [Value: Text, Set: BOOLEAN]

NewOptRequestId(v) == [Value |-> v, Set |-> TRUE]

UnsetId == [Value |-> "", Set |-> FALSE]

Or(o, d) == IF o.Set THEN o.Value ELSE d

-----------------------------------------------------------------------------
(* The types of the bodies.                                                *)

ErrorDetail == [pointer: Text, code: Text, message: Text]

\* A slice of details: nil is not the empty slice.
NoDetails == [Set |-> FALSE, List |-> <<>>]

Details == {NoDetails} \union [Set: {TRUE}, List: Seq(ErrorDetail)]

Error == [code: Text, message: Text, requestId: Text, details: Details]

ErrorEnvelope == [error: Error]

HealthStatus == [status: Text]

Organization == [id: UUID, name: Text, status: Text, createdAt: Timestamp,
                 updatedAt: Timestamp]

\* The values of the two enumerations.
HealthStatusStatus == {"ok"}

OrganizationStatus == {"ACTIVE", "SUSPENDED"}

-----------------------------------------------------------------------------
(* The types of the responses: a body with its headers.                    *)

AuthenticationRequiredHeaders == [XRequestID: Text, Response: ErrorEnvelope]

BadRequestHeaders == [XRequestID: Text, Response: ErrorEnvelope]

InternalErrorHeaders == [XRequestID: Text, Response: ErrorEnvelope]

OrganizationNotFoundHeaders == [XRequestID: Text, Response: ErrorEnvelope]

PermissionDeniedHeaders == [XRequestID: Text, Response: ErrorEnvelope]

ServiceUnavailableHeaders ==
    [RetryAfter: OptInt, XRequestID: Text, Response: ErrorEnvelope]

HealthStatusHeaders == [XRequestID: Text, Response: HealthStatus]

OrganizationHeaders == [ETag: Text, XRequestID: Text, Response: Organization]

\* The interfaces GetLivenessRes, GetReadinessRes and GetOrganizationRes: the
\* types that carry the marker method of each.
ResponseTypes ==
    [getLiveness |-> {"HealthStatusHeaders", "InternalErrorHeaders"},
     getReadiness |-> {"HealthStatusHeaders", "ServiceUnavailableHeaders"},
     getOrganization |->
        {"OrganizationHeaders", "BadRequestHeaders",
         "AuthenticationRequiredHeaders", "PermissionDeniedHeaders",
         "OrganizationNotFoundHeaders", "InternalErrorHeaders"}]

ValuesOf(type) ==
    CASE type = "HealthStatusHeaders" -> HealthStatusHeaders
      [] type = "OrganizationHeaders" -> OrganizationHeaders
      [] type = "ServiceUnavailableHeaders" -> ServiceUnavailableHeaders
      [] type = "BadRequestHeaders" -> BadRequestHeaders
      [] type = "AuthenticationRequiredHeaders" -> AuthenticationRequiredHeaders
      [] type = "PermissionDeniedHeaders" -> PermissionDeniedHeaders
      [] type = "OrganizationNotFoundHeaders" -> OrganizationNotFoundHeaders
      [] type = "InternalErrorHeaders" -> InternalErrorHeaders

-----------------------------------------------------------------------------
(* Validation.                                                             *)

\* The fields of a record of checks that fail.
Failing(checks) == {f \in DOMAIN checks : ~checks[f]}

\* validate.String: bounds on the length, and a pattern if there is one.
Sized(t, min, max) == Length[t] \in min..max

ValidRequestId(v) == Sized(v, 1, 128) /\ v \in Matches["id"]

ValidHealthStatusStatus(s) == s \in HealthStatusStatus

ValidOrganizationStatus(s) == s \in OrganizationStatus

ValidateErrorDetail(d) ==
    Failing([pointer |-> Sized(d.pointer, 1, 256),
             code |-> Sized(d.code, 1, 96) /\ d.code \in Matches["code"],
             message |-> Sized(d.message, 1, 512)])

\* Absent details are valid; of present ones there may be twenty.
ValidateError(e) ==
    Failing([code |-> Sized(e.code, 1, 96) /\ e.code \in Matches["code"],
             message |-> Sized(e.message, 1, 512),
             requestId |-> ValidRequestId(e.requestId),
             details |->
                \/ ~e.details.Set
                \/ /\ Len(e.details.List) =< 20
                   /\ \A i \in DOMAIN e.details.List :
                         ValidateErrorDetail(e.details.List[i]) = {}])

ValidateErrorEnvelope(v) == Failing([error |-> ValidateError(v.error) = {}])

ValidateHealthStatus(v) ==
    Failing([status |-> ValidHealthStatusStatus(v.status)])

ValidateOrganization(v) ==
    Failing([name |-> Sized(v.name, 1, 160),
             status |-> ValidOrganizationStatus(v.status)])

\* The methods of the five error types have one text.
ValidateEnvelopeHeaders(r) ==
    Failing([XRequestID |-> ValidRequestId(r.XRequestID),
             Response |-> ValidateErrorEnvelope(r.Response) = {}])

ValidateBadRequest(r) == ValidateEnvelopeHeaders(r)

ValidateAuthenticationRequired(r) == ValidateEnvelopeHeaders(r)

ValidatePermissionDenied(r) == ValidateEnvelopeHeaders(r)

ValidateOrganizationNotFound(r) == ValidateEnvelopeHeaders(r)

ValidateInternalError(r) == ValidateEnvelopeHeaders(r)

ValidateServiceUnavailable(r) ==
    Failing([RetryAfter |-> r.RetryAfter.Set => r.RetryAfter.Value \in 1..300,
             XRequestID |-> ValidRequestId(r.XRequestID),
             Response |-> ValidateErrorEnvelope(r.Response) = {}])

ValidateHealthStatusHeaders(r) ==
    Failing([XRequestID |-> ValidRequestId(r.XRequestID),
             Response |-> ValidateHealthStatus(r.Response) = {}])

ValidateOrganizationHeaders(r) ==
    Failing([ETag |-> Sized(r.ETag, 3, 130) /\ r.ETag \in Matches["etag"],
             XRequestID |-> ValidRequestId(r.XRequestID),
             Response |-> ValidateOrganization(r.Response) = {}])

\* The Validate method of a response: which one runs is its type's.
ValidateResponse(res) ==
    CASE res.type = "HealthStatusHeaders" ->
            ValidateHealthStatusHeaders(res.value)
      [] res.type = "OrganizationHeaders" ->
            ValidateOrganizationHeaders(res.value)
      [] res.type = "ServiceUnavailableHeaders" ->
            ValidateServiceUnavailable(res.value)
      [] res.type = "BadRequestHeaders" -> ValidateBadRequest(res.value)
      [] res.type = "AuthenticationRequiredHeaders" ->
            ValidateAuthenticationRequired(res.value)
      [] res.type = "PermissionDeniedHeaders" ->
            ValidatePermissionDenied(res.value)
      [] res.type = "OrganizationNotFoundHeaders" ->
            ValidateOrganizationNotFound(res.value)
      [] res.type = "InternalErrorHeaders" -> ValidateInternalError(res.value)
=============================================================================
