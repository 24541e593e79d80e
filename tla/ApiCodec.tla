------------------------------- MODULE ApiCodec -------------------------------
(***************************************************************************)
(* The JSON form of the bodies: the Encode and Decode methods of           *)
(* oas_json_gen.go.  A document is a tree; an object is the sequence of    *)
(* its members, for the order and the repetition of keys matter to Decode. *)
(*                                                                         *)
(* A Decode method fills a value that is there already: it starts from a   *)
(* target, reads member after member into it, and keeps what no member     *)
(* names.  Its result is a record with the value, whether it succeeded,    *)
(* and the required fields it reports as missing.                          *)
(***************************************************************************)
EXTENDS ApiSchema, SequencesExt

CONSTANTS
    FormatUUID,   \* the canonical form
    ParseTime,    \* the strings time.Parse accepts for RFC 3339
    FormatTime    \* the RFC 3339 form, which has no fraction of a second

ASSUME ConversionAssumption ==
    /\ FormatUUID \in [UUID -> DOMAIN ParseUUID]
    /\ \A u \in UUID : ParseUUID[FormatUUID[u]] = u
    /\ ParseTime \in [DOMAIN ParseTime -> Timestamp]
    /\ FormatTime \in [Timestamp -> DOMAIN ParseTime]
    /\ \A t \in Timestamp : FormatTime[ParseTime[FormatTime[t]]] = FormatTime[t]
    /\ DOMAIN ParseTime \subseteq Text

-----------------------------------------------------------------------------
(* Documents.                                                              *)

Str(t) == [kind |-> "string", text |-> t]
Object(members) == [kind |-> "object", members |-> members]
Array(items) == [kind |-> "array", items |-> items]
Scalar == [kind |-> "scalar"]   \* null, a number, or a Boolean

Member(k, v) == [key |-> k, val |-> v]

-----------------------------------------------------------------------------
(* Encoding.                                                               *)

EncodeRequestId(v) == Str(v)

EncodeHealthStatusStatus(s) == Str(s)

EncodeOrganizationStatus(s) == Str(s)

EncodeUUID(u) == Str(FormatUUID[u])

EncodeTimestamp(t) == Str(FormatTime[t])

EncodeErrorDetail(d) ==
    Object(<<Member("pointer", Str(d.pointer)), Member("code", Str(d.code)),
             Member("message", Str(d.message))>>)

\* Mutated: empty details are taken for none.
EncodeErrorOmitEmpty(e) ==
    Object(<<Member("code", Str(e.code)), Member("message", Str(e.message)),
             Member("requestId", EncodeRequestId(e.requestId))>>
           \o IF e.details.List # <<>>
              THEN <<Member("details", Array(
                      [i \in DOMAIN e.details.List |->
                          EncodeErrorDetail(e.details.List[i])]))>>
              ELSE <<>>)

\* The details are written unless they are nil.
EncodeError(e) ==
    Object(<<Member("code", Str(e.code)), Member("message", Str(e.message)),
             Member("requestId", EncodeRequestId(e.requestId))>>
           \o IF e.details.Set
              THEN <<Member("details", Array(
                      [i \in DOMAIN e.details.List |->
                          EncodeErrorDetail(e.details.List[i])]))>>
              ELSE <<>>)

EncodeErrorEnvelope(v) == Object(<<Member("error", EncodeError(v.error))>>)

EncodeHealthStatus(v) ==
    Object(<<Member("status", EncodeHealthStatusStatus(v.status))>>)

EncodeOrganization(v) ==
    Object(<<Member("id", EncodeUUID(v.id)), Member("name", Str(v.name)),
             Member("status", EncodeOrganizationStatus(v.status)),
             Member("createdAt", EncodeTimestamp(v.createdAt)),
             Member("updatedAt", EncodeTimestamp(v.updatedAt))>>)

-----------------------------------------------------------------------------
(* Decoding.                                                               *)

Read(v) == [ok |-> TRUE, value |-> v, missing |-> <<>>]
Refused(v) == [ok |-> FALSE, value |-> v, missing |-> <<>>]

\* Mutated: what is no string is read as an empty one.
DecodeStringLeniently(target, doc) ==
    Read(IF doc.kind = "string" THEN doc.text ELSE "")

DecodeString(target, doc) ==
    IF doc.kind = "string" THEN Read(doc.text) ELSE Refused("")

DecodeRequestId(target, doc) ==
    IF doc.kind = "string" THEN Read(doc.text) ELSE Refused(target)

\* Both Decode methods take any string, one of the enumeration or not.
DecodeHealthStatusStatus(target, doc) ==
    IF doc.kind = "string" THEN Read(doc.text) ELSE Refused(target)

DecodeOrganizationStatus(target, doc) ==
    IF doc.kind = "string" THEN Read(doc.text) ELSE Refused(target)

DecodeUUID(target, doc) ==
    IF doc.kind = "string" /\ doc.text \in DOMAIN ParseUUID
    THEN Read(ParseUUID[doc.text]) ELSE Refused(target)

DecodeTimestamp(target, doc) ==
    IF doc.kind = "string" /\ doc.text \in DOMAIN ParseTime
    THEN Read(ParseTime[doc.text]) ELSE Refused(target)

\* The names of the bits that are still set, from the lowest upwards.
Missed(names, missed) ==
    LET order == CHOOSE f \in [1 .. Cardinality(missed) -> missed] :
                    \A i, j \in 1 .. Cardinality(missed) :
                       i < j => f[i] < f[j]
    IN [i \in 1 .. Cardinality(missed) |-> names[order[i] + 1]]

\* The callback that ObjBytes is given.  A field that is there sets its bit; a
\* key that is none of the names, or a value its field cannot take, is an error.
ReadMember(state, m, names, Field(_, _, _)) ==
    IF ~state.ok THEN state
    ELSE IF ~Contains(names, m.key) THEN [state EXCEPT !.ok = FALSE]
    ELSE LET r == Field(m.key, state.value[m.key], m.val)
             bit == (CHOOSE i \in DOMAIN names : names[i] = m.key) - 1
         IN [ok |-> r.ok,
             value |-> [state.value EXCEPT ![m.key] = r.value],
             bits |-> state.bits \union {bit}]

\* One member after the other is read into the target, up to the first error.
\* The bits of mask must all be set in the end.
DecodeObject(target, doc, names, mask, Callback(_, _)) ==
    LET start == [ok |-> TRUE, value |-> target, bits |-> {}]
        final == FoldLeft(Callback, start, doc.members)
        missed == mask \ final.bits
    IN IF doc.kind # "object" THEN Refused(target)
       ELSE IF ~final.ok THEN Refused(final.value)
       ELSE IF missed # {}
            THEN [Refused(final.value) EXCEPT !.missing = Missed(names, missed)]
            ELSE Read(final.value)

NamesOfErrorDetail == <<"pointer", "code", "message">>

ErrorDetailField(k, old, val) == DecodeString(old, val)

ReadErrorDetail(state, m) ==
    ReadMember(state, m, NamesOfErrorDetail, ErrorDetailField)

DecodeErrorDetail(target, doc) ==
    DecodeObject(target, doc, NamesOfErrorDetail, 0..2, ReadErrorDetail)

ZeroErrorDetail == [pointer |-> "", code |-> "", message |-> ""]

\* The callback that Arr is given.
ReadDetail(state, item) ==
    LET r == DecodeErrorDetail(ZeroErrorDetail, item)
    IN IF state.ok /\ r.ok
       THEN Read([Set |-> TRUE, List |-> Append(state.value.List, r.value)])
       ELSE Refused(state.value)

\* Mutated: elements are appended to the slice that is there.
DecodeDetailsAppending(target, doc) ==
    IF doc.kind = "array" THEN FoldLeft(ReadDetail, Read(target), doc.items)
    ELSE Refused(target)

\* Elements are appended to an empty slice, up to the first that is refused.
DecodeDetails(target, doc) ==
    LET empty == [Set |-> TRUE, List |-> <<>>]
    IN IF doc.kind = "array" THEN FoldLeft(ReadDetail, Read(empty), doc.items)
       ELSE Refused(empty)

NamesOfError == <<"code", "message", "requestId", "details">>

ErrorField(k, old, val) ==
    CASE k \in {"code", "message"} -> DecodeString(old, val)
      [] k = "requestId" -> DecodeRequestId(old, val)
      [] k = "details" -> DecodeDetails(old, val)

ReadError(state, m) == ReadMember(state, m, NamesOfError, ErrorField)

\* The details have a bit's place in the names and no bit in the mask.
DecodeError(target, doc) ==
    DecodeObject(target, doc, NamesOfError, 0..2, ReadError)

NamesOfErrorEnvelope == <<"error">>

ErrorEnvelopeField(k, old, val) == DecodeError(old, val)

ReadErrorEnvelope(state, m) ==
    ReadMember(state, m, NamesOfErrorEnvelope, ErrorEnvelopeField)

DecodeErrorEnvelope(target, doc) ==
    DecodeObject(target, doc, NamesOfErrorEnvelope, {0}, ReadErrorEnvelope)

NamesOfHealthStatus == <<"status">>

HealthStatusField(k, old, val) == DecodeHealthStatusStatus(old, val)

ReadHealthStatus(state, m) ==
    ReadMember(state, m, NamesOfHealthStatus, HealthStatusField)

DecodeHealthStatus(target, doc) ==
    DecodeObject(target, doc, NamesOfHealthStatus, {0}, ReadHealthStatus)

NamesOfOrganization == <<"id", "name", "status", "createdAt", "updatedAt">>

OrganizationField(k, old, val) ==
    CASE k = "id" -> DecodeUUID(old, val)
      [] k = "name" -> DecodeString(old, val)
      [] k = "status" -> DecodeOrganizationStatus(old, val)
      [] k \in {"createdAt", "updatedAt"} -> DecodeTimestamp(old, val)

ReadOrganization(state, m) ==
    ReadMember(state, m, NamesOfOrganization, OrganizationField)

DecodeOrganization(target, doc) ==
    DecodeObject(target, doc, NamesOfOrganization, 0..4, ReadOrganization)

-----------------------------------------------------------------------------
(* Whole bodies.                                                           *)

BodyOf(type) == CASE type = "HealthStatusHeaders" -> "HealthStatus"
                  [] type = "OrganizationHeaders" -> "Organization"
                  [] OTHER -> "ErrorEnvelope"

EncodeBody(res) ==
    CASE BodyOf(res.type) = "HealthStatus" ->
            EncodeHealthStatus(res.value.Response)
      [] BodyOf(res.type) = "Organization" ->
            EncodeOrganization(res.value.Response)
      [] OTHER -> EncodeErrorEnvelope(res.value.Response)
=============================================================================
