----------------------------- MODULE ApiConsumer -----------------------------
(***************************************************************************)
(* The generated server together with a program at the other end that      *)
(* reads its bodies with the UnmarshalJSON methods of the same package.    *)
(* What is read may differ from what this server writes: another version   *)
(* of the API may drop a field, add one, send one twice, or change a type. *)
(* MaxEdits bounds how many such differences a document has.               *)
(***************************************************************************)
EXTENDS OpenApiServer, ApiCodec

CONSTANTS
    MaxEdits,
    NoTime,     \* the zero instant
    EditTexts   \* the strings a changed field may hold

ASSUME EditAssumption == /\ MaxEdits \in Nat
                         /\ EditTexts \subseteq Text
                         /\ NoTime \in Timestamp

VARIABLE reader   \* the program that reads the response of an exchange

allVars == <<vars, reader>>

NoDoc == Object(<<>>)

NotRead == [step |-> "waiting", type |-> "none", doc |-> NoDoc, edits |-> 0,
            got |-> Refused(NoValue)]

ConsumerInit == Init /\ reader = [x \in Exchanges |-> NotRead]

-----------------------------------------------------------------------------
(* Documents that differ in one place.                                     *)

Leaves == {Scalar} \union {Str(t) : t \in EditTexts}

\* A member is dropped, gets another value, comes a second time, or is unknown.
Edits(doc, Others(_)) ==
    LET ms == doc.members
        Twice(i, v) == {Object([ms EXCEPT ![i] = Member(@.key, v)]),
                        Object(Append(ms, Member(ms[i].key, v)))}
    IN {Object(RemoveAt(ms, i)) : i \in DOMAIN ms}
         \union {Object(Append(ms, Member("extra", Scalar)))}
         \union UNION {UNION {Twice(i, v) : v \in Others(ms[i].val)} :
                       i \in DOMAIN ms}

ErrorEdits(doc) ==
    LET Others(val) == IF val.kind = "array" THEN {Array(<<>>), Scalar}
                       ELSE Leaves
    IN Edits(doc, Others)

\* Another value of the error member is an error that differs in its turn.
EnvelopeEdits(doc) ==
    LET Others(val) ==
            IF val.kind = "object" THEN ErrorEdits(val) \union {Scalar}
            ELSE {}
    IN Edits(doc, Others)

FlatEdits(doc) == LET Others(val) == Leaves IN Edits(doc, Others)

DocumentEdits(type, doc) ==
    IF BodyOf(type) = "ErrorEnvelope" THEN EnvelopeEdits(doc)
    ELSE FlatEdits(doc)

-----------------------------------------------------------------------------
(* Actions.                                                                *)

ServerStep == Next /\ UNCHANGED reader

\* A whole response of an operation arrives.
Deliver(x) ==
    /\ reader[x].step = "waiting"
    /\ pc[x] = "done"
    /\ result[x].type # "nil"
    /\ fault[x] = "none"
    /\ reader' = [reader EXCEPT ![x] =
          [NotRead EXCEPT !.step = "received", !.type = result[x].type,
                          !.doc = EncodeBody(out[x].body)]]
    /\ UNCHANGED vars

\* The peer has another version.
Differ(x) ==
    /\ reader[x].step = "received"
    /\ reader[x].edits < MaxEdits
    /\ reader[x].doc.members # <<>>
    /\ \E d \in DocumentEdits(reader[x].type, reader[x].doc) :
          reader' = [reader EXCEPT ![x].doc = d, ![x].edits = @ + 1]
    /\ UNCHANGED vars

ZeroError == [code |-> "", message |-> "", requestId |-> "",
              details |-> NoDetails]

\* Zero values, as the variable that is passed to UnmarshalJSON holds them.
Zero(body) ==
    CASE body = "HealthStatus" -> [status |-> ""]
      [] body = "Organization" ->
            [id |-> NoUUID, name |-> "", status |-> "",
             createdAt |-> NoTime, updatedAt |-> NoTime]
      [] body = "ErrorEnvelope" -> [error |-> ZeroError]

UnmarshalJSON(body, doc) ==
    CASE body = "HealthStatus" -> DecodeHealthStatus(Zero(body), doc)
      [] body = "Organization" -> DecodeOrganization(Zero(body), doc)
      [] body = "ErrorEnvelope" -> DecodeErrorEnvelope(Zero(body), doc)

Unmarshal(x) ==
    /\ reader[x].step = "received"
    /\ reader' = [reader EXCEPT
          ![x].step = "read",
          ![x].got = UnmarshalJSON(BodyOf(reader[x].type), reader[x].doc)]
    /\ UNCHANGED vars

ConsumerNext ==
    \/ ServerStep
    \/ \E x \in Exchanges : Deliver(x) \/ Differ(x) \/ Unmarshal(x)

ConsumerSpec == ConsumerInit /\ [][ConsumerNext]_allVars

-----------------------------------------------------------------------------
(* What a document says, without the order in which it is read.            *)

Keys(ms) == {ms[i].key : i \in DOMAIN ms}

LastOf(ms, key) ==
    LET places == {i \in DOMAIN ms : ms[i].key = key}
    IN ms[CHOOSE i \in places : \A j \in places : j =< i].val

IsString(doc) == doc.kind = "string"

Conforms(doc, required, optional, Fits(_, _)) ==
    /\ doc.kind = "object"
    /\ required \subseteq Keys(doc.members)
    /\ Keys(doc.members) \subseteq required \union optional
    /\ \A i \in DOMAIN doc.members :
          Fits(doc.members[i].key, doc.members[i].val)

ConformsErrorDetail(doc) ==
    LET Fits(k, v) == IsString(v)
    IN Conforms(doc, {"pointer", "code", "message"}, {}, Fits)

ConformsError(doc) ==
    LET Fits(k, v) ==
            IF k = "details"
            THEN /\ v.kind = "array"
                 /\ \A i \in DOMAIN v.items : ConformsErrorDetail(v.items[i])
            ELSE IsString(v)
    IN Conforms(doc, {"code", "message", "requestId"}, {"details"}, Fits)

ConformsBody(body, doc) ==
    LET Fits(k, v) ==
            CASE body = "ErrorEnvelope" -> ConformsError(v)
              [] k = "id" -> IsString(v) /\ v.text \in DOMAIN ParseUUID
              [] k \in {"createdAt", "updatedAt"} ->
                    IsString(v) /\ v.text \in DOMAIN ParseTime
              [] OTHER -> IsString(v)
    IN Conforms(doc, CASE body = "ErrorEnvelope" -> {"error"}
                       [] body = "HealthStatus" -> {"status"}
                       [] body = "Organization" ->
                             {"id", "name", "status", "createdAt", "updatedAt"},
                {}, Fits)

-----------------------------------------------------------------------------
(* Properties.                                                             *)

HasRead(x) == reader[x].step = "read"
Body(x) == BodyOf(reader[x].type)

\* What the server's Encode writes its Decode reads: nil details stay nil and
\* empty ones empty, an identifier comes back from its canonical form, and only
\* an instant loses what its form leaves out, the fraction of a second.
DecodesToSent ==
    \A x \in Exchanges :
        HasRead(x) /\ reader[x].edits = 0 =>
            LET sent == out[x].body.value.Response
                got == reader[x].got
            IN /\ got.ok
               /\ IF Body(x) # "Organization" THEN got.value = sent
                  ELSE got.value = [sent EXCEPT
                          !.createdAt = ParseTime[FormatTime[@]],
                          !.updatedAt = ParseTime[FormatTime[@]]]

\* Decode, which reads member after member, accepts exactly the documents that
\* have every required field, no unknown one, and only values that fit - every
\* occurrence of a field counts, not just the one that is kept.  The fields it
\* reports as missing are the required ones the document does not have, in the
\* order of the schema; it reports none for any other reason.
AcceptsConforming ==
    \A x \in Exchanges :
        LET doc == reader[x].doc
            got == reader[x].got
            schema == CASE Body(x) = "HealthStatus" -> NamesOfHealthStatus
                        [] Body(x) = "Organization" -> NamesOfOrganization
                        [] Body(x) = "ErrorEnvelope" -> NamesOfErrorEnvelope
            Place(name) == CHOOSE p \in DOMAIN schema : schema[p] = name
        IN HasRead(x) =>
              /\ got.ok <=> ConformsBody(Body(x), doc)
              /\ got.missing # <<>> =>
                    /\ Range(got.missing) = Range(schema) \ Keys(doc.members)
                    /\ \A i, j \in DOMAIN got.missing :
                          i < j => Place(got.missing[i]) < Place(got.missing[j])

\* A field that comes more than once is no error.  Its last value is kept - but
\* two error objects are read into one, so that optional details that only an
\* earlier one has stay behind in the result.
RepeatsMerge ==
    \A x \in Exchanges :
        HasRead(x) /\ reader[x].got.ok =>
            LET ms == reader[x].doc.members
                value == reader[x].got.value
                Part(i) == ms[i].val.members
                detailed == {i \in DOMAIN ms : "details" \in Keys(Part(i))}
            IN CASE Body(x) = "HealthStatus" ->
                       value.status = LastOf(ms, "status").text
                 [] Body(x) = "Organization" ->
                       /\ value.id = ParseUUID[LastOf(ms, "id").text]
                       /\ \A k \in {"name", "status"} :
                             value[k] = LastOf(ms, k).text
                       /\ \A k \in {"createdAt", "updatedAt"} :
                             value[k] = ParseTime[LastOf(ms, k).text]
                 [] Body(x) = "ErrorEnvelope" ->
                       /\ \A k \in {"code", "message", "requestId"} :
                             value.error[k] = LastOf(Part(Len(ms)), k).text
                       /\ value.error.details.Set <=> detailed # {}
                       /\ \A i \in detailed :
                             (\A j \in detailed : j =< i) =>
                                Len(value.error.details.List)
                                   = Len(LastOf(Part(i), "details").items)
=============================================================================
