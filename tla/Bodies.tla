------------------------------- MODULE Bodies -------------------------------
(***************************************************************************)
(* Bodies on their way through the tools (internal/tool): how a body is    *)
(* encoded for a request, how the bytes of a response become an envelope   *)
(*   [contentType, bodyEncoding, body],                                    *)
(* how validate_response reads what it is given, and which schema a        *)
(* response is judged by.                                                  *)
(*                                                                         *)
(* A string that is the JSON text of a value has the value as its element; *)
(* its text is "{" if it begins like an object or an array.  A content     *)
(* type is "", "json", "text" or "octets".                                 *)
(***************************************************************************)
EXTENDS Schemas, Catalog

Text(value) ==
    JSON("string", IF value.kind \in {"object", "array"} THEN "{" ELSE "5", <<>>, <<value>>)

EmptyText == Scalar("string", "")
Base64    == Scalar("string", "b64")
Bytes     == Scalar("bytes", "")     \* a payload that is no text

looksLikeJSON(value) == value.kind = "string" /\ value.text = "{"

\* json.Unmarshal of a text succeeds.
Parses(value) == value.kind = "string" /\ value.elems # <<>>

Parsed(value) == value.elems[1]

isJSONContentType(ct) == ct = "json"

-----------------------------------------------------------------------------
\* Requests

\* What is sent for the body, <<>> if it is refused.  A string that looks like JSON
\* is sent as what it says.  Bodies of bytes cannot come from a tool's input.
encodeRequestBody(body, ct) ==
    LET json == isJSONContentType(ct) \/ (ct = "" /\ looksLikeJSON(body))
    IN IF body.kind # "string" \/ ~ json THEN <<body>>
       ELSE IF Parses(body) THEN <<Parsed(body)>>
       ELSE <<>>

-----------------------------------------------------------------------------
\* Responses

\* A text that is cut short is no longer that of a value.
readResponseBodyLimited(payload, fits) == IF fits THEN payload ELSE [payload EXCEPT !.elems = <<>>]

defaultResponseContentType(ct, encoding) ==
    IF ct # "" THEN ct
    ELSE CASE encoding = "json"   -> "json"
           [] encoding = "base64" -> "octets"
           [] OTHER               -> "text"

Envelope(ct, encoding, body) ==
    [contentType |-> defaultResponseContentType(ct, encoding), bodyEncoding |-> encoding, body |-> body]

\* What execute makes of the bytes of a response.
decodeResponseBody(ct, payload) ==
    IF (isJSONContentType(ct) \/ looksLikeJSON(payload)) /\ Parses(payload)
    THEN Envelope(ct, "json", Parsed(payload))
    ELSE IF payload.kind # "bytes" THEN Envelope(ct, "text", payload)
    ELSE Envelope(ct, "base64", Base64)

\* An object with the fields of an envelope, and no other, is taken for one.
IsEnvelope(value) ==
    /\ value.kind = "object"
    /\ {"bodyEncoding", "body"} \subseteq DOMAIN value.fields
    /\ DOMAIN value.fields \subseteq {"contentType", "bodyEncoding", "body"}
    /\ value.fields["bodyEncoding"].text # ""

\* An envelope is opened, also one in another; a string that looks like JSON is read.
bodyForValidation[value \in JSONValues] ==
    IF IsEnvelope(value) THEN bodyForValidation[value.fields["body"]]
    ELSE IF looksLikeJSON(value) /\ Parses(value) THEN Parsed(value)
    ELSE value

stringifyBody(body) ==
    CASE body = Null          -> EmptyText
      [] body.kind = "string" -> body
      [] OTHER                -> Text(body)

base64Body(body) ==
    CASE body = Null          -> EmptyText
      [] body.kind = "string" -> body
      [] OTHER                -> Base64

\* Without an encoding: strings are read if they look like JSON or are said to be,
\* all other values are JSON.
normalizeByValue(ct, body) ==
    CASE body = Null -> Envelope(ct, "text", EmptyText)
      [] body.kind = "string" ->
            IF (isJSONContentType(ct) \/ looksLikeJSON(body)) /\ Parses(body)
            THEN Envelope(ct, "json", Parsed(body)) ELSE Envelope(ct, "text", body)
      [] OTHER -> Envelope(ct, "json", body)

normalizeByEncoding(ct, encoding, body) ==
    CASE encoding = "json" ->
            Envelope(ct, "json", IF looksLikeJSON(body) /\ Parses(body) THEN Parsed(body) ELSE body)
      [] encoding = "text"   -> Envelope(ct, "text", stringifyBody(body))
      [] encoding = "base64" -> Envelope(ct, "base64", base64Body(body))
      [] OTHER               -> normalizeByValue(ct, body)

\* A faulty form of normalizeResponseBody: what is given beside an envelope is lost.
normalizeEnvelopeFirst(ct, encoding, body) ==
    IF IsEnvelope(body)
    THEN normalizeByEncoding("", body.fields["bodyEncoding"].text, body.fields["body"])
    ELSE normalizeByEncoding(ct, "", body)

\* What validate_response makes of its input: an envelope given as the body fills in
\* what is not given beside it.
normalizeResponseBody(ct, encoding, body) ==
    IF ~ IsEnvelope(body) THEN normalizeByEncoding(ct, encoding, body)
    ELSE LET inner == body.fields IN
         normalizeByEncoding(
             IF ct = "" /\ "contentType" \in DOMAIN inner THEN inner["contentType"].text ELSE ct,
             IF encoding = "" THEN inner["bodyEncoding"].text ELSE encoding,
             inner["body"])

\* A faulty form of responseForStatus: the default response first.
responseDefaultFirst(e, status) ==
    LET With(s) == {r \in e.responses : r.status = s}
    IN IF With(Default) # {} THEN With(Default) ELSE With(status)

\* The response of the status itself, or else the default one.
responseForStatus(e, status) ==
    LET With(s) == {r \in e.responses : r.status = s}
    IN IF With(status) # {} THEN With(status) ELSE With(Default)

\* The issues of a response, as kinds.
validateResponse(schemas, e, status, body) ==
    LET found == responseForStatus(e, status) IN
    IF found = {} THEN {"status"}
    ELSE UNION {Issues[ResolveSchema(schemas, r.body, {})][body] :
                r \in {x \in found : x.body # NoSchema /\ body # Null}}
=============================================================================
