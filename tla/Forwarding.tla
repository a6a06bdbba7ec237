------------------------------- MODULE Forwarding -------------------------------
(***************************************************************************)
(* A request on its way through a chain of gateways, each the upstream of  *)
(* the one before: at each it gets its trace headers, is matched against   *)
(* that gateway's routes, and is sent on with the body the handler builds. *)
(*                                                                         *)
(* Composes TraceContext and RouteMatcher. Sources besides theirs: the     *)
(* handler of routes/proxy.routes.ts from the match to the call, and       *)
(* proxyRequest() of services/proxy/http-proxy.ts up to undici's request() *)
(* of a POST, which refuses a body whose length is not the content-length  *)
(* it is given. Headers other than content-length, transfer-encoding and   *)
(* the trace headers pass or are dropped, and are left out.                *)
(***************************************************************************)
EXTENDS RouteMatcher, TraceContext

CONSTANT MaxHops   \* bound on the length of the chain

ASSUME HopsAssumption == MaxHops \in Nat \ {0}

VARIABLES
    hop,       \* how many gateways the request has come to
    headers,   \* its trace headers, here
    payload,   \* its body and how it is framed
    stage,     \* what this gateway has done with it
    sent       \* the trace id at the first gateway and the payload of the client

forwardingVars == <<hop, headers, payload, stage, sent>>

\* Bodies as the content-type parsers and the handler tell them apart: none, bytes of
\* another type, a JSON string with its quotes, a bare JSON value that is no body to
\* the handler, and the text of a JSON object or array by what JSON.parse() and
\* JSON.stringify() make of it: the same text; a text of the same value, as long
\* (integer keys move to the front) or not (spaces, escapes, 1.0); a text of another
\* value, as long (9007199254740993 ends in 2) or not (the first of two equal keys
\* goes, 1e400 becomes null).
SameValue == {"compact", "reordered", "spaced"}
OtherValue == {"rounded", "reduced"}

Bodies == {"none", "bytes", "quoted", "scalar"} \cup SameValue \cup OtherValue

Payloads == {p \in [body : Bodies, length : BOOLEAN] : p.body = "none" => p.length}

-----------------------------------------------------------------------------
(* The handler *)

\* Variant of Extracted: only buffers and strings.
ExtractedText(body) ==
    CASE body \in SameValue \cup OtherValue \cup {"altered", "scalar"} -> "none"
      [] body = "quoted" -> "unquoted"
      [] OTHER -> body

\* The Buffer made of req.body: objects are serialised again, which writes an
\* `altered' value as it is, strings have lost their quotes, and numbers, booleans,
\* null and the empty string are no body at all.
Extracted(body) ==
    CASE body \in SameValue -> "compact"
      [] body \in OtherValue -> "altered"
      [] body = "quoted" -> "unquoted"
      [] body = "scalar" -> "none"
      [] OTHER -> body

\* Bodies that are there and leave the handler with another length.
Resized == {"spaced", "reduced", "quoted"}

\* undici: the length of a body that is there disagrees with content-length.
Mismatch(p) == p.length /\ p.body \in Resized

-----------------------------------------------------------------------------
(* Actions *)

\* One turn of the loop of matchRoute().
Look == (Skip \/ Found) /\ UNCHANGED forwardingVars

Matched == stage = "matching" /\ match # Unmatched

\* The handler calls the upstream. What arrives has a content-length.
Send ==
    /\ Matched
    /\ ~Mismatch(payload)
    /\ payload' = [body |-> Extracted(payload.body), length |-> TRUE]
    /\ stage' = "forwarded"
    /\ UNCHANGED <<vars, hop, headers, sent>>

\* undici refuses, and the handler answers 502.
Refuse ==
    /\ Matched
    /\ Mismatch(payload)
    /\ stage' = "refused"
    /\ UNCHANGED <<vars, hop, headers, payload, sent>>

\* The upstream is a gateway as well. It rejects a body that is not the JSON it
\* claims to be.
Relay ==
    /\ stage = "forwarded"
    /\ hop < MaxHops
    /\ payload.body # "unquoted"
    /\ NextRequest
    /\ path' = match.upstreamPath
    /\ \E random \in RandomTraces : headers' = Traced(headers, random)
    /\ hop' = hop + 1
    /\ stage' = "matching"
    /\ UNCHANGED <<payload, sent>>

\* A client's request has come to the first gateway, whose first hook traces it.
ForwardingInit ==
    /\ Init
    /\ \E client \in ClientHeaders, random \in RandomTraces :
           headers = Traced(client, random)
    /\ payload \in Payloads
    /\ sent = [trace |-> headers.b3TraceId.value, body |-> payload.body]
    /\ hop = 1
    /\ stage = "matching"

ForwardingNext == Look \/ Send \/ Refuse \/ Relay

ForwardingSpec == ForwardingInit /\ [][ForwardingNext]_<<vars, forwardingVars>>

-----------------------------------------------------------------------------
(* Properties *)

\* Any downstream service can take part in the trace (trace-id.middleware.ts):
\* along the whole chain the three headers name the trace that the first
\* gateway settled on, the x-request-id up to its dashes and padding.
TraceContinues ==
    /\ headers.traceparent = Header(sent.trace)
    /\ headers.b3TraceId = Header(sent.trace)
    /\ Normalised(headers.requestId.value) = sent.trace

\* A body that is no JSON, or is JSON whose value survives JSON.parse() and
\* JSON.stringify(), comes to every upstream with the value the client gave it or is
\* refused; whatever the body, only the first gateway refuses it, and only if
\* extracting it changes its length.
BodiesArrive ==
    LET written == IF sent.body \in SameValue THEN "compact" ELSE sent.body
    IN  /\ stage = "forwarded" /\ sent.body \in SameValue \cup {"none", "bytes"} =>
               payload.body = written
        /\ stage = "refused" => hop = 1 /\ sent.body \in Resized

=============================================================================
