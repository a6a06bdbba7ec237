------------------------------ MODULE TraceContext ------------------------------
(***************************************************************************)
(* The trace headers of a request and what the first hook of the pipeline  *)
(* makes of them.                                                          *)
(*                                                                         *)
(* Source: middlewares/trace-id.middleware.ts. Identifiers are sequences   *)
(* of characters, as normaliseToHex32() and the split at dashes are about  *)
(* nothing else; 32 is HexWidth. Of a `traceparent' the version, the flags *)
(* and the length of the span are left out: one that gets any of them      *)
(* wrong is malformed. The span is no more than fresh.                     *)
(***************************************************************************)
EXTENDS Integers, Sequences

CONSTANTS
    IdCharacters,  \* characters of an x-request-id
    Dash,          \* the one that separates the fields of a traceparent
    Zero,          \* the one that pads
    HexWidth,      \* characters of a trace id
    RequestIds,    \* values of x-request-id that clients send
    ClientTraces,  \* trace ids in the traceparent of a client
    RandomTraces   \* values of randomBytes(16).toString('hex')

ASSUME TraceAssumption ==
    /\ HexWidth \in Nat \ {0}
    /\ {Dash, Zero} \subseteq IdCharacters /\ Dash # Zero
    /\ RequestIds \subseteq Seq(IdCharacters)
    /\ ClientTraces \cup RandomTraces \subseteq [1 .. HexWidth -> IdCharacters \ {Dash}]

\* A header that may be missing.
Absent == [present |-> FALSE, value |-> <<>>]
Header(value) == [present |-> TRUE, value |-> value]

\* Variant of Normalised: dashes stay.
NormalisedWithDashes(id) ==
    [i \in 1 .. HexWidth |-> IF i <= Len(id) THEN id[i] ELSE Zero]

\* id.replace(/-/g, ''): dashes go.
Undashed(id) ==
    LET kept[n \in 0 .. Len(id)] ==
            IF n = 0 THEN <<>>
            ELSE IF id[n] = Dash THEN kept[n - 1] ELSE Append(kept[n - 1], id[n])
    IN  kept[Len(id)]

\* normaliseToHex32(): of what is left, zeros fill up and the rest is cut off.
Normalised(id) ==
    LET undashed == Undashed(id)
    IN  [i \in 1 .. HexWidth |-> IF i <= Len(undashed) THEN undashed[i] ELSE Zero]

\* parseTraceparent() accepts it: split at dashes, its trace id is one field of
\* the right length.
Parses(traceparent) ==
    /\ Len(traceparent) = HexWidth
    /\ \A i \in 1 .. HexWidth : traceparent[i] # Dash

\* Headers of a request: the trace id inside of `traceparent', `x-b3-traceid'
\* and `x-request-id'.
ClientHeaders ==
    [traceparent : {Absent, Header(<<Dash>>)} \cup {Header(t) : t \in ClientTraces},
     b3TraceId : {Absent},
     requestId : {Absent} \cup {Header(id) : id \in RequestIds}]

\* Steps 1 to 3 of traceIdMiddleware(): resolve the trace, and replace every
\* header by it.
TraceIds(headers, random) ==
    CASE headers.traceparent.present /\ Parses(headers.traceparent.value) ->
            [id |-> headers.traceparent.value, hex |-> headers.traceparent.value]
      [] headers.traceparent.present /\ ~Parses(headers.traceparent.value) ->
            [id |-> random, hex |-> random]
      [] ~headers.traceparent.present /\ headers.requestId.present ->
            [id |-> headers.requestId.value, hex |-> Normalised(headers.requestId.value)]
      [] OTHER -> [id |-> random, hex |-> random]

Traced(headers, random) ==
    LET trace == TraceIds(headers, random)
    IN  [traceparent |-> Header(trace.hex),
         b3TraceId |-> Header(trace.hex),
         requestId |-> Header(trace.id)]

=============================================================================
