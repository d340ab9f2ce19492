----------------------------- MODULE HttpsClient -----------------------------
(***************************************************************************)
(* HttpsClientPrivate (common/private/httpclient/httpclient_p.cpp): the    *)
(* synchronous GET and POST requests, which any thread may make, and the   *)
(* global settings they share.                                             *)
(*                                                                         *)
(* Each request has its own libcurl handle; what requests share are the    *)
(* settings, atomics that applyGlobalConfig loads one after the other      *)
(* while another thread may be storing them.  libcurl and the server are   *)
(* the environment: the server may redirect, present a bad certificate,    *)
(* break the connection or fall silent at any moment, and libcurl follows  *)
(* redirects, gives up on its time limits and calls back with what arrives.*)
(*                                                                         *)
(* Abstractions.  A header or a piece of body text is the number of the    *)
(* hop that sent it; a time limit is 0 or less for "none", and may pass at *)
(* any moment of the transfer.  Request headers, form encoding and the     *)
(* freeing of the handle are left out, and so is the CA bundle path, which *)
(* by its declaration is only set while the program starts.                *)
(***************************************************************************)
EXTENDS Integers

CONSTANTS
    Callers,        \* threads that make requests
    Keys,           \* names of response headers, in lower case
    Statuses,       \* status codes of answers that are no redirects
    Timeouts,       \* values setTimeout is called with
    MaxRedirs,      \* CURLOPT_MAXREDIRS
    Chunks,         \* pieces a response body arrives in
    MaxRequests,    \* bound: requests per thread
    MaxSets         \* bound: calls of the setters

ASSUME ConstantsAssumption ==
    /\ Statuses \subseteq Nat \ {0}
    /\ Timeouts \subseteq Int
    /\ MaxRedirs \in Nat /\ Chunks \in Nat
    /\ MaxRequests \in Nat /\ MaxSets \in Nat

VARIABLES
    verifySsl, timeout,     \* s_verifySsl, s_timeout
    pc,             \* what each thread is doing
    peer, host,     \* CURLOPT_SSL_VERIFYPEER and _VERIFYHOST of the handle
    total,          \* its CURLOPT_TIMEOUT
    hop,            \* the response that is being received, 1 for the first
    headers,        \* headerBuffer: the hop each header came from, 0 for none
    body,           \* bodyBuffer: pieces of the final response received
    status,         \* status code of the last response
    framed,         \* its end is told by a length, by chunks or by TLS, and not by
                    \* the end of the connection alone
    result,         \* CURLcode of curl_easy_perform
    resp,           \* the HttpResponse of the thread's last request
    silent,         \* the server has stopped answering
    lastKeys,       \* headers the last response has
    accepted, refused,  \* servers with a bad certificate that were accepted, and
                        \* certificates that were refused, in this request
    seen,           \* values s_verifySsl has had during this request
    requests, sets

settings == <<verifySsl, timeout>>
options == <<peer, host, total>>
transfer == <<hop, headers, body, status, framed, result, lastKeys, silent>>
history == <<accepted, refused, seen>>
bounds == <<requests, sets>>
vars == <<settings, pc, options, transfer, resp, history, bounds>>

NoHeaders == [k \in Keys |-> 0]

\* statusCode, error set or not, pieces of body, headers.
Response == [status: Nat, error: BOOLEAN, body: Nat, headers: [Keys -> Nat]]
NoResponse == [status |-> 0, error |-> FALSE, body |-> 0, headers |-> NoHeaders]
FailedResponse(n) == [status |-> 0, error |-> TRUE, body |-> n, headers |-> NoHeaders]

\* HttpResponse::ok()
Ok(r) == r.status \in 200..299 /\ ~r.error

Init ==
    /\ verifySsl = TRUE /\ timeout = 30
    /\ pc = [c \in Callers |-> "idle"]
    /\ peer = [c \in Callers |-> TRUE] /\ host = [c \in Callers |-> TRUE]
    /\ total = [c \in Callers |-> 0]
    /\ hop = [c \in Callers |-> 1]
    /\ headers = [c \in Callers |-> NoHeaders]
    /\ body = [c \in Callers |-> 0]
    /\ status = [c \in Callers |-> 0] /\ framed = [c \in Callers |-> TRUE]
    /\ result = [c \in Callers |-> "ok"]
    /\ resp = [c \in Callers |-> NoResponse]
    /\ silent = [c \in Callers |-> FALSE]
    /\ lastKeys = [c \in Callers |-> {}]
    /\ accepted = [c \in Callers |-> {}] /\ refused = [c \in Callers |-> FALSE]
    /\ seen = [c \in Callers |-> {}]
    /\ requests = [c \in Callers |-> 0] /\ sets = 0

Goto(c, label) == pc' = [pc EXCEPT ![c] = label]

-----------------------------------------------------------------------------
(* The setters, in any thread.                                             *)

SetVerifySsl(b) ==
    /\ sets < MaxSets /\ sets' = sets + 1
    /\ verifySsl' = b
    /\ seen' = [c \in Callers |-> IF pc[c] = "idle" THEN seen[c] ELSE seen[c] \cup {b}]
    /\ UNCHANGED <<timeout, pc, options, transfer, resp, accepted, refused,
                   requests>>

SetTimeout(n) ==
    /\ sets < MaxSets /\ sets' = sets + 1
    /\ timeout' = n
    /\ UNCHANGED <<verifySsl, pc, options, transfer, resp, history, requests>>

-----------------------------------------------------------------------------
(* get, postJson, postForm up to perform.                                  *)

\* curl_easy_init, the request's options and headers.
Start(c) ==
    /\ pc[c] = "idle" /\ requests[c] < MaxRequests
    /\ requests' = [requests EXCEPT ![c] = @ + 1]
    /\ hop' = [hop EXCEPT ![c] = 1]
    /\ headers' = [headers EXCEPT ![c] = NoHeaders]
    /\ body' = [body EXCEPT ![c] = 0]
    /\ status' = [status EXCEPT ![c] = 0]
    /\ framed' = [framed EXCEPT ![c] = TRUE]
    /\ result' = [result EXCEPT ![c] = "ok"]
    /\ silent' = [silent EXCEPT ![c] = FALSE]
    /\ lastKeys' = [lastKeys EXCEPT ![c] = {}]
    /\ accepted' = [accepted EXCEPT ![c] = {}]
    /\ refused' = [refused EXCEPT ![c] = FALSE]
    /\ seen' = [seen EXCEPT ![c] = {verifySsl}]
    /\ Goto(c, "verify")
    /\ UNCHANGED <<settings, options, resp, sets>>

\* curl_easy_init returned NULL.
StartFails(c) ==
    /\ pc[c] = "idle" /\ requests[c] < MaxRequests
    /\ requests' = [requests EXCEPT ![c] = @ + 1]
    /\ resp' = [resp EXCEPT ![c] = FailedResponse(0)]
    /\ UNCHANGED <<settings, pc, options, transfer, history, sets>>

\* Faulty variant: the option for the host name keeps its default.
LoadVerifyPeerOnly(c) ==
    /\ pc[c] = "verify"
    /\ peer' = [peer EXCEPT ![c] = verifySsl]
    /\ host' = [host EXCEPT ![c] = TRUE]
    /\ Goto(c, "timeout")
    /\ UNCHANGED <<settings, total, transfer, resp, history, bounds>>

\* applyGlobalConfig loads s_verifySsl once for both options.
LoadVerify(c) ==
    /\ pc[c] = "verify"
    /\ peer' = [peer EXCEPT ![c] = verifySsl]
    /\ host' = [host EXCEPT ![c] = verifySsl]
    /\ Goto(c, "timeout")
    /\ UNCHANGED <<settings, total, transfer, resp, history, bounds>>

\* libcurl refuses a negative limit, and 0, its default, means none.
TimeLimit(n) == IF n > 0 THEN n ELSE 0

LoadTimeout(c) ==
    /\ pc[c] = "timeout"
    /\ total' = [total EXCEPT ![c] = TimeLimit(timeout)]
    /\ Goto(c, "connect")
    /\ UNCHANGED <<settings, peer, host, transfer, resp, history, bounds>>

-----------------------------------------------------------------------------
(* curl_easy_perform: libcurl, its callbacks, and the server.              *)

\* curl_easy_perform returns.
Return(c, code) == result' = [result EXCEPT ![c] = code] /\ Goto(c, "finish")

\* The connection to the server of this hop, whose certificate is good, has a
\* chain that does not verify, or is for another host.
Connect(c, certificate) ==
    /\ pc[c] = "connect" /\ ~silent[c]
    /\ IF (peer[c] /\ certificate = "badChain") \/ (host[c] /\ certificate = "badName")
       THEN Return(c, "failed") /\ refused' = [refused EXCEPT ![c] = TRUE]
                                /\ UNCHANGED accepted
       ELSE /\ Goto(c, "receive")
            /\ accepted' = [accepted EXCEPT ![c] = @ \cup ({certificate} \ {"good"})]
            /\ UNCHANGED <<result, refused>>
    /\ UNCHANGED <<settings, options, hop, headers, body, status, framed, lastKeys,
                   silent, resp, seen, bounds>>

\* headerCallback for each header of a response: a key that is there already is
\* overwritten, the others stay.
HeaderCallback(c, keys) ==
    /\ headers' = [headers EXCEPT ![c] =
                     [k \in Keys |-> IF k \in keys THEN hop[c] ELSE @[k]]]
    /\ lastKeys' = [lastKeys EXCEPT ![c] = keys]

\* Faulty variant: one redirect too many is followed.
ReceiveRedirectTooMany(c, keys) ==
    /\ pc[c] = "receive" /\ ~silent[c]
    /\ HeaderCallback(c, keys)
    /\ IF hop[c] > MaxRedirs + 1
       THEN Return(c, "failed") /\ UNCHANGED hop
       ELSE /\ hop' = [hop EXCEPT ![c] = @ + 1]
            /\ Goto(c, "connect") /\ UNCHANGED result
    /\ UNCHANGED <<settings, options, body, status, framed, silent, resp, history, bounds>>

\* Faulty variant: CURLOPT_MAXREDIRS is not set.
ReceiveRedirectForever(c, keys) ==
    /\ pc[c] = "receive" /\ ~silent[c]
    /\ HeaderCallback(c, keys)
    /\ hop' = [hop EXCEPT ![c] = IF @ > MaxRedirs THEN @ ELSE @ + 1]
    /\ Goto(c, "connect") /\ UNCHANGED result
    /\ UNCHANGED <<settings, options, body, status, framed, silent, resp, history, bounds>>

\* A redirect: its body is not delivered; after MaxRedirs of them the transfer
\* fails.
ReceiveRedirect(c, keys) ==
    /\ pc[c] = "receive" /\ ~silent[c]
    /\ HeaderCallback(c, keys)
    /\ IF hop[c] > MaxRedirs
       THEN Return(c, "failed") /\ UNCHANGED hop
       ELSE /\ hop' = [hop EXCEPT ![c] = @ + 1]
            /\ Goto(c, "connect") /\ UNCHANGED result
    /\ UNCHANGED <<settings, options, body, status, framed, silent, resp, history, bounds>>

\* The headers of any other response.
ReceiveHeaders(c, keys, code, marked) ==
    /\ pc[c] = "receive" /\ ~silent[c]
    /\ HeaderCallback(c, keys)
    /\ status' = [status EXCEPT ![c] = code]
    /\ framed' = [framed EXCEPT ![c] = marked]
    /\ Goto(c, "body")
    /\ UNCHANGED <<settings, options, hop, body, result, silent, resp, history,
                   bounds>>

\* writeCallback appends a piece; after the last one the transfer is complete.
WriteCallback(c) ==
    /\ pc[c] = "body" /\ ~silent[c]
    /\ IF body[c] < Chunks
       THEN body' = [body EXCEPT ![c] = @ + 1] /\ UNCHANGED <<pc, result>>
       ELSE Return(c, "ok") /\ UNCHANGED body
    /\ UNCHANGED <<settings, options, hop, headers, status, framed, lastKeys, silent,
                   resp, history, bounds>>

Transferring(c) == pc[c] \in {"connect", "receive", "body"}

\* The connection breaks: the transfer fails, but a body that ends with the
\* connection seems complete.
Break(c) ==
    /\ Transferring(c) /\ ~silent[c]
    /\ Return(c, IF pc[c] = "body" /\ ~framed[c] THEN "ok" ELSE "failed")
    /\ UNCHANGED <<settings, options, hop, headers, body, status, framed, lastKeys,
                   silent, resp, history, bounds>>

\* The server falls silent.
FallSilent(c) ==
    /\ Transferring(c) /\ ~silent[c]
    /\ silent' = [silent EXCEPT ![c] = TRUE]
    /\ UNCHANGED <<settings, pc, options, hop, headers, body, status, framed, result,
                   lastKeys, resp, history, bounds>>

\* A time limit passes, also when the server is answering: the limit of the
\* whole request if there is one, and while connecting the connect timeout,
\* which is never unlimited (0 or less gives libcurl's 300 seconds).
TimeOut(c) ==
    /\ Transferring(c)
    /\ pc[c] = "connect" \/ total[c] > 0
    /\ Return(c, "failed")
    /\ UNCHANGED <<settings, options, hop, headers, body, status, framed, lastKeys,
                   silent, resp, history, bounds>>

-----------------------------------------------------------------------------
(* The end of perform, and of the request.                                 *)

\* Faulty variant: the result of curl_easy_perform is not looked at.
FinishIgnoresResult(c) ==
    /\ pc[c] = "finish"
    /\ resp' = [resp EXCEPT ![c] =
                  [status |-> status[c], error |-> FALSE, body |-> body[c],
                   headers |-> headers[c]]]
    /\ Goto(c, "idle")
    /\ UNCHANGED <<settings, options, transfer, history, bounds>>

\* The response is put together; a failed one keeps the body received so far.
Finish(c) ==
    /\ pc[c] = "finish"
    /\ resp' = [resp EXCEPT ![c] =
                  IF result[c] = "ok"
                  THEN [status |-> status[c], error |-> FALSE, body |-> body[c],
                        headers |-> headers[c]]
                  ELSE FailedResponse(body[c])]
    /\ Goto(c, "idle")
    /\ UNCHANGED <<settings, options, transfer, history, bounds>>

-----------------------------------------------------------------------------
Certificates == {"good", "badChain", "badName"}

Run(c) == LoadVerify(c) \/ LoadTimeout(c) \/ Finish(c)

Serve(c) ==
    \/ \E certificate \in Certificates : Connect(c, certificate)
    \/ \E keys \in SUBSET Keys : ReceiveRedirect(c, keys)
    \/ \E keys \in SUBSET Keys, code \in Statuses, marked \in BOOLEAN :
         ReceiveHeaders(c, keys, code, marked)
    \/ WriteCallback(c)
    \/ Break(c)

Next ==
    \/ \E b \in BOOLEAN : SetVerifySsl(b)
    \/ \E n \in Timeouts : SetTimeout(n)
    \/ \E c \in Callers : \/ Start(c) \/ StartFails(c) \/ Run(c) \/ Serve(c)
                          \/ FallSilent(c) \/ TimeOut(c)

Spec == Init /\ [][Next]_vars

\* A thread in a request goes on, a server that is not silent answers, and a
\* time limit passes some time.
Fairness ==
    \A c \in Callers : WF_vars(Run(c)) /\ WF_vars(Serve(c)) /\ WF_vars(TimeOut(c))

FairSpec == Spec /\ Fairness

-----------------------------------------------------------------------------
(* Properties.                                                             *)

\* Types of the variables, and the number of responses libcurl looks at.
TypeOK ==
    /\ verifySsl \in BOOLEAN /\ timeout \in Int
    /\ pc \in [Callers -> {"idle", "verify", "timeout", "connect", "receive", "body",
                           "finish"}]
    /\ peer \in [Callers -> BOOLEAN] /\ host \in [Callers -> BOOLEAN]
    /\ total \in [Callers -> Nat]
    /\ hop \in [Callers -> 1..(MaxRedirs + 1)]
    /\ headers \in [Callers -> [Keys -> 0..(MaxRedirs + 1)]]
    /\ body \in [Callers -> 0..Chunks]
    /\ status \in [Callers -> Nat] /\ framed \in [Callers -> BOOLEAN]
    /\ result \in [Callers -> {"ok", "failed"}]
    /\ resp \in [Callers -> Response]
    /\ silent \in [Callers -> BOOLEAN]
    /\ lastKeys \in [Callers -> SUBSET Keys]
    /\ accepted \in [Callers -> SUBSET Certificates]
    /\ refused \in [Callers -> BOOLEAN]
    /\ seen \in [Callers -> SUBSET BOOLEAN]
    /\ requests \in [Callers -> Nat] /\ sets \in Nat

\* A response without an error is the last response of the redirect chain: its
\* status, its value for each header it has, and all of its body if the response
\* itself tells where it ends.
\* Whatever else happened (a broken connection, a time limit that passes while
\* the last piece arrives, too many redirects), statusCode is 0 and ok() false.
ResponseComplete ==
    \A c \in Callers : pc[c] = "idle" /\ requests[c] > 0 =>
        LET r == resp[c]
        IN  IF r.error THEN r.status = 0 /\ ~Ok(r)
            ELSE /\ r.status = status[c] /\ (framed[c] => r.body = Chunks)
                 /\ \A k \in lastKeys[c] : r.headers[k] = hop[c]

\* Certificates are checked in full or not at all, whatever setVerifySsl does
\* meanwhile and on every hop: a server with a bad chain or a wrong name is
\* accepted only if verification was off at some moment of the request, and a
\* certificate is refused only if it was on at one.
VerificationAsSet ==
    \A c \in Callers :
        /\ accepted[c] # {} => FALSE \in seen[c]
        /\ refused[c] => TRUE \in seen[c]
        /\ Transferring(c) => peer[c] = host[c]

\* A request returns, through endless redirects, broken connections and silent
\* servers, unless the server falls silent after the connection is made and the
\* request found no positive timeout.
RequestsReturn ==
    \A c \in Callers :
        pc[c] # "idle" ~> \/ pc[c] = "idle"
                          \/ pc[c] # "connect" /\ silent[c] /\ total[c] = 0
=============================================================================
