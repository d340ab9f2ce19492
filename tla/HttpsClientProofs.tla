-------------------------- MODULE HttpsClientProofs --------------------------
(***************************************************************************)
(* Proofs about HttpsClient for any number of threads, headers, redirects, *)
(* pieces of a body, requests and calls of the setters.                    *)
(***************************************************************************)
EXTENDS HttpsClient, TLAPS

Labels == {"idle", "verify", "timeout", "connect", "receive", "body", "finish"}

\* TypeOK in three parts: the settings and options, the transfer, the history.
SettingsOK ==
    /\ verifySsl \in BOOLEAN /\ timeout \in Int
    /\ peer \in [Callers -> BOOLEAN] /\ host \in [Callers -> BOOLEAN]
    /\ total \in [Callers -> Nat]
    /\ requests \in [Callers -> Nat] /\ sets \in Nat

TransferOK ==
    /\ pc \in [Callers -> Labels]
    /\ hop \in [Callers -> 1..(MaxRedirs + 1)]
    /\ headers \in [Callers -> [Keys -> 0..(MaxRedirs + 1)]]
    /\ body \in [Callers -> 0..Chunks]
    /\ status \in [Callers -> Nat] /\ framed \in [Callers -> BOOLEAN]
    /\ result \in [Callers -> {"ok", "failed"}]
    /\ resp \in [Callers -> Response]
    /\ silent \in [Callers -> BOOLEAN]
    /\ lastKeys \in [Callers -> SUBSET Keys]

HistoryOK ==
    /\ accepted \in [Callers -> SUBSET Certificates]
    /\ refused \in [Callers -> BOOLEAN]
    /\ seen \in [Callers -> SUBSET BOOLEAN]

\* The headers of the last response have been stored under its hop.
HeadersOfLast(c) == \A k \in lastKeys[c] : headers[c][k] = hop[c]

\* While a body is received the headers are those of its response; a transfer that
\* ended well has all of a body whose end is marked.  What a request returned stays comparable with
\* the transfer until the next request starts.
ResponseInv ==
    \A c \in Callers :
        /\ pc[c] = "body" => HeadersOfLast(c)
        /\ pc[c] = "finish" /\ result[c] = "ok" => HeadersOfLast(c) /\ (framed[c] => body[c] = Chunks)
        /\ pc[c] = "idle" /\ requests[c] > 0 =>
             IF resp[c].error THEN resp[c].status = 0
             ELSE /\ resp[c].status = status[c] /\ (framed[c] => resp[c].body = Chunks)
                  /\ \A k \in lastKeys[c] : resp[c].headers[k] = hop[c]

\* From the moment s_verifySsl is loaded both options have a value that the
\* setting has had during the request.
VerifyInv ==
    \A c \in Callers :
        /\ accepted[c] # {} => FALSE \in seen[c]
        /\ refused[c] => TRUE \in seen[c]
        /\ pc[c] # "idle" => verifySsl \in seen[c]
        /\ pc[c] \in {"timeout", "connect", "receive", "body"} =>
             peer[c] = host[c] /\ peer[c] \in seen[c]

\* TypeOK is the conjunction of its parts.
LEMMA TypeSplit == TypeOK <=> SettingsOK /\ TransferOK /\ HistoryOK
BY DEF TypeOK, SettingsOK, TransferOK, HistoryOK, Labels

\* Responses are well formed.
LEMMA Responses ==
    /\ NoHeaders \in [Keys -> 0..(MaxRedirs + 1)]
    /\ NoResponse \in Response
    /\ \A n \in Nat : /\ FailedResponse(n) \in Response
                      /\ FailedResponse(n).error = TRUE /\ FailedResponse(n).status = 0
    /\ \A n, b \in Nat : \A f \in [Keys -> 0..(MaxRedirs + 1)] :
         [status |-> n, error |-> FALSE, body |-> b, headers |-> f] \in Response
<1>1. MaxRedirs \in Nat
  BY ConstantsAssumption
<1> QED
  BY <1>1 DEF NoHeaders, NoResponse, FailedResponse, Response

-----------------------------------------------------------------------------
(* Type correctness.                                                       *)

\* The types hold at first.
LEMMA TypeInit == Init => TypeOK
<1> SUFFICES ASSUME Init PROVE SettingsOK /\ TransferOK /\ HistoryOK
  BY TypeSplit
<1>1. SettingsOK
  BY DEF Init, SettingsOK
<1>2. TransferOK
  BY ConstantsAssumption, Responses DEF Init, TransferOK, Labels
<1>3. HistoryOK
  BY DEF Init, HistoryOK
<1> QED
  BY <1>1, <1>2, <1>3

\* The step of a redirect or of another response: headers of this hop replace
\* those of earlier ones.
LEMMA HeaderCallbackType ==
    ASSUME TransferOK, NEW c \in Callers, NEW keys \in SUBSET Keys, HeaderCallback(c, keys)
    PROVE  /\ headers' \in [Callers -> [Keys -> 0..(MaxRedirs + 1)]]
           /\ lastKeys' \in [Callers -> SUBSET Keys]
           /\ \A k \in keys : headers'[c][k] = hop[c]
           /\ lastKeys'[c] = keys
           /\ \A d \in Callers \ {c} : headers'[d] = headers[d] /\ lastKeys'[d] = lastKeys[d]
<1>1. hop[c] \in 0..(MaxRedirs + 1) /\ headers[c] \in [Keys -> 0..(MaxRedirs + 1)]
  BY ConstantsAssumption DEF TransferOK
<1> DEFINE h == [k \in Keys |-> IF k \in keys THEN hop[c] ELSE headers[c][k]]
<1>2. h \in [Keys -> 0..(MaxRedirs + 1)] /\ \A k \in keys : h[k] = hop[c]
  BY <1>1
<1>3. headers' = [headers EXCEPT ![c] = h] /\ lastKeys' = [lastKeys EXCEPT ![c] = keys]
  BY DEF HeaderCallback
<1> HIDE DEF h
<1> QED
  BY <1>2, <1>3 DEF TransferOK

\* Every step keeps the types.
LEMMA TypeStep == TypeOK /\ [Next]_vars => TypeOK'
<1> SUFFICES ASSUME TypeOK, [Next]_vars PROVE TypeOK'
  OBVIOUS
<1>s. SUFFICES SettingsOK' /\ TransferOK' /\ HistoryOK'
  BY DEF TypeOK, SettingsOK, TransferOK, HistoryOK, Labels
<1>0. SettingsOK /\ TransferOK /\ HistoryOK
  BY TypeSplit
<1>c. MaxRedirs \in Nat /\ Chunks \in Nat
  BY ConstantsAssumption
<1> USE DEF settings, options, transfer, history, bounds, Goto, Labels
<1>1. ASSUME NEW b \in BOOLEAN, SetVerifySsl(b) PROVE SettingsOK' /\ TransferOK' /\ HistoryOK'
  <2>1. SettingsOK'
    BY <1>0, <1>1 DEF SetVerifySsl, SettingsOK
  <2>2. TransferOK'
    BY <1>0, <1>1 DEF SetVerifySsl, TransferOK
  <2>3. HistoryOK'
    BY <1>0, <1>1 DEF SetVerifySsl, HistoryOK
  <2> QED  BY <2>1, <2>2, <2>3
<1>2. ASSUME NEW n \in Timeouts, SetTimeout(n) PROVE SettingsOK' /\ TransferOK' /\ HistoryOK'
  <2>1. SettingsOK'
    BY <1>0, <1>2, ConstantsAssumption DEF SetTimeout, SettingsOK
  <2>2. TransferOK'
    BY <1>0, <1>2 DEF SetTimeout, TransferOK
  <2>3. HistoryOK'
    BY <1>0, <1>2 DEF SetTimeout, HistoryOK
  <2> QED  BY <2>1, <2>2, <2>3
<1>3. ASSUME NEW c \in Callers, Start(c) PROVE SettingsOK' /\ TransferOK' /\ HistoryOK'
  <2>1. SettingsOK'
    BY <1>0, <1>3 DEF Start, SettingsOK
  <2>2. TransferOK'
    BY <1>0, <1>3, <1>c, Responses DEF Start, TransferOK
  <2>3. HistoryOK'
    BY <1>0, <1>3 DEF Start, HistoryOK, SettingsOK
  <2> QED  BY <2>1, <2>2, <2>3
<1>4. ASSUME NEW c \in Callers, StartFails(c) PROVE SettingsOK' /\ TransferOK' /\ HistoryOK'
  <2>1. SettingsOK'
    BY <1>0, <1>4 DEF StartFails, SettingsOK
  <2>2. TransferOK'
    BY <1>0, <1>4, Responses DEF StartFails, TransferOK
  <2>3. HistoryOK'
    BY <1>0, <1>4 DEF StartFails, HistoryOK
  <2> QED  BY <2>1, <2>2, <2>3
<1>5. ASSUME NEW c \in Callers, LoadVerify(c) PROVE SettingsOK' /\ TransferOK' /\ HistoryOK'
  <2>1. SettingsOK'
    BY <1>0, <1>5 DEF LoadVerify, SettingsOK
  <2>2. TransferOK'
    BY <1>0, <1>5 DEF LoadVerify, TransferOK
  <2>3. HistoryOK'
    BY <1>0, <1>5 DEF LoadVerify, HistoryOK
  <2> QED  BY <2>1, <2>2, <2>3
<1>6. ASSUME NEW c \in Callers, LoadTimeout(c) PROVE SettingsOK' /\ TransferOK' /\ HistoryOK'
  <2>1. SettingsOK'
    BY <1>0, <1>6 DEF LoadTimeout, SettingsOK, TimeLimit
  <2>2. TransferOK'
    BY <1>0, <1>6 DEF LoadTimeout, TransferOK
  <2>3. HistoryOK'
    BY <1>0, <1>6 DEF LoadTimeout, HistoryOK
  <2> QED  BY <2>1, <2>2, <2>3
<1>7. ASSUME NEW c \in Callers, NEW certificate \in Certificates, Connect(c, certificate)
      PROVE  SettingsOK' /\ TransferOK' /\ HistoryOK'
  <2>1. SettingsOK'
    BY <1>0, <1>7 DEF Connect, SettingsOK
  <2>2. TransferOK'
    BY <1>0, <1>7 DEF Connect, Return, TransferOK
  <2>3. HistoryOK'
    <3>1. seen' = seen
      BY <1>7 DEF Connect
    <3>2. \/ accepted' = accepted /\ refused' = [refused EXCEPT ![c] = TRUE]
          \/ /\ accepted' = [accepted EXCEPT ![c] = @ \cup ({certificate} \ {"good"})]
             /\ refused' = refused
      BY <1>7 DEF Connect
    <3>3. accepted' \in [Callers -> SUBSET Certificates]
      BY <1>0, <3>2 DEF HistoryOK
    <3>4. refused' \in [Callers -> BOOLEAN]
      BY <1>0, <3>2 DEF HistoryOK
    <3> QED
      BY <1>0, <3>1, <3>3, <3>4 DEF HistoryOK
  <2> QED  BY <2>1, <2>2, <2>3
<1>8. ASSUME NEW c \in Callers, NEW keys \in SUBSET Keys, ReceiveRedirect(c, keys)
      PROVE  SettingsOK' /\ TransferOK' /\ HistoryOK'
  <2>1. SettingsOK'
    BY <1>0, <1>8 DEF ReceiveRedirect, SettingsOK
  <2>2. /\ headers' \in [Callers -> [Keys -> 0..(MaxRedirs + 1)]]
        /\ lastKeys' \in [Callers -> SUBSET Keys]
    BY <1>0, <1>8, HeaderCallbackType DEF ReceiveRedirect
  <2>3. TransferOK'
    <3>1. hop' \in [Callers -> 1..(MaxRedirs + 1)]
      BY <1>0, <1>8, <1>c DEF ReceiveRedirect, TransferOK
    <3>2. pc' \in [Callers -> Labels] /\ result' \in [Callers -> {"ok", "failed"}]
      BY <1>0, <1>8 DEF ReceiveRedirect, Return, TransferOK
    <3> QED
      BY <1>0, <1>8, <2>2, <3>1, <3>2 DEF ReceiveRedirect, TransferOK
  <2>4. HistoryOK'
    BY <1>0, <1>8 DEF ReceiveRedirect, HistoryOK
  <2> QED  BY <2>1, <2>3, <2>4
<1>9. ASSUME NEW c \in Callers, NEW keys \in SUBSET Keys, NEW code \in Statuses, NEW marked \in BOOLEAN,
             ReceiveHeaders(c, keys, code, marked)
      PROVE  SettingsOK' /\ TransferOK' /\ HistoryOK'
  <2>1. SettingsOK'
    BY <1>0, <1>9 DEF ReceiveHeaders, SettingsOK
  <2>2. /\ headers' \in [Callers -> [Keys -> 0..(MaxRedirs + 1)]]
        /\ lastKeys' \in [Callers -> SUBSET Keys]
    BY <1>0, <1>9, HeaderCallbackType DEF ReceiveHeaders
  <2>3. TransferOK'
    BY <1>0, <1>9, <2>2, ConstantsAssumption DEF ReceiveHeaders, TransferOK
  <2>4. HistoryOK'
    BY <1>0, <1>9 DEF ReceiveHeaders, HistoryOK
  <2> QED  BY <2>1, <2>3, <2>4
<1>10. ASSUME NEW c \in Callers, WriteCallback(c) PROVE SettingsOK' /\ TransferOK' /\ HistoryOK'
  <2>1. SettingsOK'
    BY <1>0, <1>10 DEF WriteCallback, SettingsOK
  <2>2. TransferOK'
    <3>1. body' \in [Callers -> 0..Chunks]
      BY <1>0, <1>10, <1>c DEF WriteCallback, TransferOK
    <3>2. pc' \in [Callers -> Labels] /\ result' \in [Callers -> {"ok", "failed"}]
      BY <1>0, <1>10 DEF WriteCallback, Return, TransferOK
    <3> QED
      BY <1>0, <1>10, <3>1, <3>2 DEF WriteCallback, TransferOK
  <2>3. HistoryOK'
    BY <1>0, <1>10 DEF WriteCallback, HistoryOK
  <2> QED  BY <2>1, <2>2, <2>3
<1>11. ASSUME NEW c \in Callers, Break(c) \/ TimeOut(c) PROVE SettingsOK' /\ TransferOK' /\ HistoryOK'
  <2>1. SettingsOK'
    BY <1>0, <1>11 DEF Break, TimeOut, SettingsOK
  <2>2. TransferOK'
    BY <1>0, <1>11 DEF Break, TimeOut, Return, TransferOK
  <2>3. HistoryOK'
    BY <1>0, <1>11 DEF Break, TimeOut, HistoryOK
  <2> QED  BY <2>1, <2>2, <2>3
<1>12. ASSUME NEW c \in Callers, FallSilent(c) PROVE SettingsOK' /\ TransferOK' /\ HistoryOK'
  <2>1. SettingsOK'
    BY <1>0, <1>12 DEF FallSilent, SettingsOK
  <2>2. TransferOK'
    BY <1>0, <1>12 DEF FallSilent, TransferOK
  <2>3. HistoryOK'
    BY <1>0, <1>12 DEF FallSilent, HistoryOK
  <2> QED  BY <2>1, <2>2, <2>3
<1>13. ASSUME NEW c \in Callers, Finish(c) PROVE SettingsOK' /\ TransferOK' /\ HistoryOK'
  <2>1. SettingsOK'
    BY <1>0, <1>13 DEF Finish, SettingsOK
  <2>2. TransferOK'
    <3>1. /\ body[c] \in Nat /\ status[c] \in Nat
          /\ headers[c] \in [Keys -> 0..(MaxRedirs + 1)]
      BY <1>0, <1>c DEF TransferOK
    <3>2. PICK r \in Response : resp' = [resp EXCEPT ![c] = r]
      BY <1>13, <3>1, Responses DEF Finish
    <3> QED
      BY <1>0, <1>13, <3>2 DEF Finish, TransferOK
  <2>3. HistoryOK'
    BY <1>0, <1>13 DEF Finish, HistoryOK
  <2> QED  BY <2>1, <2>2, <2>3
<1>14. CASE UNCHANGED vars
  <2>1. SettingsOK'
    BY <1>0, <1>14 DEF vars, SettingsOK
  <2>2. TransferOK'
    BY <1>0, <1>14 DEF vars, TransferOK
  <2>3. HistoryOK'
    BY <1>0, <1>14 DEF vars, HistoryOK
  <2> QED  BY <2>1, <2>2, <2>3
<1> QED
  BY <1>1, <1>2, <1>3, <1>4, <1>5, <1>6, <1>7, <1>8, <1>9, <1>10, <1>11, <1>12, <1>13,
     <1>14 DEF Next, Run, Serve

\* Whatever the server and the setters do, the variables keep their types and no
\* more than MaxRedirs redirects are followed.
THEOREM TypeCorrect == Spec => []TypeOK
<1>1. Init => TypeOK
  BY TypeInit
<1>2. TypeOK /\ [Next]_vars => TypeOK'
  BY TypeStep
<1> QED
  BY <1>1, <1>2, PTL DEF Spec

-----------------------------------------------------------------------------
(* Verification.                                                           *)

\* A step of the transfer that touches neither the options, nor the settings, nor
\* the history, and starts no transfer.
LEMMA VerifyQuiet ==
    ASSUME TypeOK, VerifyInv, NEW c \in Callers,
           UNCHANGED <<verifySsl, peer, host, accepted, refused, seen>>,
           NEW l, pc' = [pc EXCEPT ![c] = l], pc[c] # "idle",
           l \in {"connect", "receive", "body"} =>
             pc[c] \in {"timeout", "connect", "receive", "body"},
           l \notin {"verify", "timeout"}
    PROVE  VerifyInv'
BY DEF VerifyInv, TypeOK

\* Every step keeps VerifyInv: a setter that runs adds its value to those the
\* request has seen.
LEMMA VerifyStep == TypeOK /\ VerifyInv /\ [Next]_vars => VerifyInv'
<1> SUFFICES ASSUME TypeOK, VerifyInv, [Next]_vars PROVE VerifyInv'
  OBVIOUS
<1>p. pc \in [Callers -> Labels] /\ verifySsl \in BOOLEAN
  BY DEF TypeOK, Labels
<1> USE DEF settings, options, transfer, history, bounds, Goto
<1>1. ASSUME NEW b \in BOOLEAN, SetVerifySsl(b) PROVE VerifyInv'
  BY <1>1 DEF SetVerifySsl, VerifyInv
<1>2. ASSUME NEW n \in Timeouts, SetTimeout(n) PROVE VerifyInv'
  BY <1>2 DEF SetTimeout, VerifyInv
<1>3. ASSUME NEW c \in Callers, Start(c) PROVE VerifyInv'
  <2>1. /\ accepted'[c] = {} /\ ~refused'[c] /\ seen'[c] = {verifySsl} /\ pc'[c] = "verify"
        /\ verifySsl' = verifySsl
        /\ \A d \in Callers \ {c} :
             /\ accepted'[d] = accepted[d] /\ refused'[d] = refused[d]
             /\ seen'[d] = seen[d] /\ pc'[d] = pc[d]
             /\ peer'[d] = peer[d] /\ host'[d] = host[d]
    BY <1>3 DEF Start, TypeOK
  <2> QED
    BY <2>1 DEF VerifyInv
<1>4. ASSUME NEW c \in Callers, StartFails(c) PROVE VerifyInv'
  BY <1>4 DEF StartFails, VerifyInv
<1>5. ASSUME NEW c \in Callers, LoadVerify(c) PROVE VerifyInv'
  <2>1. /\ pc[c] = "verify" /\ pc' = [pc EXCEPT ![c] = "timeout"]
        /\ peer' = [peer EXCEPT ![c] = verifySsl] /\ host' = [host EXCEPT ![c] = verifySsl]
        /\ UNCHANGED <<verifySsl, accepted, refused, seen>>
    BY <1>5 DEF LoadVerify
  <2>2. /\ pc'[c] = "timeout" /\ peer'[c] = verifySsl /\ host'[c] = verifySsl
        /\ \A d \in Callers \ {c} :
             pc'[d] = pc[d] /\ peer'[d] = peer[d] /\ host'[d] = host[d]
    BY <2>1 DEF TypeOK
  <2> QED
    BY <2>1, <2>2 DEF VerifyInv
<1>6. ASSUME NEW c \in Callers, LoadTimeout(c) PROVE VerifyInv'
  BY <1>6, VerifyQuiet DEF LoadTimeout
<1>7. ASSUME NEW c \in Callers, NEW certificate \in Certificates, Connect(c, certificate)
      PROVE  VerifyInv'
  <2>1. /\ pc[c] = "connect" /\ UNCHANGED <<verifySsl, peer, host, seen>>
        /\ peer[c] = host[c] /\ peer[c] \in seen[c] /\ peer[c] \in BOOLEAN
        /\ verifySsl \in seen[c]
    BY <1>7 DEF Connect, VerifyInv, TypeOK
  <2>2. CASE (peer[c] /\ certificate = "badChain") \/ (host[c] /\ certificate = "badName")
    <3>1. /\ refused' = [refused EXCEPT ![c] = TRUE] /\ UNCHANGED accepted
          /\ pc' = [pc EXCEPT ![c] = "finish"]
      BY <1>7, <2>2 DEF Connect, Return
    <3>2. TRUE \in seen[c]
      BY <2>1, <2>2
    <3>3. /\ pc'[c] = "finish"
          /\ \A d \in Callers \ {c} : pc'[d] = pc[d] /\ refused'[d] = refused[d]
      BY <3>1 DEF TypeOK
    <3> QED
      BY <2>1, <3>1, <3>2, <3>3 DEF VerifyInv
  <2>3. CASE ~((peer[c] /\ certificate = "badChain") \/ (host[c] /\ certificate = "badName"))
    <3>1. /\ accepted' = [accepted EXCEPT ![c] = @ \cup ({certificate} \ {"good"})]
          /\ UNCHANGED refused /\ pc' = [pc EXCEPT ![c] = "receive"]
      BY <1>7, <2>3 DEF Connect
    <3>2. certificate = "good" \/ FALSE \in seen[c]
      BY <2>1, <2>3 DEF Certificates
    <3>3. /\ pc'[c] = "receive"
          /\ accepted'[c] = accepted[c] \cup ({certificate} \ {"good"})
          /\ \A d \in Callers \ {c} : pc'[d] = pc[d] /\ accepted'[d] = accepted[d]
      BY <3>1 DEF TypeOK
    <3>4. accepted'[c] # {} => FALSE \in seen[c]
      BY <3>2, <3>3 DEF VerifyInv
    <3> QED
      BY <2>1, <3>1, <3>3, <3>4 DEF VerifyInv
  <2> QED
    BY <2>2, <2>3
<1>8. ASSUME NEW c \in Callers, NEW keys \in SUBSET Keys, ReceiveRedirect(c, keys)
      PROVE  VerifyInv'
  <2>1. /\ pc[c] = "receive" /\ UNCHANGED <<verifySsl, peer, host, accepted, refused, seen>>
        /\ \/ pc' = [pc EXCEPT ![c] = "finish"] \/ pc' = [pc EXCEPT ![c] = "connect"]
    BY <1>8 DEF ReceiveRedirect, Return
  <2> QED
    BY <2>1, VerifyQuiet
<1>9. ASSUME NEW c \in Callers, NEW keys \in SUBSET Keys, NEW code \in Statuses, NEW marked \in BOOLEAN,
             ReceiveHeaders(c, keys, code, marked)
      PROVE  VerifyInv'
  <2>1. /\ pc[c] = "receive" /\ UNCHANGED <<verifySsl, peer, host, accepted, refused, seen>>
        /\ pc' = [pc EXCEPT ![c] = "body"]
    BY <1>9 DEF ReceiveHeaders
  <2>2. /\ pc[c] # "idle" /\ pc[c] \in {"timeout", "connect", "receive", "body"}
        /\ "body" \notin {"verify", "timeout"}
    BY <2>1
  <2> QED
    BY <2>1, <2>2, VerifyQuiet
<1>10. ASSUME NEW c \in Callers, WriteCallback(c) PROVE VerifyInv'
  <2>1. /\ pc[c] = "body" /\ UNCHANGED <<verifySsl, peer, host, accepted, refused, seen>>
        /\ \/ pc' = [pc EXCEPT ![c] = "finish"] \/ UNCHANGED pc
    BY <1>10 DEF WriteCallback, Return
  <2>2. CASE UNCHANGED pc
    BY <2>1, <2>2 DEF VerifyInv
  <2> QED
    BY <2>1, <2>2, VerifyQuiet
<1>11. ASSUME NEW c \in Callers, Break(c) \/ TimeOut(c) PROVE VerifyInv'
  <2>1. /\ pc[c] # "idle" /\ UNCHANGED <<verifySsl, peer, host, accepted, refused, seen>>
        /\ pc' = [pc EXCEPT ![c] = "finish"]
    BY <1>11 DEF Break, TimeOut, Return, Transferring
  <2>2. "finish" \notin {"connect", "receive", "body", "verify", "timeout"}
    OBVIOUS
  <2> QED
    BY <2>1, <2>2, VerifyQuiet
<1>12. ASSUME NEW c \in Callers, FallSilent(c) PROVE VerifyInv'
  BY <1>12 DEF FallSilent, VerifyInv
<1>13. ASSUME NEW c \in Callers, Finish(c) PROVE VerifyInv'
  BY <1>13, VerifyQuiet DEF Finish
<1>14. CASE UNCHANGED vars
  BY <1>14 DEF vars, VerifyInv
<1> QED
  BY <1>1, <1>2, <1>3, <1>4, <1>5, <1>6, <1>7, <1>8, <1>9, <1>10, <1>11, <1>12, <1>13,
     <1>14 DEF Next, Run, Serve

\* However the setters interleave with requests, certificates are verified in full
\* or not at all, by a value the setting had during the request.
THEOREM VerificationAlwaysAsSet == Spec => []VerificationAsSet
<1>1. Init => VerifyInv
  <2> SUFFICES ASSUME Init, NEW c \in Callers
               PROVE  accepted[c] = {} /\ ~refused[c] /\ pc[c] = "idle"
    BY DEF VerifyInv
  <2>1. accepted[c] = {} /\ pc[c] = "idle"
    BY DEF Init
  <2>2. ~refused[c]
    BY DEF Init
  <2> QED
    BY <2>1, <2>2
<1>2. TypeOK /\ VerifyInv /\ [Next]_vars => VerifyInv'
  BY VerifyStep
<1>3. VerifyInv => VerificationAsSet
  BY DEF VerifyInv, VerificationAsSet, Transferring
<1> QED
  BY <1>1, <1>2, <1>3, TypeCorrect, PTL DEF Spec

-----------------------------------------------------------------------------
(* Responses.                                                              *)

\* A step of one request does not change what ResponseInv says of the others.
LEMMA ResponseOthers ==
    ASSUME TypeOK, ResponseInv, NEW c \in Callers,
           \A d \in Callers \ {c} :
             /\ pc'[d] = pc[d] /\ result'[d] = result[d] /\ headers'[d] = headers[d]
             /\ lastKeys'[d] = lastKeys[d] /\ hop'[d] = hop[d] /\ body'[d] = body[d]
             /\ requests'[d] = requests[d] /\ resp'[d] = resp[d] /\ status'[d] = status[d]
             /\ framed'[d] = framed[d],
           pc'[c] = "body" => HeadersOfLast(c)',
           pc'[c] = "finish" /\ result'[c] = "ok" => HeadersOfLast(c)' /\ (framed'[c] => body'[c] = Chunks),
           pc'[c] = "idle" =>
             IF resp'[c].error THEN resp'[c].status = 0
             ELSE /\ resp'[c].status = status'[c] /\ (framed'[c] => resp'[c].body = Chunks)
                  /\ \A k \in lastKeys'[c] : resp'[c].headers[k] = hop'[c]
    PROVE  ResponseInv'
<1> SUFFICES ASSUME NEW d \in Callers
             PROVE  (/\ pc[d] = "body" => HeadersOfLast(d)
                     /\ pc[d] = "finish" /\ result[d] = "ok" => HeadersOfLast(d) /\ (framed[d] => body[d] = Chunks)
                     /\ pc[d] = "idle" /\ requests[d] > 0 =>
                          IF resp[d].error THEN resp[d].status = 0
                          ELSE /\ resp[d].status = status[d] /\ (framed[d] => resp[d].body = Chunks)
                               /\ \A k \in lastKeys[d] : resp[d].headers[k] = hop[d])'
  BY DEF ResponseInv
<1>1. CASE d = c
  BY <1>1
<1>2. CASE d # c
  BY <1>2 DEF ResponseInv, HeadersOfLast
<1> QED
  BY <1>1, <1>2

\* Every step keeps ResponseInv: a redirect makes the headers and the body start
\* again.
LEMMA ResponseStep == TypeOK /\ ResponseInv /\ [Next]_vars => ResponseInv'
<1> SUFFICES ASSUME TypeOK, ResponseInv, [Next]_vars PROVE ResponseInv'
  OBVIOUS
<1> USE DEF settings, options, transfer, history, bounds, Goto
<1>0. /\ TransferOK /\ requests \in [Callers -> Nat]
  BY TypeSplit DEF SettingsOK
<1>1. ASSUME UNCHANGED <<pc, transfer, resp, requests>> PROVE ResponseInv'
  BY <1>1 DEF ResponseInv, HeadersOfLast
<1>2. ASSUME NEW b \in BOOLEAN, SetVerifySsl(b) PROVE ResponseInv'
  BY <1>1, <1>2 DEF SetVerifySsl
<1>3. ASSUME NEW n \in Timeouts, SetTimeout(n) PROVE ResponseInv'
  BY <1>1, <1>3 DEF SetTimeout
<1>4. ASSUME NEW c \in Callers, Start(c) PROVE ResponseInv'
  <2>1. pc'[c] = "verify"
    BY <1>0, <1>4 DEF Start, TransferOK
  <2> QED
    BY <1>0, <1>4, <2>1, ResponseOthers DEF Start, TransferOK
<1>5. ASSUME NEW c \in Callers, StartFails(c) PROVE ResponseInv'
  <2>1. resp'[c] = FailedResponse(0) /\ pc' = pc /\ pc[c] = "idle"
    BY <1>0, <1>5 DEF StartFails, TransferOK
  <2>2. resp'[c].error = TRUE /\ resp'[c].status = 0
    BY <2>1, Responses
  <2> QED
    BY <1>0, <1>5, <2>1, <2>2, ResponseOthers DEF StartFails, TransferOK
\* Steps within a request before the answer.
<1>6. ASSUME NEW c \in Callers, NEW l, pc' = [pc EXCEPT ![c] = l],
             l \notin {"body", "finish", "idle"},
             UNCHANGED <<result, body, requests, resp, status, framed>>,
             \A d \in Callers \ {c} : /\ headers'[d] = headers[d] /\ hop'[d] = hop[d]
                                      /\ lastKeys'[d] = lastKeys[d]
      PROVE  ResponseInv'
  <2>1. pc'[c] = l /\ \A d \in Callers \ {c} : pc'[d] = pc[d]
    BY <1>0, <1>6 DEF TransferOK
  <2> QED
    BY <1>6, <2>1, ResponseOthers
\* The transfer fails.
<1>7. ASSUME NEW c \in Callers, pc' = [pc EXCEPT ![c] = "finish"],
             result' = [result EXCEPT ![c] = "failed"],
             UNCHANGED <<hop, body, requests, resp, status, framed>>,
             \A d \in Callers \ {c} : headers'[d] = headers[d] /\ lastKeys'[d] = lastKeys[d]
      PROVE  ResponseInv'
  <2>1. /\ pc'[c] = "finish" /\ result'[c] = "failed"
        /\ \A d \in Callers \ {c} : pc'[d] = pc[d] /\ result'[d] = result[d]
    BY <1>0, <1>7 DEF TransferOK
  <2> QED
    BY <1>7, <2>1, ResponseOthers
<1>8. ASSUME NEW c \in Callers, LoadVerify(c) \/ LoadTimeout(c) PROVE ResponseInv'
  <2>1. CASE LoadVerify(c)
    BY <2>1, <1>6 DEF LoadVerify
  <2>2. CASE LoadTimeout(c)
    BY <2>2, <1>6 DEF LoadTimeout
  <2> QED
    BY <1>8, <2>1, <2>2
<1>9. ASSUME NEW c \in Callers, NEW certificate \in Certificates, Connect(c, certificate)
      PROVE  ResponseInv'
  <2>1. UNCHANGED <<hop, headers, lastKeys, body, requests, resp, status, framed>>
    BY <1>9 DEF Connect
  <2>2. \/ pc' = [pc EXCEPT ![c] = "finish"] /\ result' = [result EXCEPT ![c] = "failed"]
        \/ pc' = [pc EXCEPT ![c] = "receive"] /\ UNCHANGED result
    BY <1>9 DEF Connect, Return
  <2> QED
    BY <2>1, <2>2, <1>6, <1>7
<1>10. ASSUME NEW c \in Callers, NEW keys \in SUBSET Keys, ReceiveRedirect(c, keys)
       PROVE  ResponseInv'
  <2>1. /\ UNCHANGED <<body, requests, resp, status, framed>>
        /\ \A d \in Callers \ {c} : headers'[d] = headers[d] /\ lastKeys'[d] = lastKeys[d]
    BY <1>0, <1>10, HeaderCallbackType DEF ReceiveRedirect
  <2>2. \/ /\ pc' = [pc EXCEPT ![c] = "finish"] /\ result' = [result EXCEPT ![c] = "failed"]
           /\ UNCHANGED hop
        \/ /\ pc' = [pc EXCEPT ![c] = "connect"] /\ UNCHANGED result
           /\ hop' = [hop EXCEPT ![c] = @ + 1]
    BY <1>10 DEF ReceiveRedirect, Return
  <2>3. \A d \in Callers \ {c} : hop'[d] = hop[d]
    BY <1>0, <2>2 DEF TransferOK
  <2> QED
    BY <2>1, <2>2, <2>3, <1>6, <1>7
<1>11. ASSUME NEW c \in Callers, NEW keys \in SUBSET Keys, NEW code \in Statuses, NEW marked \in BOOLEAN,
              ReceiveHeaders(c, keys, code, marked)
       PROVE  ResponseInv'
  <2>1. /\ \A d \in Callers \ {c} : headers'[d] = headers[d] /\ lastKeys'[d] = lastKeys[d]
        /\ \A k \in keys : headers'[c][k] = hop[c]
        /\ lastKeys'[c] = keys
    BY <1>0, <1>11, HeaderCallbackType DEF ReceiveHeaders
  <2>2. /\ UNCHANGED <<hop, body, result, requests, resp>>
        /\ pc'[c] = "body" /\ \A d \in Callers \ {c} : pc'[d] = pc[d] /\ status'[d] = status[d] /\ framed'[d] = framed[d]
    BY <1>0, <1>11 DEF ReceiveHeaders, TransferOK
  <2>3. HeadersOfLast(c)'
    BY <2>1, <2>2 DEF HeadersOfLast
  <2> QED
    BY <2>1, <2>2, <2>3, ResponseOthers
<1>12. ASSUME NEW c \in Callers, WriteCallback(c) PROVE ResponseInv'
  <2>1. /\ pc[c] = "body" /\ UNCHANGED <<hop, headers, lastKeys, status, framed, resp, requests>>
        /\ \/ /\ UNCHANGED <<pc, result>> /\ body' = [body EXCEPT ![c] = @ + 1]
           \/ /\ pc' = [pc EXCEPT ![c] = "finish"] /\ UNCHANGED body /\ ~(body[c] < Chunks)
              /\ result' = [result EXCEPT ![c] = "ok"]
    BY <1>12 DEF WriteCallback, Return
  <2>2. HeadersOfLast(c)'
    BY <2>1 DEF ResponseInv, HeadersOfLast
  <2>3. body[c] \in 0..Chunks /\ Chunks \in Nat
    BY <1>0, ConstantsAssumption DEF TransferOK
  <2>4. CASE UNCHANGED <<pc, result>> /\ body' = [body EXCEPT ![c] = @ + 1]
    <3>1. \A d \in Callers \ {c} : body'[d] = body[d]
      BY <1>0, <2>4 DEF TransferOK
    <3> QED
      BY <2>1, <2>2, <2>4, <3>1, ResponseOthers
  <2>5. CASE /\ pc' = [pc EXCEPT ![c] = "finish"] /\ UNCHANGED body /\ ~(body[c] < Chunks)
             /\ result' = [result EXCEPT ![c] = "ok"]
    <3>0. body'[c] = Chunks
      BY <2>3, <2>5
    <3>1. /\ body'[c] = Chunks /\ pc'[c] = "finish"
          /\ \A d \in Callers \ {c} : pc'[d] = pc[d] /\ result'[d] = result[d]
      BY <1>0, <2>5, <3>0 DEF TransferOK
    <3> QED
      BY <2>1, <2>2, <2>5, <3>1, ResponseOthers
  <2> QED
    BY <2>1, <2>4, <2>5
<1>13. ASSUME NEW c \in Callers, Break(c) \/ TimeOut(c) PROVE ResponseInv'
  <2>1. /\ pc' = [pc EXCEPT ![c] = "finish"]
        /\ \/ result' = [result EXCEPT ![c] = "failed"]
           \/ result' = [result EXCEPT ![c] = "ok"] /\ pc[c] = "body" /\ ~framed[c]
        /\ UNCHANGED <<hop, headers, lastKeys, body, requests, resp, status, framed>>
    BY <1>13 DEF Break, TimeOut, Return
  <2>2. CASE result' = [result EXCEPT ![c] = "ok"] /\ pc[c] = "body" /\ ~framed[c]
    <3>1. HeadersOfLast(c)' /\ ~framed'[c]
      BY <2>1, <2>2 DEF ResponseInv, HeadersOfLast
    <3>2. /\ pc'[c] = "finish"
          /\ \A d \in Callers \ {c} : pc'[d] = pc[d] /\ result'[d] = result[d]
      BY <1>0, <2>1, <2>2 DEF TransferOK
    <3> QED
      BY <2>1, <3>1, <3>2, ResponseOthers
  <2> QED
    BY <2>1, <2>2, <1>7
<1>14. ASSUME NEW c \in Callers, FallSilent(c) PROVE ResponseInv'
  BY <1>14 DEF FallSilent, ResponseInv, HeadersOfLast
<1>15. ASSUME NEW c \in Callers, Finish(c) PROVE ResponseInv'
  <2>1. /\ pc[c] = "finish" /\ UNCHANGED <<transfer, requests>>
        /\ pc'[c] = "idle"
        /\ \A d \in Callers \ {c} : pc'[d] = pc[d] /\ resp'[d] = resp[d]
        /\ resp'[c] = IF result[c] = "ok"
                      THEN [status |-> status[c], error |-> FALSE, body |-> body[c],
                            headers |-> headers[c]]
                      ELSE FailedResponse(body[c])
    BY <1>0, <1>15 DEF Finish, TransferOK
  <2>2. CASE result[c] = "ok"
    <3>1. HeadersOfLast(c) /\ (framed[c] => body[c] = Chunks)
      BY <2>1, <2>2 DEF ResponseInv
    <3>2. /\ resp'[c].error = FALSE /\ resp'[c].status = status[c] /\ (framed'[c] => resp'[c].body = Chunks)
          /\ resp'[c].headers = headers[c]
      BY <2>1, <2>2, <3>1
    <3> QED
      BY <2>1, <3>1, <3>2, ResponseOthers DEF HeadersOfLast
  <2>3. CASE result[c] # "ok"
    <3>1. body[c] \in Nat
      BY <1>0, ConstantsAssumption DEF TransferOK
    <3>2. resp'[c].error = TRUE /\ resp'[c].status = 0
      BY <2>1, <2>3, <3>1, Responses
    <3> QED
      BY <2>1, <3>2, ResponseOthers
  <2> QED
    BY <2>2, <2>3
<1>16. CASE UNCHANGED vars
  BY <1>1, <1>16 DEF vars
<1> QED
  BY <1>2, <1>3, <1>4, <1>5, <1>8, <1>9, <1>10, <1>11, <1>12, <1>13, <1>14, <1>15, <1>16
     DEF Next, Run, Serve

\* A response without an error is the last response of the redirect chain, whole if
\* its end is marked, and one with an error has status 0 and is not ok().
THEOREM ResponsesComplete == Spec => []ResponseComplete
<1>1. Init => ResponseInv
  <2> SUFFICES ASSUME Init PROVE ResponseInv
    OBVIOUS
  <2>1. \A c \in Callers : pc[c] = "idle" /\ requests[c] = 0
    BY DEF Init
  <2>2. ASSUME NEW c \in Callers
        PROVE  pc[c] # "body" /\ pc[c] # "finish" /\ ~(requests[c] > 0)
    <3>1. pc[c] # "body" /\ pc[c] # "finish"
      BY <2>1
    <3>2. ~(0 > 0)
      OBVIOUS
    <3> QED
      BY <2>1, <3>1, <3>2, Zenon
  <2> QED
    BY <2>2, Zenon DEF ResponseInv
<1>2. TypeOK /\ ResponseInv /\ [Next]_vars => ResponseInv'
  BY ResponseStep
<1>3. ResponseInv => ResponseComplete
  BY DEF ResponseInv, ResponseComplete, Ok
<1> QED
  BY <1>1, <1>2, <1>3, TypeCorrect, PTL DEF Spec
=============================================================================
