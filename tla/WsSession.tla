----------------------------- MODULE WsSession -----------------------------
(***************************************************************************)
(* One connection to the WebSocket and HTTP API (WS::ws_callback): its     *)
(* flags, the text that waits to be sent, and the timer of a preview.      *)
(* libwebsockets, which is external, calls the handlers of all connections *)
(* from one thread, so a handler is a step; connections share nothing but  *)
(* the JPEG worker, which may be ready, need a delay, or fail.             *)
(*                                                                         *)
(* A text is a sequence of numbers and separators.  The response to        *)
(* request n is n, or n ";" n when some value in it contains a semicolon;  *)
(* 0 stands for the greeting.                                              *)
(***************************************************************************)
EXTENDS Integers, Sequences, FiniteSets, FiniteSetsExt

CONSTANTS
  MaxRequests,  \* bound on the requests of a connection
  MaxPieces,    \* MAX_WS_MESSAGE_SIZE, in pieces of a request
  MaxText       \* MAX_WS_TX_QUEUE_SIZE, in elements of the text

ASSUME SessionAssumption == MaxRequests \in Nat /\ MaxPieces \in Nat /\ MaxText \in Nat

VARIABLES
  conn,         \* "none", "ws", "http", "done" (answered), "closed"
  rx,           \* pieces in rx_message
  asked,        \* requests parsed so far
  tx,           \* tx_message
  flags,        \* PNT_FLAG_... that are set
  sul,          \* the timer of the session is scheduled
  writable,     \* lws_callback_on_writable was called
  got,          \* history: the WebSocket messages, or HTTP answers, sent
  lost          \* history: requests whose response was given up

apiVars == << conn, rx, asked, tx, flags, sul, writable, got, lost >>

Flags == {"WS_REQUEST_PENDING", "WS_PREVIEW_PENDING", "WS_SEND_PREVIEW",
          "HTTP_RECEIVED_MESSAGE", "HTTP_SEND_MESSAGE", "HTTP_SEND_PREVIEW"}
Separator == -1
Picture   == -2

ApiInit ==
  /\ conn = "none" /\ rx = 0 /\ asked = 0 /\ tx = << >> /\ flags = {}
  /\ sul = FALSE /\ writable = FALSE /\ got = << >> /\ lost = {}

Ends(how) ==
  /\ conn' = how /\ sul' = FALSE /\ writable' = FALSE
  /\ UNCHANGED << rx, asked, tx, flags, lost >>

-----------------------------------------------------------------------------
(* WebSocket.                                                              *)

(* A greeting follows at once.                                             *)
Established ==
  /\ conn = "none" /\ conn' = "ws"
  /\ tx' = << 0 >> /\ writable' = TRUE
  /\ UNCHANGED << rx, asked, flags, sul, got, lost >>

(* A token that is missing or wrong.                                       *)
Refused ==
  /\ conn = "none" /\ Ends("closed") /\ UNCHANGED got

(* A piece of a request that is not its last; the first empties rx_message.*)
ReceivePiece(first) ==
  /\ conn = "ws" /\ asked < MaxRequests
  /\ LET had == IF first THEN 0 ELSE rx
     IN IF had + 1 > MaxPieces
        THEN Ends("closed") /\ UNCHANGED got
        ELSE rx' = had + 1 /\ UNCHANGED << conn, asked, tx, flags, sul, writable, got, lost >>

Texts(n) == {<< n >>, << n, Separator, n >>}
Responses(text) == {text[i] : i \in {j \in DOMAIN text : text[j] # Separator}}

(* What the queue holds when the response to a new request is to be added: *)
(* it is separated from one that still waits, and a long queue is emptied. *)
Separated == IF "WS_REQUEST_PENDING" \in flags THEN Append(tx, Separator) ELSE tx
MutantCleared == Len(Separated) > MaxText + 3
Cleared   == Len(Separated) > MaxText
Queued    == IF Cleared THEN << >> ELSE Separated
LostNow   == IF Cleared THEN Responses(tx) ELSE {}

MutantPending == flags \cup (IF tx = << >> THEN {"WS_REQUEST_PENDING"} ELSE {})
Pending == flags \cup {"WS_REQUEST_PENDING"}

(* The last piece of a request: it is parsed and applied.                  *)
Parse ==
  /\ conn = "ws" /\ asked < MaxRequests /\ rx < MaxPieces
  /\ asked' = asked + 1 /\ rx' = 0

MutantRespond(text) ==
  /\ tx' = Queued \o text /\ lost' = lost \cup LostNow /\ UNCHANGED writable

Respond(text) ==
  /\ tx' = Queued \o text /\ writable' = TRUE
  /\ lost' = lost \cup LostNow

(* No preview is asked for, or none can be had.                            *)
ReceivePlain(text) ==
  /\ Parse /\ Respond(text) /\ flags' = Pending
  /\ UNCHANGED << conn, sul, got >>

ReceivePreview(text) ==
  /\ Parse /\ "WS_PREVIEW_PENDING" \notin flags /\ Respond(text)
  /\ flags' = Pending \cup {"WS_PREVIEW_PENDING"} /\ sul' = TRUE
  /\ UNCHANGED << conn, got >>

(* Overlapping requests for a preview are dropped, with their responses.   *)
ReceiveOverlapping ==
  /\ Parse /\ "WS_PREVIEW_PENDING" \in flags
  /\ tx' = Queued /\ flags' = Pending /\ lost' = lost \cup LostNow \cup {asked + 1}
  /\ UNCHANGED << conn, sul, writable, got >>

(* send_ws_snapshot, when the timer fires.                                 *)
SendWsSnapshot ==
  /\ conn = "ws" /\ sul /\ sul' = FALSE
  /\ flags' = flags \cup {"WS_SEND_PREVIEW"} /\ writable' = TRUE
  /\ UNCHANGED << conn, rx, asked, tx, got, lost >>

(* What getline makes of a text: a part before every separator and one    *)
(* after the last, which may be empty, but not that at the end.            *)
Cuts(text, i)    == Cardinality({j \in 1 .. i - 1 : text[j] = Separator})
Stretch(text, k) == {i \in DOMAIN text : text[i] # Separator /\ Cuts(text, i) = k - 1}

Part(text, k) ==
  LET where == Stretch(text, k)
  IN IF where = {} THEN << >> ELSE SubSeq(text, Min(where), Max(where))

Parts(text) ==
  LET ended == text = << >> \/ text[Len(text)] = Separator
  IN [k \in 1 .. Cuts(text, Len(text) + 1) + (IF ended THEN 0 ELSE 1) |-> Part(text, k)]

(* The texts are sent, and then a preview whose time has come; the picture *)
(* may not be there.                                                       *)
WsWriteable(picture) ==
  /\ conn = "ws" /\ writable /\ writable' = FALSE
  /\ picture => "WS_SEND_PREVIEW" \in flags
  /\ got' = got \o Parts(tx) \o (IF picture THEN << << Picture >> >> ELSE << >>)
  /\ flags' = (IF tx = << >> THEN flags ELSE flags \ {"WS_REQUEST_PENDING"})
              \ (IF "WS_SEND_PREVIEW" \in flags
                 THEN {"WS_SEND_PREVIEW", "WS_PREVIEW_PENDING"} ELSE {})
  /\ tx' = << >>
  /\ UNCHANGED << conn, rx, asked, sul, lost >>

MutantClosed ==
  /\ conn \in {"ws", "http"} /\ conn' = "closed" /\ writable' = FALSE
  /\ UNCHANGED << rx, asked, tx, flags, sul, got, lost >>

(* The client is gone, before or after its request was answered.           *)
Closed ==
  /\ conn \in {"ws", "http"} /\ Ends("closed") /\ UNCHANGED got

-----------------------------------------------------------------------------
(* HTTP.                                                                   *)

Answers(status) == got' = Append(got, << status >>)

(* A token that is missing or wrong.                                       *)
HttpRefused ==
  /\ conn = "none" /\ conn' = "done" /\ Answers(403)
  /\ UNCHANGED << rx, asked, tx, flags, sul, writable, lost >>

(* GET /preview.jpg, for which the JPEG worker may have to be woken.       *)
HttpPreview ==
  /\ conn = "none"
  /\ \/ conn' = "done" /\ Answers(503) /\ UNCHANGED << flags, sul, writable >>
     \/ /\ conn' = "http" /\ flags' = {"HTTP_SEND_PREVIEW"}
        /\ \E wait \in BOOLEAN : sul' = wait /\ writable' = ~wait
        /\ UNCHANGED got
  /\ asked' = 1 /\ UNCHANGED << rx, tx, lost >>

(* POST /json, with or without a length.                                   *)
HttpJson(length) ==
  /\ conn = "none" /\ conn' = "http" /\ asked' = 1
  /\ flags' = IF length THEN {"HTTP_RECEIVED_MESSAGE"} ELSE {}
  /\ UNCHANGED << rx, tx, sul, writable, got, lost >>

(* Anything else.                                                          *)
HttpOther ==
  /\ conn = "none" /\ conn' = "http" /\ asked' = 1
  /\ writable' = TRUE
  /\ UNCHANGED << rx, tx, flags, sul, got, lost >>

(* A piece of the body.                                                    *)
HttpBody ==
  /\ conn = "http" /\ flags \cap {"HTTP_SEND_MESSAGE", "HTTP_SEND_PREVIEW"} = {}
  /\ IF rx + 1 > MaxPieces
     THEN Ends("closed") /\ UNCHANGED got
     ELSE rx' = rx + 1 /\ UNCHANGED << conn, asked, tx, flags, sul, writable, got, lost >>

HttpBodyCompletion ==
  /\ conn = "http" /\ "HTTP_RECEIVED_MESSAGE" \in flags
  /\ "HTTP_SEND_MESSAGE" \notin flags
  /\ flags' = flags \cup {"HTTP_SEND_MESSAGE"} /\ rx' = 0 /\ writable' = TRUE
  /\ UNCHANGED << conn, asked, tx, sul, got, lost >>

(* send_http_snapshot, when the timer fires.                               *)
SendHttpSnapshot ==
  /\ conn = "http" /\ sul /\ sul' = FALSE /\ writable' = TRUE
  /\ UNCHANGED << conn, rx, asked, tx, flags, got, lost >>

(* The picture, or the response, or else 501 and the end.                  *)
HttpWriteable ==
  /\ conn = "http" /\ writable
  /\ \/ "HTTP_SEND_PREVIEW" \in flags /\ Ends("done") /\ Answers(200)
     \/ "HTTP_SEND_PREVIEW" \notin flags /\ "HTTP_SEND_MESSAGE" \in flags
        /\ Ends("done") /\ Answers(200)
     \/ "HTTP_SEND_MESSAGE" \notin flags /\ Ends("closed") /\ Answers(501)

-----------------------------------------------------------------------------
WsNext ==
  \/ Established \/ Refused \/ \E first \in BOOLEAN : ReceivePiece(first)
  \/ \E text \in Texts(asked + 1) : ReceivePlain(text) \/ ReceivePreview(text)
  \/ ReceiveOverlapping \/ SendWsSnapshot
  \/ \E picture \in BOOLEAN : WsWriteable(picture)

HttpNext ==
  \/ HttpRefused \/ HttpPreview \/ \E length \in BOOLEAN : HttpJson(length) \/ HttpOther
  \/ HttpBody \/ HttpBodyCompletion \/ SendHttpSnapshot \/ HttpWriteable

ApiNext == WsNext \/ HttpNext \/ Closed

ApiSpec == ApiInit /\ [][ApiNext]_apiVars

(* The event loop runs, timers fire, and a socket that is waited for is    *)
(* writable in the end; a body that was announced comes or the client goes.*)
ApiFairSpec ==
  /\ ApiSpec /\ WF_apiVars(SendWsSnapshot) /\ WF_apiVars(SendHttpSnapshot)
  /\ WF_apiVars(\E picture \in BOOLEAN : WsWriteable(picture))
  /\ WF_apiVars(HttpWriteable)
  /\ WF_apiVars(HttpBodyCompletion)

-----------------------------------------------------------------------------
(* Properties.                                                             *)

(* The fields keep their types and the queue its limit.                    *)
ApiTypeOK ==
  /\ conn \in {"none", "ws", "http", "done", "closed"}
  /\ rx \in 0 .. MaxPieces /\ asked \in 0 .. (MaxRequests + 1)
  /\ tx \in Seq(0 .. MaxRequests \cup {Separator}) /\ Len(tx) <= MaxText + 3
  /\ flags \subseteq Flags /\ {sul, writable} \subseteq BOOLEAN
  /\ lost \subseteq 0 .. MaxRequests

(* A preview that was promised is on its way, by the timer or by the       *)
(* socket, and there is never more than one; none is under way, and no     *)
(* timer is left, once the connection is gone.                             *)
PreviewOnItsWay ==
  /\ conn = "ws" =>
       /\ "WS_PREVIEW_PENDING" \in flags <=> (sul \/ "WS_SEND_PREVIEW" \in flags)
       /\ ~(sul /\ "WS_SEND_PREVIEW" \in flags)
       /\ "WS_SEND_PREVIEW" \in flags => writable
  /\ conn \notin {"ws", "http"} => ~sul

(* However fast requests come, and whatever is dropped, a WebSocket        *)
(* message holds one response at most (but for the greeting, which is not  *)
(* separated from the first), and responses come in the order of their     *)
(* requests.  After a dropped request an empty message may come.           *)
IsResponse(x) == x \notin {Separator, Picture}
InOrder(a, b) ==
  \A k \in DOMAIN a, l \in DOMAIN b :
    IsResponse(a[k]) /\ IsResponse(b[l]) => a[k] <= b[l]
Ascending(a) ==
  \A k, l \in DOMAIN a : k < l /\ IsResponse(a[k]) /\ IsResponse(a[l]) => a[k] <= a[l]
Single(a) == \A k, l \in DOMAIN a : k # l => 0 \in {a[k], a[l]}

OneResponseAtATime ==
  conn = "ws" =>
    /\ Ascending(tx)
    /\ \A i \in DOMAIN got :
         /\ Single(got[i]) /\ Ascending(got[i]) /\ InOrder(got[i], tx)
         /\ \A j \in DOMAIN got : i < j => InOrder(got[i], got[j])

(* Every request is answered, or given up knowingly (overlapping previews, *)
(* a queue that grew too long), or the connection ends; a preview that was *)
(* promised is sent, or tried and given up.  A POST without a length alone *)
(* gets neither an answer nor an end.                                      *)
Received(n) == \E i \in DOMAIN got : \E k \in DOMAIN got[i] : got[i][k] = n
EveryRequestAnswered ==
  /\ \A n \in 1 .. MaxRequests :
       (conn = "ws" /\ asked >= n) ~> (n \in lost \/ Received(n) \/ conn = "closed")
  /\ ("WS_PREVIEW_PENDING" \in flags) ~> ("WS_PREVIEW_PENDING" \notin flags \/ conn = "closed")
  /\ (conn = "http" /\ (flags # {} \/ writable)) ~> (conn \in {"done", "closed"})
=============================================================================
