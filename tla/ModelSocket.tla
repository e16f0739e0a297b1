----------------------------- MODULE ModelSocket -----------------------------
(***************************************************************************)
(* A conversation with a model over one WebSocket: the session of          *)
(* core/src/llm/provider/chatgpt/websocket-session.ts, the chain of        *)
(* responses that saves sending the input again (streamChatGPTWebSocket in *)
(* chatgpt/index.ts and openai/responses-chain.ts), and the service, which *)
(* remembers the last response of a connection.                            *)
(*                                                                         *)
(* The input of a request is a sequence of items, its options among the    *)
(* first.  The conversation has one call at a time, but one that was       *)
(* aborted may still be about to send its request.                         *)
(***************************************************************************)
EXTENDS Naturals, Sequences, SequencesExt

CONSTANTS ModelCalls,
          MaxItems,     \* bound: messages and replies
          MaxSockets,   \* bound
          MaxExchanges, \* bound: requests sent
          NoModelCall, NoChain

ASSUME SocketConstants ==
  {MaxItems, MaxSockets, MaxExchanges} \subseteq Nat /\ NoModelCall \notin ModelCalls

VARIABLES
  transcript,  \* the input of the next call
  items,       \* how many there have been
  current,     \* the call the conversation waits for, or none
  call,        \* of a call: how far it is, its input, the baseline it sends without, ...
  active,      \* the call of the session's exchange, or none
  socket,      \* the connection that is open, or 0
  sockets,     \* how many there have been
  exchanges,   \* how many there have been
  chain,       \* channel.chain: the baseline, its response and its connection
  inbox,       \* the request the service has not answered yet
  cache,       \* the service's last response on the connection, and all that led to it
  wire,        \* what the service has sent
  failures     \* consecutiveTransportFailures

socketVars == <<transcript, items, current, call, active, socket, sockets, exchanges, chain,
                inbox, cache, wire, failures>>
conversation == <<transcript, items, current>>
service == <<inbox, cache, wire>>

NoRequest == [exchange |-> 0, previous |-> 0, input |-> << >>]
NoResponse == [response |-> 0, context |-> << >>]
NotCalling == [stage |-> "none", aborted |-> FALSE, input |-> << >>, chained |-> 0, previous |-> 0,
               exchange |-> 0, socket |-> 0, heard |-> FALSE, shown |-> {},
               reply |-> 0, complete |-> FALSE]

Stage(c, stage) == call' = [call EXCEPT ![c].stage = stage]
Return(c) ==
  /\ call' = [call EXCEPT ![c] = NotCalling]
  /\ current' = IF current = c THEN NoModelCall ELSE current

\* closeSocket(): its listeners go, so nothing of it is heard any more.
Drop == socket' = 0 /\ inbox' = NoRequest /\ cache' = NoResponse /\ wire' = << >>

-----------------------------------------------------------------------------
\* The conversation

\* A message or the results of tools are added, or a summary replaces them all.
Say ==
  /\ current = NoModelCall /\ items < MaxItems /\ items' = items + 1
  /\ transcript' \in {Append(transcript, items'), <<items'>>}
  /\ UNCHANGED <<current, call, active, socket, sockets, exchanges, chain, service, failures>>

\* After two failures of the transport the calls go by HTTP.
StartCall(c) ==
  /\ current = NoModelCall /\ transcript # << >>
  /\ call[c].stage = "none" /\ c = CHOOSE d \in ModelCalls : call[d].stage = "none"   \* any
  /\ current' = c
  /\ call' = [call EXCEPT ![c] = [NotCalling EXCEPT
                !.stage = IF failures < 2 THEN "building" ELSE "http", !.input = transcript]]
  /\ UNCHANGED <<transcript, items, active, socket, sockets, exchanges, chain, service, failures>>

\* An abort discards the socket of the call's exchange; a call that has none goes on to it.
AbortCall(c) ==
  /\ current = c /\ current' = NoModelCall
  /\ IF active = c
     THEN active' = NoModelCall /\ Drop /\ call' = [call EXCEPT ![c] = NotCalling]
     ELSE /\ call' = [call EXCEPT ![c].aborted = TRUE]
          /\ UNCHANGED <<active, socket, service>>
  /\ UNCHANGED <<transcript, items, sockets, exchanges, chain, failures>>

HttpEnds(c) ==
  /\ call[c].stage = "http" /\ Return(c)
  /\ \/ UNCHANGED <<transcript, items>>
     \/ /\ ~call[c].aborted /\ items < MaxItems
        /\ items' = items + 1 /\ transcript' = Append(transcript, items')
  /\ UNCHANGED <<active, socket, sockets, exchanges, chain, service, failures>>

-----------------------------------------------------------------------------
\* streamChatGPTWebSocket()

MutExtends(input, baseline) == Len(input) > Len(baseline)
Extends(input, baseline) == IsStrictPrefix(baseline, input)
Chained(c) == chain # NoChain /\ chain.socket = socket /\ Extends(call[c].input, chain.baseline)

\* What a socket is given of a request: what the baseline does not have.
Sent(c, request, id) ==
  /\ inbox' = [exchange |-> request.exchange, previous |-> request.previous,
               input |-> SubSeq(request.input, request.chained + 1, Len(request.input))]
  /\ call' = [call EXCEPT ![c] = [request EXCEPT !.stage = "waiting", !.socket = id]]

\* streamRequest(): one exchange at a time, and none for a call that was aborted.
Request(c, request) ==
  /\ chain' = NoChain
  /\ \/ /\ active # NoModelCall /\ Return(c)
        /\ UNCHANGED <<active, socket, exchanges, service>>
     \/ /\ active = NoModelCall /\ request.aborted /\ Return(c) /\ Drop
        /\ UNCHANGED <<active, exchanges>>
     \/ /\ active = NoModelCall /\ ~request.aborted
        /\ exchanges < MaxExchanges /\ exchanges' = exchanges + 1 /\ active' = c
        /\ LET numbered == [request EXCEPT !.exchange = exchanges']
           IN IF socket # 0
              THEN Sent(c, numbered, socket) /\ UNCHANGED <<cache, wire>>
              ELSE /\ call' = [call EXCEPT ![c] = [numbered EXCEPT !.stage = "connecting"]]
                   /\ UNCHANGED service
        /\ UNCHANGED <<socket, current>>
  /\ UNCHANGED <<transcript, items, sockets, failures>>

\* The body is there.
Built(c) ==
  /\ call[c].stage = "building"
  /\ Request(c, IF Chained(c)
                THEN [call[c] EXCEPT !.chained = Len(chain.baseline), !.previous = chain.response]
                ELSE call[c])

Replay(c) ==
  call[c].stage = "replaying" /\ Request(c, [call[c] EXCEPT !.chained = 0, !.previous = 0])

Connected(c) ==
  /\ call[c].stage = "connecting" /\ active = c /\ sockets < MaxSockets
  /\ sockets' = sockets + 1 /\ socket' = sockets' /\ Sent(c, call[c], sockets')
  /\ UNCHANGED <<conversation, active, exchanges, chain, cache, wire, failures>>

-----------------------------------------------------------------------------
\* The service

Known == inbox.previous = 0 \/ inbox.previous = cache.response
Context == (IF inbox.previous = 0 THEN << >> ELSE cache.context) \o inbox.input

Frames == {<<"created", "delta", "completed">>, <<"delta", "incomplete">>, <<"created", "failed">>}
Rejections == {<<"rejected">>, <<"delta", "rejected">>}

\* It answers with a reply, fails, or says that it does not have the previous response.
Serve ==
  /\ inbox # NoRequest /\ inbox' = NoRequest
  /\ \E frames \in IF Known THEN Frames \cup Rejections ELSE Rejections :
       LET end == Last(frames)
       IN /\ end = "rejected" => inbox.previous # 0
          /\ items' = IF end \in {"completed", "incomplete"} THEN items + 1 ELSE items
          /\ items' <= MaxItems
          /\ wire' = [i \in 1..Len(frames) |->
                        [kind |-> frames[i], exchange |-> inbox.exchange, item |-> items']]
          /\ cache' = IF end = "completed"
                      THEN [response |-> items', context |-> Append(Context, items')] ELSE cache
  /\ UNCHANGED <<transcript, current, call, active, socket, sockets, exchanges, chain, failures>>

-----------------------------------------------------------------------------
\* The session

Replayable(c) == call[c].chained # 0 /\ call[c].shown = {}

\* The exchange ends with an error, which a call that sent less than its input may get over.
Error(c, mayReplay) ==
  /\ active' = NoModelCall /\ Drop
  /\ IF mayReplay /\ Replayable(c)
     THEN Stage(c, "replaying") /\ UNCHANGED current
     ELSE Return(c)

\* What a call, k, makes of an event: a terminal one ends it.
AfterFrame(k, frame) ==
  [k EXCEPT !.heard = TRUE,
            !.shown = IF frame.kind = "created" THEN @ ELSE @ \cup {frame.exchange},
            !.stage = IF frame.kind \in {"completed", "incomplete"} THEN "finishing" ELSE @,
            !.reply = frame.item, !.complete = frame.kind = "completed"]

\* streamChatGPTWebSocket() returns, as it does when the response failed; that sockets are
\* disabled stays so.
Returned == failures' = IF failures < 2 THEN 0 ELSE failures

\* handleMessage()
Deliver(c) ==
  /\ active = c /\ wire # << >>
  /\ LET frame == Head(wire)
     IN /\ IF frame.kind \in {"rejected", "failed"}
           THEN Error(c, frame.kind = "rejected")
           ELSE /\ wire' = Tail(wire)
                /\ call' = [call EXCEPT ![c] = AfterFrame(@, frame)]
                /\ active' = IF frame.kind \in {"completed", "incomplete"} THEN NoModelCall
                             ELSE active
                /\ UNCHANGED <<current, socket, inbox, cache>>
        /\ IF frame.kind = "failed" THEN Returned ELSE UNCHANGED failures
  /\ UNCHANGED <<transcript, items, sockets, exchanges, chain>>

\* A terminal event leaves the socket to the next exchange, and the chain, if the socket is
\* still the same.  A caller that aborts meanwhile may keep it from being recorded.  What is
\* incomplete is a reply if there were too many tokens, and else an error.
Finish(c) ==
  /\ call[c].stage = "finishing" /\ Return(c) /\ Returned
  /\ \/ ~call[c].aborted /\ transcript' = Append(call[c].input, call[c].reply)
     \/ (call[c].aborted \/ ~call[c].complete) /\ UNCHANGED transcript
  /\ LET chains == call[c].complete /\ call[c].socket = socket
     IN \/ /\ chains
           /\ chain' = [baseline |-> Append(call[c].input, call[c].reply),
                        response |-> call[c].reply, socket |-> socket]
        \/ /\ ~chains \/ call[c].aborted
           /\ UNCHANGED chain
  /\ UNCHANGED <<items, active, socket, sockets, exchanges, service>>

\* Nothing came of a chained request: the socket is taken for dead.
FirstEventTimesOut(c) ==
  /\ active = c /\ call[c].stage = "waiting" /\ call[c].chained # 0 /\ ~call[c].heard
  /\ Error(c, TRUE)
  /\ UNCHANGED <<transcript, items, sockets, exchanges, chain, failures>>

\* It cannot be connected, is silent for too long, or closes.
TransportFails(c) ==
  /\ active = c /\ Error(c, FALSE) /\ failures' = failures + 1
  /\ UNCHANGED <<transcript, items, sockets, exchanges, chain>>

IdleCloses ==
  /\ active = NoModelCall /\ socket # 0 /\ Drop
  /\ UNCHANGED <<conversation, call, active, sockets, exchanges, chain, failures>>

SocketInit ==
  /\ transcript = << >> /\ items = 0 /\ current = NoModelCall
  /\ call = [c \in ModelCalls |-> NotCalling] /\ active = NoModelCall
  /\ socket = 0 /\ sockets = 0 /\ exchanges = 0 /\ chain = NoChain
  /\ inbox = NoRequest /\ cache = NoResponse /\ wire = << >> /\ failures = 0

SocketNext ==
  \/ Say \/ Serve \/ IdleCloses
  \/ \E c \in ModelCalls :
       \/ StartCall(c) \/ AbortCall(c) \/ HttpEnds(c) \/ Built(c) \/ Replay(c) \/ Connected(c)
       \/ Deliver(c) \/ Finish(c) \/ FirstEventTimesOut(c) \/ TransportFails(c)

SocketSpec == SocketInit /\ [][SocketNext]_socketVars

-----------------------------------------------------------------------------
\* The types of the session, its calls and the service.
SocketTypeOK ==
  /\ transcript \in Seq(1..MaxItems) /\ items \in 0..MaxItems
  /\ current \in ModelCalls \cup {NoModelCall}
  /\ active \in ModelCalls \cup {NoModelCall} /\ socket \in 0..sockets /\ sockets \in 0..MaxSockets
  /\ exchanges \in 0..MaxExchanges /\ failures \in 0..2
  /\ \A c \in ModelCalls :
       /\ call[c].stage \in {"none", "building", "http", "connecting", "waiting", "replaying",
                             "finishing"}
       /\ call[c].shown \subseteq 1..exchanges /\ call[c].chained \in 0..Len(call[c].input)
  /\ chain # NoChain => chain.response \in 1..items /\ chain.socket \in 1..sockets
  /\ cache.response \in 0..items /\ inbox.previous \in 0..items

\* Whatever a request leaves out, the service knows: with what it remembers, it is the whole
\* input of the call that waits for it.
WholeInput == inbox # NoRequest /\ Known => active # NoModelCall /\ call[active].input = Context

\* What a call shows, and its reply, are of one exchange, its last one.
OneExchange == \A c \in ModelCalls : call[c].shown \subseteq {call[c].exchange}

\* Nobody waits for a call that is refused because another one's exchange goes on.
NotRefused ==
  \A c \in ModelCalls :
    c = current /\ call[c].stage \in {"building", "replaying"} => active = NoModelCall

\* Saving input, replaying and aborting do not change what the model is asked, nor whose
\* reply a call gets.
ModelIsAsked == WholeInput /\ OneExchange /\ NotRefused
=============================================================================
