------------------------------- MODULE Server -------------------------------
(***************************************************************************)
(* One connection of the API server (package api, the Server type in       *)
(* src/internal/ls/api.go, lines 131-848) together with the client on the  *)
(* other end of the stream.                                                *)
(*                                                                         *)
(* The Run goroutine reads one top-level envelope at a time and dispatches *)
(* it.  An "api" request runs the opaque handler (api.HandleRequest); the  *)
(* handler's goroutines (Main, the Run goroutine itself, and Workers that  *)
(* it forks and joins) ask the Server's vfs.FS and the resolverWrapper     *)
(* for host operations.  When the client enabled the callback, the adapter *)
(* performs call(): under callbackMu it writes a Call envelope and reads   *)
(* the reply from the same stream.                                         *)
(*                                                                         *)
(* Envelopes are records; their byte encoding is the subject of module     *)
(* Codec.  A framing error of any kind is the envelope kind "Invalid".     *)
(* The field tag is a ghost correlation value that is not on the wire: the *)
(* client's request number, or <<thread, n>> for the n-th call of thread.  *)
(***************************************************************************)
EXTENDS Integers, Sequences, FiniteSets

CONSTANTS
  Main,            \* the Run goroutine, which also runs the handler
  Workers,         \* goroutines the handler forks and joins
  NoThread,        \* callbackMu is free
  Ops,             \* host operations the handler may ask for
  ConfigPayloads,  \* configure payloads: [valid: BOOLEAN, callbacks: Seq]
  Replies,         \* how the client may answer a Call
  StrayKinds,      \* kinds of envelope the client may send unprompted
  HandlerOutcomes, \* how api.HandleRequest may end
  MaxRequests,     \* requests the client sends
  MaxOps,          \* host operations per goroutine per request
  MaxStrays,       \* unprompted envelopes the client sends
  OutputMayFail    \* the client may stop reading: every later write fails

Threads == {Main} \cup Workers

\* The names enableCallback accepts, one per Callback bit (lines 190-202).
CallbackNames ==
  {"directoryExists", "fileExists", "getAccessibleEntries", "readFile",
   "realpath", "resolveModuleName", "resolveTypeReferenceDirective",
   "getPackageJsonScopeIfApplicable", "getPackageScopeForPath"}

\* vfs.FS methods with no callback: UseCaseSensitiveFileNames and WriteFile
\* go to s.fs; WalkDir, Stat, Remove and Chtimes are unimplemented.
LocalOnlyOps == {"useCaseSensitiveFileNames", "writeFile"}
UnsupportedOps == {"walkDir", "stat", "remove", "chtimes"}

\* Reply payload classes: no bytes, the JSON null, a well-formed answer,
\* bytes the adapter cannot unmarshal; or a CallError envelope.
ReplyClasses == {"empty", "null", "value", "malformed", "callError"}

ASSUME /\ Main \notin Workers /\ NoThread \notin Threads
       /\ Ops \subseteq CallbackNames \cup LocalOnlyOps \cup UnsupportedOps
       /\ Replies \subseteq ReplyClasses
       /\ StrayKinds \subseteq {"CallResponse", "Invalid"}
       /\ HandlerOutcomes \subseteq {"Response", "Error", "panic"}
       /\ MaxRequests \in Nat /\ MaxOps \in Nat /\ MaxStrays \in Nat
       /\ OutputMayFail \in BOOLEAN

VARIABLES
  enabledCallbacks, \* the Callback bitmask, as the set of its bits' names
  requestId,        \* Server.requestId
  callbackMu,       \* holder of Server.callbackMu
  pump,             \* Run: "idle", "handling", "stopped" (returned), "crashed"
  exit,             \* how it ended: "running", Run returned "nil" or an "error",
                    \* the process died of a "doubleFault" or an "unrecovered" panic
  current,          \* the request envelope being handled
  th,               \* per goroutine: where it is in the handler
  inbox,            \* envelopes from the client not yet read by the server
  outbox,           \* envelopes from the server not yet read by the client
  client,           \* the client: [st, sent, strays]
  outBroken,        \* writes to the client's stream fail (s.w returns errors)
  configured,       \* history: enabledCallbacks around the last configure
  failed,           \* history: requests during which a call() failed
  responded,        \* history: requests answered with a Response
  answered          \* history: Responses and Errors written

vars == <<enabledCallbacks, requestId, callbackMu, pump, exit, current, th, inbox,
          outbox, client, outBroken, configured, failed, responded, answered>>

NoTag == <<NoThread, 0>>
NoParams == [valid |-> FALSE, callbacks |-> <<>>]
NoOutcome == [op |-> "none", reply |-> "none", out |-> "none"]
IdleThread == [pc |-> "idle", ops |-> 0, op |-> "none", path |-> "none",
               cid |-> NoTag, got |-> NoTag, last |-> NoOutcome]

\* Paths an operation is asked for: only ReadFile looks at the path itself.
PathsFor(op) == IF op = "readFile" THEN {"file", "bundled"} ELSE {"file"}

-----------------------------------------------------------------------------
(* Capability registry.                                                    *)

\* handleConfigure's loop over params.Callbacks with enableCallback: each
\* known name ORs its bit in; the first unknown name ends the loop with an
\* error, keeping the bits already set.
RECURSIVE Configure(_, _)
Configure(cbs, names) ==
  IF names = <<>> THEN [cbs |-> cbs, err |-> FALSE]
  ELSE IF Head(names) \in CallbackNames
       THEN Configure(cbs \cup {Head(names)}, Tail(names))
       ELSE [cbs |-> cbs, err |-> TRUE]

\* CallbackEnabled, plus ReadFile's exception for bundled:// paths: the
\* adapter issues a call() exactly when this holds.
Bridged(op, p) ==
  /\ op \in enabledCallbacks
  /\ ~(op = "readFile" /\ p = "bundled")

-----------------------------------------------------------------------------
(* Host bridge: what each adapter returns once call() handed it a payload. *)
(* "local": it fell through to s.fs / r.inner; "remote": the decoded       *)
(* answer; "negative": false, null, a zero value or "not found" taken from *)
(* the reply; "panic": it panicked.                                        *)

\* DirectoryExists, FileExists: string(result) == "true", no decoding.
BoolResult(r) ==
  IF r = "empty" THEN "local" ELSE IF r = "value" THEN "remote" ELSE "negative"

\* GetAccessibleEntries: a null reply leaves rawEntries nil.
EntriesResult(r) ==
  CASE r = "empty" -> "local" [] r = "null" -> "local"
    [] r = "malformed" -> "panic" [] r = "value" -> "remote"

\* Variant: ReadFile without the "null" check; json.Unmarshal of null
\* leaves result "" and the file is reported present.
ReadFileResultNoNullCheck(r) ==
  CASE r = "null" -> "remote" [] r = "empty" -> "local"
    [] r = "malformed" -> "panic" [] r = "value" -> "remote"

\* ReadFile: "null" is checked before the length.
ReadFileResult(r) ==
  CASE r = "null" -> "negative" [] r = "empty" -> "local"
    [] r = "malformed" -> "panic" [] r = "value" -> "remote"

\* Realpath, ResolveModuleName, ResolveTypeReferenceDirective,
\* GetPackageScopeForPath: json.Unmarshal of null leaves the zero value.
DecodedResult(r) ==
  CASE r = "empty" -> "local" [] r = "null" -> "negative"
    [] r = "malformed" -> "panic" [] r = "value" -> "remote"

\* GetPackageJsonScopeIfApplicable: an empty reply returns nil; a null one
\* leaves Contents "" and packagejson.Parse of no bytes fails.
PackageJsonScopeResult(r) ==
  CASE r = "empty" -> "negative" [] r = "null" -> "panic"
    [] r = "malformed" -> "panic" [] r = "value" -> "remote"

Adapt(op, r) ==
  CASE op \in {"directoryExists", "fileExists"} -> BoolResult(r)
    [] op = "getAccessibleEntries" -> EntriesResult(r)
    [] op = "readFile" -> ReadFileResult(r)
    [] op = "getPackageJsonScopeIfApplicable" -> PackageJsonScopeResult(r)
    [] OTHER -> DecodedResult(r)

-----------------------------------------------------------------------------
(* Writing envelopes.                                                      *)

Answer(kind, payload) ==
  [kind |-> kind, method |-> current.method, payload |-> payload, params |-> NoParams,
   tag |-> current.tag]

\* Run's deferred recover (lines 481-489) catches a panic of the Run
\* goroutine, sends an Error, and Run then returns: the defer belongs to
\* Run, not to one iteration of its loop.  A panic of any other goroutine
\* is recovered by nobody and ends the process.
\* The recover assigns the error to the loop's err, not to Run's unnamed
\* result, so Run returns nil.  If that Error cannot be written, the
\* recover panics again ("fatal error sending panic response") and the
\* process dies.
Panic(t) ==
  IF t = Main /\ ~outBroken
  THEN /\ outbox' = Append(outbox, Answer("Error", "panic"))
       /\ pump' = "stopped"
       /\ exit' = "nil"
       /\ answered' = answered + 1
  ELSE /\ pump' = "crashed"
       /\ exit' = IF t = Main THEN "doubleFault" ELSE "unrecovered"
       /\ UNCHANGED <<outbox, answered>>

\* Variant: the error of the write is dropped and Run reads on.
ReplyIgnoringError(m) ==
  IF outBroken
  THEN /\ pump' = "idle"
       /\ UNCHANGED <<exit, outbox, responded, answered>>
  ELSE /\ outbox' = Append(outbox, m)
       /\ pump' = "idle"
       /\ UNCHANGED exit
       /\ responded' = IF m.kind = "Response" THEN responded \cup {m.tag} ELSE responded
       /\ answered' = answered + 1

\* Run's sendResponse or sendError of the answer m (491-501): when the
\* write fails Run returns the error; otherwise it reads the next request.
Reply(m) ==
  IF outBroken
  THEN /\ pump' = "stopped"
       /\ exit' = "error"
       /\ UNCHANGED <<outbox, responded, answered>>
  ELSE /\ outbox' = Append(outbox, m)
       /\ pump' = "idle"
       /\ UNCHANGED exit
       /\ responded' = IF m.kind = "Response" THEN responded \cup {m.tag} ELSE responded
       /\ answered' = answered + 1

-----------------------------------------------------------------------------
(* The Run loop (lines 472-506) with handleRequest (609-619).  Each action *)
(* reads the envelope at the head of the inbox with readRequest("").       *)

\* Variant: requestId is counted for every envelope read.
RunRejectsCounted ==
  /\ pump = "idle"
  /\ inbox # <<>>
  /\ Head(inbox).kind # "Request"
  /\ inbox' = Tail(inbox)
  /\ pump' = "stopped"
  /\ exit' = "error"
  /\ requestId' = requestId + 1
  /\ UNCHANGED <<enabledCallbacks, callbackMu, current, th, outbox,
                 client, outBroken, configured, failed, responded, answered>>

\* readRequest fails to decode the envelope, or it is not a Request: Run
\* returns the error.
RunRejects ==
  /\ pump = "idle"
  /\ inbox # <<>>
  /\ Head(inbox).kind # "Request"
  /\ inbox' = Tail(inbox)
  /\ pump' = "stopped"
  /\ exit' = "error"
  /\ UNCHANGED <<enabledCallbacks, requestId, callbackMu, current, th, outbox,
                 client, outBroken, configured, failed, responded, answered>>

\* Variant: Run sends the Error and then the Response too (no else).
RunConfigureBoth ==
  /\ pump = "idle"
  /\ inbox # <<>>
  /\ LET m == Head(inbox)
         c == Configure(enabledCallbacks, m.params.callbacks)
         bad == ~m.params.valid \/ c.err
         resp == [kind |-> "Response", method |-> m.method, payload |-> "none",
                  params |-> NoParams, tag |-> m.tag]
     IN /\ m.kind = "Request"
        /\ m.method = "configure"
        /\ current' = m
        /\ enabledCallbacks' = IF m.params.valid THEN c.cbs ELSE enabledCallbacks
        /\ IF bad /\ ~outBroken
           THEN /\ outbox' = outbox \o <<[resp EXCEPT !.kind = "Error"], resp>>
                /\ pump' = "idle"
                /\ UNCHANGED exit
                /\ responded' = responded \cup {m.tag}
                /\ answered' = answered + 1
           ELSE Reply(resp)
        /\ configured' = [before |-> enabledCallbacks, after |-> enabledCallbacks',
                          err |-> bad]
  /\ inbox' = Tail(inbox)
  /\ requestId' = requestId + 1
  /\ UNCHANGED <<callbackMu, th, client, outBroken, failed>>

\* "configure": handleConfigure (621-638); an unmarshal error or an unknown
\* callback name is sent back as an Error, else an empty Response.
RunConfigure ==
  /\ pump = "idle"
  /\ inbox # <<>>
  /\ LET m == Head(inbox)
         c == Configure(enabledCallbacks, m.params.callbacks)
         bad == ~m.params.valid \/ c.err
     IN /\ m.kind = "Request"
        /\ m.method = "configure"
        /\ current' = m
        /\ enabledCallbacks' = IF m.params.valid THEN c.cbs ELSE enabledCallbacks
        /\ Reply([kind |-> IF bad THEN "Error" ELSE "Response", method |-> m.method,
                  payload |-> "none", params |-> NoParams, tag |-> m.tag])
        /\ configured' = [before |-> enabledCallbacks, after |-> enabledCallbacks',
                          err |-> bad]
  /\ inbox' = Tail(inbox)
  /\ requestId' = requestId + 1
  /\ UNCHANGED <<callbackMu, th, client, outBroken, failed>>

\* Variant: s.requestId++ only on the default branch of handleRequest.
RunEchoUncounted ==
  /\ pump = "idle"
  /\ inbox # <<>>
  /\ LET m == Head(inbox)
     IN /\ m.kind = "Request"
        /\ m.method = "echo"
        /\ current' = m
        /\ Reply([m EXCEPT !.kind = "Response"])
  /\ inbox' = Tail(inbox)
  /\ UNCHANGED <<enabledCallbacks, requestId, callbackMu, th, client, outBroken,
                 configured, failed>>

\* "echo": the payload is the result.
RunEcho ==
  /\ pump = "idle"
  /\ inbox # <<>>
  /\ LET m == Head(inbox)
     IN /\ m.kind = "Request"
        /\ m.method = "echo"
        /\ current' = m
        /\ Reply([m EXCEPT !.kind = "Response"])
  /\ inbox' = Tail(inbox)
  /\ requestId' = requestId + 1
  /\ UNCHANGED <<enabledCallbacks, callbackMu, th, client, outBroken, configured, failed>>

\* Any other method: s.api.HandleRequest runs on the Run goroutine.
RunApi ==
  /\ pump = "idle"
  /\ inbox # <<>>
  /\ Head(inbox).kind = "Request"
  /\ Head(inbox).method \notin {"configure", "echo"}
  /\ current' = Head(inbox)
  /\ inbox' = Tail(inbox)
  /\ requestId' = requestId + 1
  /\ pump' = "handling"
  /\ th' = [th EXCEPT ![Main].pc = "run"]
  /\ UNCHANGED <<enabledCallbacks, callbackMu, exit, outbox, client, outBroken, configured,
                 failed, responded, answered>>

-----------------------------------------------------------------------------
(* The handler's goroutines asking for host operations.                    *)


Running(t) == pump = "handling" /\ th[t].pc = "run" /\ th[t].ops < MaxOps

\* An adapter whose callback is off (or ReadFile of a bundled:// path)
\* goes straight to s.fs or r.inner, as UseCaseSensitiveFileNames and
\* WriteFile always do.
LocalLookup(t, op, p) ==
  /\ Running(t)
  /\ op \notin UnsupportedOps
  /\ ~Bridged(op, p)
  /\ th' = [th EXCEPT ![t].ops = @ + 1,
                      ![t].last = [op |-> op, reply |-> "nocall", out |-> "local"]]
  /\ UNCHANGED <<enabledCallbacks, requestId, callbackMu, pump, exit, current, inbox,
                 outbox, client, outBroken, configured, failed, responded, answered>>

\* WalkDir, Stat, Remove, Chtimes: panic("unimplemented").
Unimplemented(t, op) ==
  /\ Running(t)
  /\ op \in UnsupportedOps
  /\ th' = [th EXCEPT ![t].pc = "panicked", ![t].ops = @ + 1]
  /\ Panic(t)
  /\ UNCHANGED <<enabledCallbacks, requestId, callbackMu, current, inbox, client,
                 outBroken, configured, failed, responded>>

\* call()'s write of the Call (697-705).  When the write fails, call()
\* returns the error, the deferred unlock runs and the adapter panics.
CallWrite(t, op, p) ==
  /\ IF outBroken
     THEN /\ th' = [th EXCEPT ![t].pc = "panicked", ![t].ops = @ + 1,
                              ![t].last = [op |-> op, reply |-> "failure", out |-> "panic"]]
          /\ failed' = failed \cup {current.tag}
          /\ Panic(t)
          /\ UNCHANGED callbackMu
     ELSE /\ callbackMu' = t
          /\ LET tag == <<t, th[t].ops + 1>>
             IN /\ outbox' = Append(outbox, [kind |-> "Call", method |-> op, payload |-> p,
                                             params |-> NoParams, tag |-> tag])
                /\ th' = [th EXCEPT ![t].pc = "await", ![t].op = op, ![t].path = p,
                                    ![t].cid = tag, ![t].got = NoTag]
          /\ UNCHANGED <<pump, exit, failed, answered>>
  /\ UNCHANGED <<enabledCallbacks, requestId, current, inbox, client, outBroken,
                 configured, responded>>

\* Variant: call() without callbackMu.
SendCallUnlocked(t, op, p) ==
  /\ Running(t)
  /\ Bridged(op, p)
  /\ CallWrite(t, op, p)

\* call() (695-705): take callbackMu, marshal the argument, write the Call.
SendCall(t, op, p) ==
  /\ Running(t)
  /\ Bridged(op, p)
  /\ callbackMu = NoThread
  /\ CallWrite(t, op, p)

\* The unread bytes of an envelope readRequest gave up on.
Rest == [kind |-> "Rest", method |-> "none", payload |-> "none", params |-> NoParams,
         tag |-> NoTag]

\* What readRequest(op) leaves of envelope m on the stream: one of no valid
\* message type (529-530) or for another method (536-537) is read only up
\* to there, and the rest of its bytes stay in s.r.
Unread(m, op) == IF m.kind = "Invalid" \/ m.method # op THEN <<Rest>> ELSE <<>>

\* Variant: the adapter ignores call()'s error and falls back to s.fs.
ReceiveReplyIgnoringError(t) ==
  /\ pump = "handling"
  /\ th[t].pc = "await"
  /\ inbox # <<>>
  /\ LET m == Head(inbox)
         ok == m.kind = "CallResponse" /\ m.method = th[t].op
         out == IF ok THEN Adapt(th[t].op, m.payload) ELSE "local"
     IN /\ th' = [th EXCEPT ![t].pc = IF out = "panic" THEN "panicked" ELSE "run",
                            ![t].ops = @ + 1,
                            ![t].got = IF ok THEN m.tag ELSE NoTag,
                            ![t].last = [op |-> th[t].op,
                                         reply |-> IF ok THEN m.payload ELSE "failure",
                                         out |-> out]]
        /\ failed' = IF ok THEN failed ELSE failed \cup {current.tag}
        /\ IF out = "panic" THEN Panic(t) ELSE UNCHANGED <<pump, exit, outbox, answered>>
  /\ inbox' = Unread(Head(inbox), th[t].op) \o Tail(inbox)
  /\ callbackMu' = NoThread
  /\ UNCHANGED <<enabledCallbacks, requestId, current, client, outBroken, configured,
                 responded>>

\* call() (706-719): readRequest(method) and the kind checks, the deferred
\* unlock; then the adapter panics on an error or decodes the payload.
ReceiveReply(t) ==
  /\ pump = "handling"
  /\ th[t].pc = "await"
  /\ inbox # <<>>
  /\ LET m == Head(inbox)
         ok == m.kind = "CallResponse" /\ m.method = th[t].op
         out == IF ok THEN Adapt(th[t].op, m.payload) ELSE "panic"
     IN /\ th' = [th EXCEPT ![t].pc = IF out = "panic" THEN "panicked" ELSE "run",
                            ![t].ops = @ + 1,
                            ![t].got = IF ok THEN m.tag ELSE NoTag,
                            ![t].last = [op |-> th[t].op,
                                         reply |-> IF ok THEN m.payload ELSE "failure",
                                         out |-> out]]
        /\ failed' = IF ok THEN failed ELSE failed \cup {current.tag}
        /\ IF out = "panic" THEN Panic(t) ELSE UNCHANGED <<pump, exit, outbox, answered>>
  /\ inbox' = Unread(Head(inbox), th[t].op) \o Tail(inbox)
  /\ callbackMu' = NoThread
  /\ UNCHANGED <<enabledCallbacks, requestId, current, client, outBroken, configured,
                 responded>>

\* The handler forks its workers once and waits for all of them.
Fork ==
  /\ pump = "handling"
  /\ th[Main].pc = "run"
  /\ Workers # {}
  /\ \A w \in Workers : th[w].pc = "idle"
  /\ th' = [t \in Threads |-> [th[t] EXCEPT !.pc = IF t = Main THEN "join" ELSE "run"]]
  /\ UNCHANGED <<enabledCallbacks, requestId, callbackMu, pump, exit, current, inbox,
                 outbox, client, outBroken, configured, failed, responded, answered>>

WorkerDone(w) ==
  /\ pump = "handling"
  /\ th[w].pc = "run"
  /\ th' = [th EXCEPT ![w].pc = "done"]
  /\ UNCHANGED <<enabledCallbacks, requestId, callbackMu, pump, exit, current, inbox,
                 outbox, client, outBroken, configured, failed, responded, answered>>

Join ==
  /\ pump = "handling"
  /\ th[Main].pc = "join"
  /\ \A w \in Workers : th[w].pc = "done"
  /\ th' = [th EXCEPT ![Main].pc = "run"]
  /\ UNCHANGED <<enabledCallbacks, requestId, callbackMu, pump, exit, current, inbox,
                 outbox, client, outBroken, configured, failed, responded, answered>>

\* Variant: Run returns after sending the answer (return s.sendResponse(...)).
HandlerReturnThenReturn(k) ==
  /\ pump = "handling"
  /\ th[Main].pc = "run"
  /\ IF k = "panic"
     THEN /\ Panic(Main)
          /\ UNCHANGED <<th, responded>>
     ELSE /\ outbox' = Append(outbox, Answer(k, "result"))
          /\ pump' = "stopped"
          /\ exit' = "nil"
          /\ th' = [t \in Threads |-> IdleThread]
          /\ responded' = IF k = "Response" THEN responded \cup {current.tag}
                          ELSE responded
          /\ answered' = answered + 1
  /\ UNCHANGED <<enabledCallbacks, requestId, callbackMu, current, inbox, client,
                 outBroken, configured, failed>>

\* api.HandleRequest returns a result or an error, which Run sends back as
\* a Response or an Error (491-501); or it panics.
HandlerReturn(k) ==
  /\ pump = "handling"
  /\ th[Main].pc = "run"
  /\ IF k = "panic"
     THEN /\ Panic(Main)
          /\ UNCHANGED <<th, responded>>
     ELSE /\ Reply(Answer(k, "result"))
          /\ th' = [t \in Threads |-> IdleThread]
  /\ UNCHANGED <<enabledCallbacks, requestId, callbackMu, current, inbox, client,
                 outBroken, configured, failed>>

-----------------------------------------------------------------------------
(* The client: one top-level request at a time; it answers every Call it   *)
(* reads; a faulty client may also send envelopes nobody asked for.        *)

\* The configure payload is shown decoded, as params.
ClientRequest(meth, pl, params) ==
  /\ client.st = "ready"
  /\ client.sent < MaxRequests
  /\ inbox' = Append(inbox, [kind |-> "Request", method |-> meth, payload |-> pl,
                             params |-> params, tag |-> client.sent + 1])
  /\ client' = [client EXCEPT !.st = "waiting", !.sent = @ + 1]
  /\ UNCHANGED <<enabledCallbacks, requestId, callbackMu, pump, exit, current, th, outbox,
                 outBroken, configured, failed, responded, answered>>

ClientAnswerCall(r) ==
  /\ outbox # <<>>
  /\ Head(outbox).kind = "Call"
  /\ LET c == Head(outbox)
     IN inbox' = Append(inbox,
                   IF r = "callError"
                   THEN [c EXCEPT !.kind = "CallError", !.payload = "error"]
                   ELSE [c EXCEPT !.kind = "CallResponse", !.payload = r])
  /\ outbox' = Tail(outbox)
  /\ UNCHANGED <<enabledCallbacks, requestId, callbackMu, pump, exit, current, th, client,
                 outBroken, configured, failed, responded, answered>>

ClientReceive ==
  /\ outbox # <<>>
  /\ Head(outbox).kind \in {"Response", "Error"}
  /\ outbox' = Tail(outbox)
  /\ client' = [client EXCEPT !.st = "ready"]
  /\ UNCHANGED <<enabledCallbacks, requestId, callbackMu, pump, exit, current, th, inbox,
                 outBroken, configured, failed, responded, answered>>

ClientStray(k) ==
  /\ client.strays < MaxStrays
  /\ inbox' = Append(inbox, [kind |-> k, method |-> "stray", payload |-> "empty",
                             params |-> NoParams, tag |-> <<NoThread, client.strays + 1>>])
  /\ client' = [client EXCEPT !.strays = @ + 1]
  /\ UNCHANGED <<enabledCallbacks, requestId, callbackMu, pump, exit, current, th, outbox,
                 outBroken, configured, failed, responded, answered>>

\* The client stops reading (it closes its end of the pipe): what the server
\* wrote before stays readable, every later write of s.w fails.
BreakOutput ==
  /\ OutputMayFail
  /\ ~outBroken
  /\ outBroken' = TRUE
  /\ UNCHANGED <<enabledCallbacks, requestId, callbackMu, pump, exit, current, th, inbox,
                 outbox, client, configured, failed, responded, answered>>

\* The server has returned or died, or the client is done: nothing more
\* happens on the connection.
Terminated ==
  /\ \/ pump \in {"stopped", "crashed"}
     \/ client.st = "ready" /\ client.sent = MaxRequests /\ pump = "idle"
        /\ inbox = <<>> /\ outbox = <<>>
  /\ UNCHANGED vars

-----------------------------------------------------------------------------

Init ==
  /\ enabledCallbacks = {}
  /\ requestId = 0
  /\ callbackMu = NoThread
  /\ pump = "idle"
  /\ exit = "running"
  /\ current = [kind |-> "none", method |-> "none", payload |-> "none",
                params |-> NoParams, tag |-> 0]
  /\ th = [t \in Threads |-> IdleThread]
  /\ inbox = <<>>
  /\ outbox = <<>>
  /\ client = [st |-> "ready", sent |-> 0, strays |-> 0]
  /\ outBroken = FALSE
  /\ configured = [before |-> {}, after |-> {}, err |-> FALSE]
  /\ failed = {}
  /\ responded = {}
  /\ answered = 0

ServerStep ==
  \/ RunRejects \/ RunConfigure \/ RunEcho \/ RunApi
  \/ \E t \in Threads, op \in Ops :
       \/ \E p \in PathsFor(op) : LocalLookup(t, op, p) \/ SendCall(t, op, p)
       \/ Unimplemented(t, op)
  \/ \E t \in Threads : ReceiveReply(t)
  \/ Fork \/ Join \/ \E w \in Workers : WorkerDone(w)
  \/ \E k \in HandlerOutcomes : HandlerReturn(k)

ClientStep ==
  \/ ClientRequest("echo", "hello", NoParams)
  \/ \E pl \in ConfigPayloads : ClientRequest("configure", "params", pl)
  \/ ClientRequest("api", "args", NoParams)
  \/ \E r \in Replies : ClientAnswerCall(r)
  \/ ClientReceive
  \/ BreakOutput
  \/ \E k \in StrayKinds : ClientStray(k)

Next == ServerStep \/ ClientStep \/ Terminated

\* The Go scheduler keeps runnable goroutines running; the client process
\* answers what it reads.  Sending requests is up to the client.
Fairness ==
  /\ WF_vars(ServerStep)
  /\ WF_vars(\E r \in Replies : ClientAnswerCall(r))
  /\ WF_vars(ClientReceive)

Spec == Init /\ [][Next]_vars /\ Fairness

-----------------------------------------------------------------------------
(* Properties.                                                             *)

EnvelopeOK(m) ==
  /\ m.kind \in {"Request", "CallResponse", "CallError", "Response", "Error", "Call",
                 "Invalid", "Rest"}
  /\ m.method \in STRING
  /\ m.payload \in STRING
  /\ m.params \in ConfigPayloads \cup {NoParams}

TypeOK ==
  /\ enabledCallbacks \subseteq CallbackNames
  /\ requestId \in 0..MaxRequests
  /\ callbackMu \in Threads \cup {NoThread}
  /\ pump \in {"idle", "handling", "stopped", "crashed"}
  /\ exit \in {"running", "nil", "error", "doubleFault", "unrecovered"}
  /\ \A t \in Threads :
       /\ th[t].pc \in {"idle", "run", "await", "join", "done", "panicked"}
       /\ th[t].ops \in 0..MaxOps
  /\ \A i \in DOMAIN inbox : EnvelopeOK(inbox[i])
  /\ \A i \in DOMAIN outbox : EnvelopeOK(outbox[i])
  /\ client.st \in {"ready", "waiting"}
  /\ outBroken \in BOOLEAN
  /\ answered \in 0..MaxRequests

\* Run reads the next request only once the current one has been answered
\* (spec invariant 1): every request it took is answered by the time it is
\* idle again, whichever way the handler ended and whether or not a write
\* failed on the way.
AnswerBeforeNextRead == pump = "idle" => answered = requestId


CorrelationIdIsPosition == pump = "handling" => requestId = current.tag

\* Each goroutine that call() hands a reply payload gets the reply to its
\* own Call: callbackMu keeps one goroutine's Call write and reply read
\* together while other goroutines of the handler call too (section 4.4).
ReplyToOwnCall == \A t \in Threads : th[t].got \in {NoTag, th[t].cid}

\* What the spec (sections 3 and 4.5) lets an adapter return for a reply.
SpecOutcomes(reply) ==
  CASE reply \in {"nocall", "empty"} -> {"local"}
    [] reply = "null" -> {"negative"}
    [] reply = "value" -> {"remote"}
    [] reply = "malformed" -> {"negative", "panic"}

\* Every host operation of the FS and resolver adapters falls back to the
\* local implementation only when it did not ask the client or got no
\* bytes, and honours an explicit null as a negative answer.
\* (A failed call is RemoteFailureAborts' subject.)
BridgeAnswer ==
  \A t \in Threads :
    LET o == th[t].last
    IN o.op # "none" /\ o.reply # "failure" =>
         /\ o.out \in SpecOutcomes(o.reply)

\* A request during which a call() failed (CallError, wrong kind or method,
\* undecodable reply) is never answered with a Response: the failure
\* panics in the adapter and becomes an Error, or nothing (section 4.5).
RemoteFailureAborts == responded \cap failed = {}

\* The client has at most one top-level answer in flight, and it answers
\* the request the client is waiting for (spec invariant 1).
OneAnswerPerRequest ==
  LET A == {i \in DOMAIN outbox : outbox[i].kind \in {"Response", "Error"}}
  IN /\ Cardinality(A) <= 1
     /\ \A i \in A : client.st = "waiting" /\ outbox[i].tag = client.sent

\* A configure request naming an unknown callback enables nothing
\* (section 8, capability monotonicity).
ConfigureAllOrNothing == configured.err => configured.after = configured.before

\* Every request the client sends is eventually answered: a panic while
\* handling one is reported and the server goes on serving (section 4.3).
ServedEventually == client.st = "waiting" ~> client.st = "ready"

\* call() as the Call client promises it (module CallLock): callbackMu is
\* the holder of the cycle, a goroutine awaiting its reply is asking for
\* its operation, and a crash is the process ending.
CL == INSTANCE CallLock WITH
        holder <- callbackMu,
        asking <- [t \in Threads |-> IF th[t].pc = "await" THEN th[t].op ELSE "none"],
        dead <- (pump = "crashed")

\* Every call() cycle is one goroutine's alone, from its Call write to the
\* read of its reply, and every cycle ends unless the process dies: no
\* goroutine waits forever on a reply (section 4.4).
CallLockRefined == CL!Spec

\* The connection ends only in the ways section 7 allows: Run returns an
\* error to its caller (a framing error, the stream failing), or the
\* process dies of a double fault.  A panic raised while handling a
\* request, in a nested call on any goroutine included, is recovered and
\* neither kills the process nor makes Run return as if nothing had gone
\* wrong.
EndsAsSpecified == exit \in {"running", "error", "doubleFault"}

=============================================================================
