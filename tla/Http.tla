--------------------------------- MODULE Http ---------------------------------
(***************************************************************************)
(* One request through a worker: the Router of router.rs, what a handler   *)
(* does with the Request of request.rs, and the Response of response.rs    *)
(* that it builds, passes on, clones or reads.  The three do not depend on *)
(* one another and are looked at apart.  Bodies are contents, which a      *)
(* JavaScript stream gives once; patterns are matched by matchit.          *)
(***************************************************************************)
EXTENDS Naturals, FiniteSets

VARIABLES
  routes,    \* registered: method, pattern
  outcome,   \* what is under way: a router that ran, a request, a response; or a panic
  request,   \* the Request: method, flags, the JavaScript request's body
  copy,      \* a clone of it
  response,  \* the Response: builder and body
  sent,      \* the JavaScript responses that were made of it
  told       \* history: what reading bodies returned

httpVars == <<routes, outcome, request, copy, response, sent, told>>

Methods == {"HEAD", "GET", "POST", "PUT", "PATCH", "DELETE", "OPTIONS", "CONNECT", "TRACE", "REPORT"}
Patterns == {"/a", "/{x}"}

(* From<String> for Method: a method that is not known is GET.              *)
MethodFrom(s) == IF s \in Methods THEN s ELSE "GET"

-----------------------------------------------------------------------------
(* matchit: a fixed segment goes before a parameter.                        *)
Matching(pattern, path) == pattern = "/{x}" \/ pattern = path
At(patterns, path) ==
  LET hits == {p \in patterns : Matching(p, path)} IN
  IF path \in hits THEN path ELSE IF hits # {} THEN "/{x}" ELSE "none"

PatternsOf(method) == {r.pattern : r \in {r \in routes : r.method = method}}

(* get, post, ..., on and their async forms; or_else_any_method is a table  *)
(* of its own.  The same pattern twice for a method panics.                 *)
MethodsOf(call) == IF call = "on" THEN Methods ELSE {call}

AddHandler(call, pattern) ==
  /\ outcome = "none"
  /\ LET new == {[method |-> m, pattern |-> pattern] : m \in MethodsOf(call)} IN
     IF new \cap routes = {} THEN routes' = routes \cup new /\ UNCHANGED outcome
                             ELSE outcome' = "panic" /\ UNCHANGED routes
  /\ UNCHANGED <<request, copy, response, sent, told>>

\* Mutant of OtherMethods: of the methods that are asked, all count.
OtherMethodsAll == Methods

(* A route for HEAD, OPTIONS or TRACE does not make a path known.           *)
OtherMethods == Methods \ {"HEAD", "OPTIONS", "TRACE"}

(* Router::run: the route of the request's method; else 405 if the path is  *)
(* known by another method; else the route for any method; else 404.        *)
Route(method, path) ==
  LET own == At(PatternsOf(method), path)
      any == At(PatternsOf("any"), path)
  IN  IF own # "none" THEN [method |-> method, pattern |-> own]
      ELSE IF \E m \in OtherMethods : At(PatternsOf(m), path) # "none" THEN [method |-> "error", pattern |-> "405"]
      ELSE IF any # "none" THEN [method |-> "any", pattern |-> any]
      ELSE [method |-> "error", pattern |-> "404"]

NoBody == [content |-> "none", state |-> "unread"]
Fixed == "fixed"
Empty == "empty"
Stream == "stream"

(* The response of error: a status from 400 to 599, or an Err.              *)
ErrorStatusOk(status) == status \in 400..599
RedirectStatusOk(status) == status \in 300..399

NoResponse == [status |-> 0, headers |-> {}, websocket |-> FALSE, encode |-> "automatic", cf |-> FALSE,
               body |-> Empty, content |-> "none", state |-> "unread"]

(* ResponseBuilder::new.                                                    *)
Builder == [NoResponse EXCEPT !.status = 200]

Run(s, path) ==
  /\ outcome = "none" /\ request.method = "none"
  /\ outcome' = "run"
  /\ LET method == MethodFrom(s) to == Route(method, path) IN
     /\ request' = [method |-> method, path |-> path, asked |-> s, to |-> to,
                    immutable |-> TRUE, bodyUsed |-> FALSE, body |-> NoBody, headers |-> {}, wirePath |-> path]
     /\ response' = IF to.method = "error" THEN [Builder EXCEPT !.status = IF to.pattern = "405" THEN 405 ELSE 404,
                                                                 !.body = Fixed, !.content = "message"]
                                            ELSE response
  /\ UNCHANGED <<routes, copy, sent, told>>

NoRequest == [method |-> "none", path |-> "", asked |-> "none", to |-> [method |-> "none", pattern |-> "none"], immutable |-> TRUE, bodyUsed |-> FALSE,
              body |-> NoBody, headers |-> {}, wirePath |-> ""]

HttpInit ==
  /\ routes = {} /\ outcome = "none" /\ request = NoRequest /\ copy = NoRequest
  /\ response = NoResponse /\ sent = {} /\ told = {}

-----------------------------------------------------------------------------
(* path_from_url: from the first slash after the host to ? or #.            *)
PathFromUrl(url) == IF url.path = "" THEN "/" ELSE url.path

(* Request::new and new_with_init: what Rust makes is mutable.              *)
NewRequest(method, path) ==
  /\ outcome = "none" /\ routes = {} /\ outcome' = "made"
  /\ request' = [NoRequest EXCEPT !.method = method, !.immutable = FALSE, !.path = PathFromUrl([path |-> path]),
                                  !.wirePath = PathFromUrl([path |-> path])]
  /\ UNCHANGED <<routes, copy, response, sent, told>>

Handling == outcome = "made"

(* JavaScript's side: a body is read once, by who it belongs to.            *)
ReadResult(r, ok) ==
  IF r.body.state = "read" THEN "twice" ELSE IF r.body.state = "moved" THEN "Err" ELSE IF ok THEN "content" ELSE "Err"

\* Mutant of ReadRequest: the flag is set when the reading is over.
ReadRequestLate(ok) ==
  /\ Handling
  /\ IF request.bodyUsed THEN told' = told \cup {<<"request", "BodyUsed">>} /\ UNCHANGED request
     ELSE /\ request' = [request EXCEPT !.bodyUsed = ok, !.body.state = IF @ = "moved" THEN @ ELSE "read"]
          /\ told' = told \cup {<<"request", ReadResult(request, ok)>>}
  /\ UNCHANGED <<routes, outcome, copy, response, sent>>

(* json, text, bytes, form_data and stream: the body is taken as used       *)
(* before it is read, whether or not that fails.                            *)
ReadRequest(ok) ==
  /\ Handling
  /\ IF request.bodyUsed THEN told' = told \cup {<<"request", "BodyUsed">>} /\ UNCHANGED request
     ELSE /\ request' = [request EXCEPT !.bodyUsed = TRUE, !.body.state = IF @ = "moved" THEN @ ELSE "read"]
          /\ told' = told \cup {<<"request", ReadResult(request, ok)>>}
  /\ UNCHANGED <<routes, outcome, copy, response, sent>>

(* clone tees the body, clone_mut moves it to the copy, which is mutable;   *)
(* JavaScript refuses both when the body was read or moved.                 *)
CloneRequest(mut) ==
  /\ Handling /\ copy = NoRequest
  /\ request.body.state = "unread"
  /\ copy' = [request EXCEPT !.immutable = ~mut, !.bodyUsed = FALSE]
  /\ request' = IF mut THEN [request EXCEPT !.body.state = "moved"] ELSE request
  /\ UNCHANGED <<routes, outcome, response, sent, told>>

ReadCopy ==
  /\ copy # NoRequest /\ ~copy.bodyUsed
  /\ copy' = [copy EXCEPT !.bodyUsed = TRUE, !.body.state = "read"]
  /\ told' = told \cup {<<"request", ReadResult(copy, TRUE)>>}
  /\ UNCHANGED <<routes, outcome, request, response, sent>>

(* headers_mut writes to the JavaScript request, path_mut to the copy of    *)
(* the path that Rust keeps; both only when the request is mutable.         *)
HeadersMut ==
  /\ Handling /\ ~request.immutable /\ request' = [request EXCEPT !.headers = {"set"}]
  /\ UNCHANGED <<routes, outcome, copy, response, sent, told>>
PathMut ==
  /\ Handling /\ ~request.immutable /\ request' = [request EXCEPT !.path = "/changed"]
  /\ UNCHANGED <<routes, outcome, copy, response, sent, told>>

-----------------------------------------------------------------------------
(* The constructors: what body, which content type.                         *)
ContentTypeOf(from) ==
  CASE from = "json" -> {"application/json"} [] from = "html" -> {"text/html"} [] from = "ok" -> {"text/plain"}
    [] from = "bytes" -> {"application/octet-stream"} [] OTHER -> {}

BodyKind(from) ==
  CASE from \in {"json", "html", "ok", "bytes", "error"} -> Fixed
    [] from = "stream"                                   -> Stream
    [] OTHER                                             -> Empty

(* from_json of what does not serialize is an Err; redirect is made by      *)
(* JavaScript; a WebSocket is answered with 101.                            *)
Build(from, status) ==
  /\ outcome = "none" /\ routes = {} /\ response = NoResponse /\ outcome' = "built"
  /\ CASE from = "error" -> ErrorStatusOk(status)
       [] from = "redirect" -> RedirectStatusOk(status)
       [] from = "websocket" -> status = 101
       [] OTHER -> status = 200
  /\ response' = [Builder EXCEPT !.status = status, !.headers = ContentTypeOf(from), !.websocket = from = "websocket",
                                 !.body = BodyKind(from), !.content = IF BodyKind(from) = Empty THEN "none" ELSE from]
  /\ UNCHANGED <<routes, request, copy, sent, told>>

(* Cors::apply_headers: a header for each setting that is not empty.        *)
CorsHeaders == [credentials |-> "Access-Control-Allow-Credentials", max_age |-> "Access-Control-Max-Age",
                origins |-> "Access-Control-Allow-Origin", methods |-> "Access-Control-Allow-Methods",
                allowed_headers |-> "Access-Control-Allow-Headers", exposed_headers |-> "Access-Control-Expose-headers"]
ApplyHeaders(headers, settings) == headers \cup {CorsHeaders[s] : s \in settings}

(* with_status, with_cors, with_encode_body, with_cf, which must be an      *)
(* object, and with_headers, which replaces them.                           *)
With(what) ==
  /\ outcome = "built" /\ sent = {}
  /\ response' = CASE what = "status"  -> [response EXCEPT !.status = 299]
                   [] what = "no_content" -> [response EXCEPT !.status = 204]
                   [] what = "cors"    -> [response EXCEPT !.headers = ApplyHeaders(@, {"origins"})]
                   [] what = "encode"  -> [response EXCEPT !.encode = "manual"]
                   [] what = "cf"      -> [response EXCEPT !.cf = TRUE]
                   [] what = "headers" -> [response EXCEPT !.headers = {}]
  /\ UNCHANGED <<routes, outcome, request, copy, sent, told>>

(* text, json and bytes: a fixed body is copied as often as it is asked     *)
(* for, a stream gives its content once.                                    *)
ReadResponse ==
  /\ outcome = "built"
  /\ told' = told \cup {<<"response", IF response.body = Stream /\ response.state = "read" THEN "none" ELSE response.content>>}
  /\ response' = [response EXCEPT !.state = IF response.body = Stream THEN "read" ELSE @]
  /\ UNCHANGED <<routes, outcome, request, copy, sent>>

(* Into web_sys::Response: status, headers and what else was set.           *)
IntoSys(r) ==
  [status |-> r.status, headers |-> r.headers, websocket |-> r.websocket, encode |-> r.encode, cf |-> r.cf,
   content |-> r.content, stream |-> r.body # Empty, state |-> r.state]

(* From web_sys::Response: how the body is encoded is not told.             *)
FromSys(s) ==
  [status |-> s.status, headers |-> s.headers, websocket |-> s.websocket, encode |-> "automatic", cf |-> s.cf,
   body |-> IF s.stream THEN Stream ELSE Empty, content |-> s.content, state |-> s.state]

(* new Response throws for a stream that was read or is locked, for a body  *)
(* with a status that has none, and for a WebSocket with another than 101.  *)
JsRefuses(r) ==
  \/ r.body = Stream /\ r.state # "unread"
  \/ r.body # Empty /\ r.status = 204
  \/ r.websocket /\ r.status # 101

(* What JavaScript refuses is unwrapped: a panic, and nothing is made.      *)
Unwrap == outcome' = "panic" /\ UNCHANGED <<response, sent>>

(* cloned: JavaScript tees the body, this response reads one end, the clone *)
(* has the other and the same encoding; a WebSocket cannot be cloned.       *)
Cloned ==
  /\ outcome = "built" /\ ~response.websocket
  /\ IF JsRefuses(response) THEN Unwrap
     ELSE LET edge == IntoSys(response) IN
            /\ response' = [response EXCEPT !.body = IF edge.stream THEN Stream ELSE Empty]
            /\ sent' = sent \cup {IntoSys([FromSys(edge) EXCEPT !.encode = response.encode])}
            /\ UNCHANGED outcome
  /\ UNCHANGED <<routes, request, copy, told>>

(* The Response is moved into a JavaScript one, which is the answer.        *)
Respond ==
  /\ outcome = "built"
  /\ IF JsRefuses(response) THEN Unwrap
     ELSE outcome' = "answered" /\ sent' = sent \cup {IntoSys(response)} /\ UNCHANGED response
  /\ UNCHANGED <<routes, request, copy, told>>

Calls == {"HEAD", "GET", "POST", "on", "any"}

HttpNext ==
  \/ \E c \in Calls, p \in Patterns : Cardinality(routes) < 3 /\ AddHandler(c, p)
  \/ \E s \in {"HEAD", "GET", "POST", "PROPFIND"}, p \in {"/a", "/b"} : Run(s, p)
  \/ \E p \in {"", "/a"} : NewRequest("POST", p)
  \/ \E ok \in BOOLEAN : ReadRequest(ok)
  \/ \E mut \in BOOLEAN : CloneRequest(mut)
  \/ ReadCopy \/ HeadersMut \/ PathMut \/ ReadResponse \/ Cloned \/ Respond
  \/ \E f \in {"json", "stream", "empty"} : Build(f, 200)
  \/ \E s \in {200, 400, 600} : Build("error", s)
  \/ \E s \in {200, 301} : Build("redirect", s)
  \/ Build("websocket", 101)
  \/ \E w \in {"status", "no_content", "cors", "encode", "cf", "headers"} : With(w)

HttpSpec == HttpInit /\ [][HttpNext]_httpVars

HttpTypeOK ==
  /\ routes \subseteq [method : Methods \cup {"any"}, pattern : Patterns]
  /\ outcome \in {"none", "run", "made", "built", "answered", "panic"}
  /\ request.immutable \in BOOLEAN /\ response.status \in 0..599

-----------------------------------------------------------------------------
(* A request is routed to a handler of its method, or of any, whose pattern *)
(* matches; is refused as unknown only when no route that counts matches,   *)
(* and as not allowed only when one of a method that may be asked does.     *)
(* That goes before the routes for any method: those are reached only when  *)
(* no other method's route matches, although or_else_any_method speaks of   *)
(* all methods that are not handled (router.rs:199, 401).                   *)
RoutedRightly ==
  outcome = "run" =>
    LET to == request.to path == request.wirePath
        known == {r.method : r \in {r \in routes : r.pattern = "/{x}" \/ r.pattern = path}}
        uncounted == {"HEAD", "OPTIONS", "TRACE"}
    IN  /\ to.method # "error" => to \in routes /\ to.method \in {MethodFrom(request.asked), "any"}
        /\ to.method = "any" => known \subseteq uncounted \cup {"any"} /\ request.method \notin known
        /\ to.pattern = "404" => known \subseteq uncounted
        /\ to.pattern = "405" => known \ (uncounted \cup {"any"}) # {} /\ request.method \notin known

(* No body is read twice: a request's is refused the second time, whatever  *)
(* failed before; every clone of a response and the response itself send    *)
(* the content, the status and the encoding that were built, or the worker  *)
(* panics: what was read is not sent as if it were whole.                   *)
BodiesAreKept ==
  /\ <<"request", "twice">> \notin told
  /\ \A r \in sent : /\ r.content = response.content /\ r.state = "unread"
                     /\ r.encode = response.encode /\ r.status = response.status

HttpKeepsFaith == RoutedRightly /\ BodiesAreKept
=============================================================================
