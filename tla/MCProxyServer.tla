--------------------------- MODULE MCProxyServer ----------------------------
(***************************************************************************)
(* Constants for ProxyServer: one request for every route and for every    *)
(* way HandlePostApiChat may go.                                           *)
(***************************************************************************)
EXTENDS ProxyServer

CONSTANT User

Body(stream, roles) == [isJson |-> TRUE, stream |-> stream, messages |-> roles]

Sent(method, path, contentType, body) ==
  [method |-> method, path |-> path, contentType |-> contentType, body |-> body]

Good == Body("true", <<System, User>>)
Json == "application/json"

ServedRequests ==
  {Sent("POST", "/api/chat", Json, Good),
   Sent("POST", "/api/chat", Json, Body("true", <<User>>)),
   Sent("POST", "/api/chat", Json, Body("false", <<System, User>>)),
   Sent("POST", "/api/chat", "application/json; charset=utf-8", Good),
   Sent("GET", "/api/chat", Json, Good),
   Sent("POST", "/api/generate", Json, Good)}

\* Ollama answers both of them: the first one tells that it is running.
UnservedRequests ==
  {Sent("GET", "/", Json, Good), Sent("PATCH", "/api/tags", Json, Good)}

AllRequests == ServedRequests \cup UnservedRequests
=============================================================================
