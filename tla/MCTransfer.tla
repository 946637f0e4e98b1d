----------------------------- MODULE MCTransfer -----------------------------
(***************************************************************************)
(* Instances of ClientCall and Transfer for TLC.                           *)
(***************************************************************************)
EXTENDS Transfer

CONSTANTS local, here, HERE, other

AllHosts  == {local, here, HERE, other}
Folding   == [h \in AllHosts |-> IF h = HERE THEN here ELSE h]
AtLocal   == [scheme |-> "http", host |-> local, port |-> "8443", user |-> FALSE]

URL(scheme, host, port, user) ==
  [scheme |-> scheme, host |-> host, port |-> port, user |-> user]
Written(url, path) == [form |-> "url", url |-> url, path |-> path]

Plain  == URL("http", here, "none", FALSE)
Secure == URL("https", here, "none", FALSE)

BaseURLs ==
  {Written(Plain, <<>>), Written(Secure, <<"mount">>),
   Written(URL("ftp", here, "none", FALSE), <<>>), Written(URL("https", here, "none", TRUE), <<>>),
   [form |-> "empty", url |-> Plain, path |-> <<>>],
   [form |-> "hostless", url |-> Plain, path |-> <<>>],
   [form |-> "unparseable", url |-> Plain, path |-> <<>>]}

Text(with, text) == [with |-> with, text |-> text]
Wait(with, d)    == [with |-> with, d |-> d]
HTTP(http)       == [with |-> "HTTPClient", http |-> http]
Insecure         == [with |-> "Insecure"]
Bearer           == Text("BearerToken", "token")

Options ==
  {Text("AuthHeader", "X-Email"), Bearer, Text("BearerToken", ""),
   Text("SessionCookie", "sid"), Text("SessionCookie", "sso"),
   Text("SessionCookie", "not a token"), Insecure, Text("Origin", "app"),
   Text("UserAgent", "agent"), Wait("UnaryTimeout", 0), Wait("UnaryTimeout", 9),
   Wait("TransferTimeout", 5), Wait("TransferTimeout", 0 - 1), Wait("StreamIdleTimeout", 0),
   HTTP(CallerHTTP(0, "none")), HTTP(CallerHTTP(4, "custom")), HTTP(NilHTTP)}

\* Every two options in either order, and three that bear on each other.
OptionLists ==
  {<<>>} \union {<<o>> : o \in Options} \union {<<o, p>> : o, p \in Options}
  \union {<<Bearer, o, p>> : o \in {Insecure, Text("SessionCookie", "sid")}, p \in Options}

Made == {[base |-> b, opts |-> o] : b \in BaseURLs, o \in OptionLists}

Calling ==
  {[base |-> b, opts |-> o] :
     b \in {Written(Plain, <<>>), Written(Secure, <<"mount">>)},
     o \in {<<Bearer>>, <<Bearer, Insecure>>,
            <<HTTP(CallerHTTP(0, "none")), Wait("UnaryTimeout", 0)>>,
            <<Wait("TransferTimeout", 5)>>}}
  \union {[base |-> Written(Secure, <<"mount">>), opts |-> <<HTTP(CallerHTTP(4, "custom"))>>]}

\* A name, a name left out, and a dot segment; a name with a slash for the rest.
Args == {"id", "", ".."}

\* A caller that chose its place, and one that left everything to the server.
Placed  == [limit |-> "5", after |-> "here", before |-> "there", order |-> NotGiven]
Chosen  == [Placed EXCEPT !.order = "asc"]
Sifted  ==
  [n \in DOMAIN Placed \union Filters \union Flags |->
     CASE n = "kind" -> "any" [] n = "pinned" -> "true" [] n \in DOMAIN Placed -> Placed[n]
       [] OTHER -> NotGiven]
Hydrate == [include_items |-> "false", include_liveness |-> NotGiven, refresh_state |-> "true"]

Reads ==
  {List(o, c) : o \in {NoOptions, Sifted}, c \in {NotGiven, "next"}}
  \union {ListAgents(Placed, "next"), ListItems("id", Chosen, "next"), Children("id", "next"),
          ListFiles("id", [limit |-> NotGiven, order |-> "desc"], "next"),
          Get("id", Hydrate), Delete("id", [delete_branch |-> "true"])}

AllOperations ==
  Reads \union
  {Create("id", "json"), Create("", "json"), Create("id", "unencodable")}
  \union UNION {{Get(a, NoOptions), Delete(a, NoOptions), Fork(a, "json"),
                 ListItems(a, NoOptions, NotGiven), Children(a, NotGiven),
                 ListFiles(a, NoOptions, NotGiven),
                 SendMessage(a), Interrupt(a), BindRunner(a, "id"), BindRunner("id", a),
                 SetModelOverride("id", a), PostEvent("id", a, "json"),
                 SetReasoningEffort("id", a), ClearModelOverride(a), ClearReasoningEffort(a),
                 SetArchived(a), SetExternalID(a), Compact(a),
                 GetFile("a/b", a), DeleteFile(a, "id")} : a \in Args}
  \union {ResolveElicitation(a, "a/b", b, "json") : a \in Args, b \in {"accept", ""}}
  \union {Upload(a, n, "content") : a \in {"id", ".."}, n \in {"id", "", "forged"}}
  \union {Upload("id", "id", ""), Download("id", "", 2), Download("id", "..", 2)}
  \union {Download("id", "id", n) : n \in 0..2}

Readers == {<<>>, <<"one">>, <<"one", "two">>, <<"fails">>, <<"one", "fails">>}


At(url) == [kind |-> "url", url |-> url]
Answered ==
  [locations |->
     {[kind |-> "missing", url |-> Plain], [kind |-> "unparseable", url |-> Plain],
      At(Plain), At(Secure), At(URL("https", HERE, "443", FALSE)), At(URL("https", here, "8443", FALSE)),
      At(URL("ftp", here, "none", FALSE)), At(URL("https", here, "none", TRUE)), At(URL("https", other, "none", FALSE))},
   bodies |->
     {Foreign, Envelope(<<"x">>, <<"y">>, NoField, <<"none">>),
      Envelope(<<"x">>, NoField, NoField, <<"text", "x", "control", "y">>),
      Envelope(NoField, NoField, NoField, <<"list">>)}
     \union {Envelope(NoField, NoField, m \o <<"x", "y">>, <<"none">>) :
               m \in [1..2 -> {"control", "space", "x"}]}]
=============================================================================
