------------------------------- MODULE Router -------------------------------
(***************************************************************************)
(* The router, http_router.hpp, with the handlers http_server.hpp wraps    *)
(* around it (http_handler_check_, http_handler_), and the checks of       *)
(* ws_before_ap.hpp that an upgrade to a WebSocket has to pass.            *)
(*                                                                         *)
(* A route has an entry in one of three tables: regular expressions, in    *)
(* the order of registration, full urls, and the parts of urls registered  *)
(* with a trailing '*'.  An entry has the methods it answers to and its    *)
(* aspects, objects with a before, an after, or both.  invoke runs the     *)
(* befores in order, the handler, and the afters from the last aspect to   *)
(* the first; all of these are user code, which may return true or false   *)
(* or throw.                                                               *)
(***************************************************************************)
EXTENDS Integers, Sequences

CONSTANTS
    Urls,        \* the urls of the requests, and STATIC_RESOURCE
    StaticUrl,   \* STATIC_RESOURCE
    WsUrls,      \* the urls a check is registered for
    Dotted,      \* the urls with a '.' in them
    Patterns,    \* the regular expressions
    Matches,     \* the pairs <<pattern, url>> std::regex_match accepts
    Parts,       \* the names registered with a trailing '*'
    Occurs,      \* the pairs <<part, url>> where the part occurs in the url
    Letters,     \* the first letters of methods: GET; POST, PUT and PATCH...
    Aspects,     \* the lists of aspects: sequences of [before, after : BOOLEAN]
    MaxRoutes    \* bound on the calls that change routes, and on those that register checks

\* The lists of aspects are lists, and a check is registered for a url.
ASSUME RouterAssumption ==
    /\ Aspects \subseteq Seq([before : BOOLEAN, after : BOOLEAN])
    /\ WsUrls \subseteq Urls /\ StaticUrl \in Urls

(***************************************************************************)
(* rt: the tables regex_invokers_ (a sequence), map_invokers_ and          *)
(* wildcard_invokers_ (functions on the names registered), and             *)
(* ap_container (from urls to the calls that registered the checks); the   *)
(* numbers of the calls that changed them; the request being routed: where *)
(* invoke stands (at, with i the aspect it is at), its aspects, what ran,  *)
(* and the reply; and, for every url, the first call that registered a     *)
(* check for it (asked).                                                   *)
(***************************************************************************)
VARIABLE rt

rtVars == <<rt>>

\* get_method_arr: one entry per letter.  A handler registered for no method
\* at all has an array of zeros.
Entries == [methods : SUBSET Letters, aspects : Aspects]

Idle == [at |-> "idle", i |-> 0, aspects |-> <<>>, ran |-> <<>>, reply |-> "none", url |-> StaticUrl]

RTInit ==
    rt = [regex |-> <<>>, exact |-> <<>>, wild |-> <<>>, checks |-> <<>>, calls |-> 0, regs |-> 0,
          req |-> Idle, asked |-> [u \in Urls |-> 0]]

-----------------------------------------------------------------------------
(***************************************************************************)
(* Registration.                                                           *)
(***************************************************************************)

Changes == rt.req.at = "idle" /\ rt.calls < MaxRoutes

\* The table t with the entry e under the name n: operator[] replaces an entry.
With(t, n, e) == [x \in DOMAIN t \cup {n} |-> IF x = n THEN e ELSE t[x]]

register_handler(n, e) ==
    /\ Changes
    /\ \/ n \in Urls /\ rt' = [rt EXCEPT !.exact = With(@, n, e), !.calls = @ + 1]
       \/ n \in Parts /\ rt' = [rt EXCEPT !.wild = With(@, n, e), !.calls = @ + 1]

register_handler_for_regex(n, e) ==
    /\ Changes
    /\ rt' = [rt EXCEPT !.regex = Append(@, <<n, e>>), !.calls = @ + 1]

remove_handler(n) ==
    /\ Changes
    /\ rt' = [rt EXCEPT !.exact = [x \in DOMAIN @ \ {n} |-> @[x]], !.calls = @ + 1]

\* websocket_before_ap_mananger::regist: try_emplace keeps the check that is there.
regist(u) ==
    /\ rt.req.at = "idle" /\ rt.regs < MaxRoutes
    /\ rt' = [rt EXCEPT !.checks = IF u \in DOMAIN @ THEN @ ELSE With(@, u, rt.regs + 1),
                        !.asked[u] = IF @ = 0 THEN rt.regs + 1 ELSE @, !.regs = @ + 1]

-----------------------------------------------------------------------------
(***************************************************************************)
(* route: the entries a request may end at, none when it is not found.     *)
(***************************************************************************)

\* The regular expressions that match a url.
Regex(u) == {i \in DOMAIN rt.regex : <<rt.regex[i][1], u>> \in Matches}

Known(u) == Regex(u) # {} \/ u \in DOMAIN rt.exact

\* The first regular expression that matches decides, then the full url.
Entry(u) ==
    IF Regex(u) = {} THEN {rt.exact[u]}
    ELSE {rt.regex[i][2] : i \in {j \in Regex(u) : \A k \in Regex(u) : j <= k}}

\* The first of wildcard_invokers_ in the order of a hash table.  The methods are
\* not looked at.
get_wildcard_function(u) ==
    {rt.wild[p] : p \in {q \in DOMAIN rt.wild : <<q, u>> \in Occurs}}

route(method, url) ==
    LET u == IF ~Known(url) /\ url \in Dotted THEN StaticUrl ELSE url
    IN  IF Known(u) THEN {e \in Entry(u) : method \in e.methods}
        ELSE get_wildcard_function(u)

-----------------------------------------------------------------------------
(***************************************************************************)
(* http_handler_: one request.                                             *)
(***************************************************************************)

\* One user function of the request returned r, or threw.
Ran(what, r) == Append(rt.req.ran, <<what, rt.req.i, r>>)

\* http_handler_check_ with route_it: a url without a handler is answered 404.
Routes(method, url) ==
    /\ rt.req.at = "idle"
    /\ \/ /\ route(method, url) = {}
          /\ rt' = [rt EXCEPT !.req = [Idle EXCEPT !.at = "done", !.reply = "notfound"]]
       \/ \E e \in route(method, url) :
              rt' = [rt EXCEPT !.req = [Idle EXCEPT !.at = "before", !.i = 1,
                                                    !.aspects = e.aspects]]

\* websocket_before_ap_mananger::invoke: the url itself has to have a check, whatever
\* route it was found by, and the check decides.
ws_connection_check_(method, url, r) ==
    /\ rt.req.at = "idle" /\ route(method, url) # {}
    /\ LET asks == IF url \in DOMAIN rt.checks THEN << <<"check", rt.checks[url], r>> >> ELSE <<>>
       IN  rt' = [rt EXCEPT !.req = [Idle EXCEPT !.at = "done", !.ran = asks, !.url = url,
                      !.reply = IF asks # <<>> /\ r THEN "handshake" ELSE "forbidden"]]

\* A pass that only takes the last result into account lets the handler run after
\* a before that returned false.
last_before_counts(r) ==
    /\ rt.req.at = "before" /\ rt.req.i <= Len(rt.req.aspects)
    /\ rt.req.aspects[rt.req.i].before
    /\ rt' = [rt EXCEPT !.req = [rt.req EXCEPT !.ran = Ran("before", r), !.i = @ + 1,
                  !.at = IF ~r /\ rt.req.i = Len(rt.req.aspects) THEN "done" ELSE @]]

\* do_ap_before, one aspect with a before: a false one ends the request.
do_ap_before(r) ==
    /\ rt.req.at = "before" /\ rt.req.i <= Len(rt.req.aspects)
    /\ rt.req.aspects[rt.req.i].before
    /\ rt' = [rt EXCEPT !.req = [rt.req EXCEPT !.ran = Ran("before", r), !.i = @ + 1,
                                               !.at = IF r THEN @ ELSE "done"]]

\* invoke: the handler, when every before was passed.
invoke ==
    /\ rt.req.at = "before" /\ rt.req.i > Len(rt.req.aspects)
    /\ rt' = [rt EXCEPT !.req = [rt.req EXCEPT !.ran = Ran("handler", TRUE), !.i = Len(rt.req.aspects),
                                               !.at = "after", !.reply = "handler"]]

\* do_void_after, do_after: one aspect with an after.  The rest of the aspects is
\* skipped once one returned false.
do_after(r) ==
    /\ rt.req.at = "after" /\ rt.req.i > 0
    /\ rt.req.aspects[rt.req.i].after
    /\ rt' = [rt EXCEPT !.req = [rt.req EXCEPT !.ran = Ran("after", r), !.i = @ - 1,
                                               !.at = IF r THEN @ ELSE "done"]]

\* has_before, has_after: an aspect without the function is passed over.
Skips ==
    \/ /\ rt.req.at = "before" /\ rt.req.i <= Len(rt.req.aspects)
       /\ ~rt.req.aspects[rt.req.i].before
       /\ rt' = [rt EXCEPT !.req.i = @ + 1]
    \/ /\ rt.req.at = "after" /\ rt.req.i > 0
       /\ ~rt.req.aspects[rt.req.i].after
       /\ rt' = [rt EXCEPT !.req.i = @ - 1]

\* Anything the user code throws is caught and answered with 500.
Throws ==
    /\ \/ /\ rt.req.at = "before"
          /\ rt.req.i <= Len(rt.req.aspects) => rt.req.aspects[rt.req.i].before
       \/ rt.req.at = "after" /\ rt.req.i > 0 /\ rt.req.aspects[rt.req.i].after
    /\ rt' = [rt EXCEPT !.req = [rt.req EXCEPT !.at = "done", !.reply = "error"]]

\* The reply was written: the next request.
Replied ==
    /\ \/ rt.req.at = "done"
       \/ rt.req.at = "after" /\ rt.req.i = 0
    /\ rt' = [rt EXCEPT !.req = Idle]

RTNext ==
    \/ \E n \in Urls \cup Parts, e \in Entries : register_handler(n, e)
    \/ \E n \in Patterns, e \in Entries : register_handler_for_regex(n, e)
    \/ \E n \in Urls : remove_handler(n)
    \/ \E u \in WsUrls : regist(u)
    \/ \E m \in Letters, u \in Urls : Routes(m, u) \/ \E r \in BOOLEAN : ws_connection_check_(m, u, r)
    \/ \E r \in BOOLEAN : do_ap_before(r) \/ do_after(r)
    \/ invoke \/ Skips \/ Throws \/ Replied

RTSpec == RTInit /\ [][RTNext]_rtVars

-----------------------------------------------------------------------------
\* The positions in ran of the calls of a kind.
Calls(what) == {k \in DOMAIN rt.req.ran : rt.req.ran[k][1] = what}

\* The handler of a route runs at most once, and only when every before of the
\* route ran and returned true; the afters run only behind the handler, from the
\* last aspect to the first, and none runs behind one that returned false.  So an
\* aspect that refuses a request keeps the handler and every after from it,
\* wherever in the list of aspects it stands and whatever the others do (invoke,
\* do_ap_before, do_after).  An upgrade is admitted by the check that was first
\* registered for its url, and by no other.
GuardedHandler ==
    LET ran == rt.req.ran
        asp == rt.req.aspects
    IN  /\ \A h \in Calls("handler") :
              /\ Calls("handler") = {h}
              /\ \A i \in DOMAIN asp : asp[i].before =>
                    \E k \in 1 .. h - 1 : ran[k] = <<"before", i, TRUE>>
              /\ \A a \in Calls("after") :
                    /\ a > h
                    /\ a - 1 > h => ran[a - 1][3] /\ ran[a - 1][2] > ran[a][2]
                    /\ \A i \in DOMAIN asp : asp[i].after /\ i > ran[a][2] =>
                          \E k \in h .. a : ran[k] = <<"after", i, TRUE>>
        /\ rt.req.reply = "handshake" => ran = << <<"check", rt.asked[rt.req.url], TRUE>> >>
=============================================================================
